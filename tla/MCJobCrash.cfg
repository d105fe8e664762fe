SPECIFICATION FairSpec
CONSTANTS
  Users = {u1}
  Jobs = {j1}
  Orders = {}
  Slots = {s1}
  Durations = {1}
  RemoteDurations = {1}
  PackagePoints = {}
PROPERTY FailedWorkIsRefunded
