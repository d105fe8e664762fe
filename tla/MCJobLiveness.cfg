SPECIFICATION FairSpec
CONSTANTS
  Users = {u1}
  Jobs = {j1, j2}
  Orders = {o1}
  Slots = {s1}
  Durations = {1, 5}
  RemoteDurations = {0, 4}
  PackagePoints = {2900}
PROPERTIES HoldsClose KeepsAccounts
CHECK_DEADLOCK FALSE
