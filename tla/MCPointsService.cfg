SPECIFICATION ServiceSpec
CONSTANTS
  Users = {u1, u2}
  Jobs = {j1, j2}
  Orders = {o1}
  Slots = {s1, s2}
  Durations = {1, 9}
  RemoteDurations = {4}
  PackagePoints = {2900}
  PackageIds = {"starter"}
  OtherAmounts = {1}
  Development = TRUE
SYMMETRY Symmetry
INVARIANTS
  NoOverdraft
  LedgerExplainsJobs
PROPERTIES
  DoubleEntry
  SettledForGood
  JobsSeeCredits
CHECK_DEADLOCK FALSE
