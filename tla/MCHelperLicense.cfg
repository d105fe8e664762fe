SPECIFICATION Spec
CONSTANTS
  Users = {u1}
  Ops = {o1, o2, o3}
  Counts = {1, 2, 3}
  Flows = {"console", "cloud", "page"}
  MaxVideoCount = 2
  MaxMonths = 3
  Lossy = TRUE
  MayBeBusy = TRUE
  Production = FALSE
SYMMETRY Symmetry
INVARIANTS TrialLimit UsageIsLogged DownloadsAreLicensed ChargedInOrder
CHECK_DEADLOCK FALSE
