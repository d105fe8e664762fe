SPECIFICATION Spec
CONSTANTS
  Commands = {}
  Kinds = {"search"}
  Width = 12
  BaseDelay = 4
  MaxDelay = 480
  MaxFailures = 12
  MaxConns = 2
  HelperEnabled = TRUE
INVARIANT RetriesForEver
CHECK_DEADLOCK FALSE
