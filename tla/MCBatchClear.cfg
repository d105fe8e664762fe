SPECIFICATION Spec
CONSTANTS
  Clients = {c1}
  Workers = {w1}
  Gids = {g1}
  MaxTasks = 1
  MaxBatches = 1
  MaxRuns = 1
  MaxRetries = 1
  ResumeEnabled = TRUE
  Overlap = FALSE
INVARIANT IndicesAreChecked
CHECK_DEADLOCK FALSE
