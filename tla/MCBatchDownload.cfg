SPECIFICATION FairSpec
CONSTANTS
  Clients = {c1, c2}
  Workers = {w1}
  Gids = {g1}
  MaxTasks = 1
  MaxBatches = 2
  MaxRuns = 2
  MaxRetries = 2
  ResumeEnabled = TRUE
  Overlap = FALSE
INVARIANTS OneRun SavedOnce NothingStuck
PROPERTY RunsEnd
CHECK_DEADLOCK FALSE
