SPECIFICATION FairSpec
CONSTANTS
  Requests = {r1, r2, r3}
  Videos = {v1, v2}
  NoRequest = NoRequest
  Wants <- MCWants
  r1 = r1
  r2 = r2
  r3 = r3
  v1 = v1
  v2 = v2
  Forced = {r2}
  Names = {1, 2, 3}
  MaxCancels = 1
INVARIANTS TypeOK Findable SavedIsWhole NothingLeft
PROPERTIES DownloadsEnd
CHECK_DEADLOCK FALSE
