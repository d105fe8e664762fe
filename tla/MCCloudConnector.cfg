SPECIFICATION FairSpec
CONSTANTS
  Commands = {c1, c2}
  Kinds = {"search", "download", "badDownload", "apiCall", "apiDownload", "badApiCall", "unknown"}
  Width = 12
  BaseDelay = 4
  MaxDelay = 480
  MaxFailures = 2
  MaxConns = 2
  HelperEnabled = TRUE
INVARIANTS DownloadsAreLicensed AnsweredOnce
PROPERTIES CommandsEnd Reconnects StopsForGood
CHECK_DEADLOCK FALSE
