SPECIFICATION FairSpec
CONSTANTS
  Calls = {c1, c2}
  Pages = {p1, p2}
  NoCall = NoCall
  NoPage = NoPage
  Workers = {w1}
  Reader = Reader
  SendBuffer = 1
  QueueSize = 1
INVARIANTS AnswersMatch TablesAreCalls
PROPERTIES CallsEnd DeadPagesLeave
CHECK_DEADLOCK FALSE
