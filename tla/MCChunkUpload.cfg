SPECIFICATION FairSpec
CONSTANTS
  s1 = s1
  s2 = s2
  c1 = c1
  c2 = c2
  c3 = c3
  c4 = c4
  m1 = m1
  m2 = m2
  Sessions = {s1, s2}
  Chunks = {c1, c2, c3, c4}
  Merges = {m1, m2}
  Total <- MCTotal
  SessionOf <- MCSessionOf
  IndexOf <- MCIndexOf
  ChunkConcurrency = 2
  MergeConcurrency = 1
  Names = {1, 2}
INVARIANTS TypeOK MergedIsWhole SavedPartsStay
PROPERTIES RequestsEnd
CHECK_DEADLOCK FALSE
