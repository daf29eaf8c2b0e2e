\* Two processes that correct each other's memories.
SPECIFICATION FairSpec
CONSTANTS
  m1 = m1  m2 = m2  m3 = m3
  tea = tea  Tea = Tea  rye = rye
  None = None
  Id = {m1, m2}
  Content = {tea, rye}
  Session = {s1, s2}
  DecayKind = {"none"}
  TTL = 0
  MaxTime = 0
  Op = {"correct", "ingest", "feedback", "compact"}
  NormKey <- MCNormKey
  Rank <- MCRank
  Batches <- MCPairs
INVARIANTS RowsTypeOK BatchesLockInOrder
PROPERTY EveryCallAnswered
CHECK_DEADLOCK FALSE
