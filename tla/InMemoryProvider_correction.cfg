\* A correction that reuses a duplicate shortens its retention.
SPECIFICATION ServiceSpec
CONSTANTS
  m1 = m1  m2 = m2  m3 = m3
  alice = alice  aliceApp2 = aliceApp2  bob = bob
  tea = tea  Tea = Tea  rye = rye
  None = None
  Id = {m1, m2, m3}
  Owner = {alice, aliceApp2}
  Content = {tea, rye}
  Writer = {w1}
  Searcher = {}
  DecayKind = {"none", "time"}
  TTL = 0
  MaxTime = 1
  ChunkSize = 1
  HasEmbedder = FALSE
  Locus <- MCLocus
  NormKey <- MCNormKey
  Snapshots <- MCServiceSnapshots
PROPERTY CorrectionIsVisible
CHECK_DEADLOCK FALSE
