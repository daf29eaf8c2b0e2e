\* The provider as the service drives it; two owners share a locus.
SPECIFICATION ServiceSpec
CONSTANTS
  m1 = m1  m2 = m2  m3 = m3
  alice = alice  aliceApp2 = aliceApp2  bob = bob
  tea = tea  Tea = Tea  rye = rye
  None = None
  Id = {m1, m2, m3}
  Owner = {alice, aliceApp2}
  Content = {tea, rye}
  Writer = {w1}
  Searcher = {}
  DecayKind = {"none", "time"}
  TTL = 0
  MaxTime = 1
  ChunkSize = 1
  HasEmbedder = FALSE
  Locus <- MCLocus
  NormKey <- MCNormKey
  Snapshots <- MCServiceSnapshots
INVARIANTS DedupeFindsEveryVisible
PROPERTIES RetirementIsFinal
CHECK_DEADLOCK FALSE
