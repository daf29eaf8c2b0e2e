\* Any client of the provider; two texts, two owners, one slow write and one search beside the backfill.
SPECIFICATION Spec
CONSTANTS
  m1 = m1  m2 = m2  m3 = m3
  alice = alice  aliceApp2 = aliceApp2  bob = bob
  tea = tea  Tea = Tea  rye = rye
  None = None
  Id = {m1, m2}
  Owner = {alice, bob}
  Content = {tea, rye}
  Writer = {w1}
  Searcher = {s1}
  DecayKind = {"inactivity"}
  TTL = 0
  MaxTime = 0
  ChunkSize = 1
  HasEmbedder = TRUE
  Locus <- MCOwnLocus
  NormKey <- MCOwnKey
  Snapshots <- MCSnapshots
INVARIANTS TypeOK IndexesExact SearchStaysInLocus EmbeddingsComplete
CHECK_DEADLOCK FALSE
SYMMETRY ClientSymmetry
