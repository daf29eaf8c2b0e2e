\* An observation overlaps the retirement of the record it reinforces.
SPECIFICATION RequestSpec
CONSTANTS
  alice = alice
  tea = tea  Tea = Tea  rye = rye
  None = None
  Id = {m1, m2, m3}
  Owner = {alice}
  Content = {tea, rye}
  Writer = {q1, q2}
  Searcher = {}
  DecayKind = {"none"}
  TTL = 0
  MaxTime = 0
  ChunkSize = 1
  HasEmbedder = FALSE
  Locus <- MCLocus
  NormKey <- MCNormKey
  Snapshots = {}
PROPERTIES RetiredStaysRetired
CHECK_DEADLOCK FALSE
