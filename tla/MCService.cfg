\* Two overlapping requests over either kind of provider, or a service under load, as named by
\* part (see MCService.tla).
SPECIFICATION ServiceRunSpec
CONSTANTS
  alice = alice
  tea = tea  Tea = Tea  rye = rye
  None = None
  Id = {m1, m2, m3}
  Owner = {alice}
  Content = {tea, rye}
  Writer = {q1, q2}
  Searcher = {}
  DecayKind = {"none"}
  TTL = 0
  MaxTime = 0
  ChunkSize = 1
  HasEmbedder = FALSE
  Locus <- MCLocus
  NormKey <- MCNormKey
  Snapshots = {}
  Entry = {1, 2}
  Concurrency = 2
  MaxFaults = 1
SYMMETRY RequestSymmetry
INVARIANTS LinksLead RepliesTellWrites CorrectionsChain LoadTellsTruth
CHECK_DEADLOCK FALSE
