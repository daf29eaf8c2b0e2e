\* The background pass asked for while the embedder is in its cooldown, or has nothing to embed.
SPECIFICATION Spec
CONSTANTS
  m1 = m1  m2 = m2  m3 = m3
  alice = alice  aliceApp2 = aliceApp2  bob = bob
  tea = tea  Tea = Tea  rye = rye
  None = None
  Id = {m1, m2}
  Owner = {alice}
  Content = {tea, rye}
  Writer = {w1}
  Searcher = {}
  DecayKind = {"inactivity"}
  TTL = 0
  MaxTime = 0
  ChunkSize = 1
  HasEmbedder = TRUE
  Locus <- MCLocus
  NormKey <- MCNormKey
  Snapshots <- MCSnapshots
INVARIANT BackfillEmbedsEveryRecord
CHECK_DEADLOCK FALSE
