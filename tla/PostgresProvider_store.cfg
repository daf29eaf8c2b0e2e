\* The service on Postgres: observations, corrections and retirements of two processes.
SPECIFICATION Spec
CONSTANTS
  m1 = m1  m2 = m2  m3 = m3
  tea = tea  Tea = Tea  rye = rye
  None = None
  Id = {m1, m2, m3}
  Content = {tea, rye}
  Session = {s1, s2}
  DecayKind = {"time"}
  TTL = 0
  MaxTime = 1
  Op = {"observe", "correct", "retire"}
  NormKey <- MCNormKey
  Rank <- MCUnordered
  Batches = {}
SYMMETRY StoreSymmetry
INVARIANT CorrectionsForm
PROPERTY ImplementsExactStore
CHECK_DEADLOCK FALSE
