\* One process observes beside one that observes, corrects, rewrites, rates and sweeps rows that expire.
SPECIFICATION ObservedSpec
CONSTANTS
  m1 = m1  m2 = m2  m3 = m3
  tea = tea  Tea = Tea  rye = rye
  None = None
  Id = {m1, m2}
  Content = {tea, Tea, rye}
  Session = {s1, s2}
  Observer = s1
  DecayKind = {"time", "inactivity"}
  TTL = 1
  MaxTime = 2
  Op = {"observe", "ingest", "correct", "feedback", "compact"}
  NormKey <- MCNormKey
  Rank <- MCUnordered
  Batches <- MCAgeing
SYMMETRY IdSymmetry
INVARIANTS OneActivePerKey RowsCurrent
CHECK_DEADLOCK FALSE
