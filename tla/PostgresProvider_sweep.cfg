\* A sweep beside an observation of the memory it found expired.
SPECIFICATION PromptSpec
CONSTANTS
  m1 = m1  m2 = m2  m3 = m3
  tea = tea  Tea = Tea  rye = rye
  None = None
  Id = {m1, m2}
  Content = {tea}
  Session = {s1, s2}
  DecayKind = {"inactivity"}
  TTL = 1
  MaxTime = 2
  Op = {"observe", "compact"}
  NormKey <- MCNormKey
  Rank <- MCUnordered
  Batches = {}
SYMMETRY StoreSymmetry
PROPERTY SweepsOnlyDue
CHECK_DEADLOCK FALSE
