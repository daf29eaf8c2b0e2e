\* What outlives a request: the file store, the shutdown, two replicas that migrate, a resumed benchmark.
SPECIFICATION DurableSpec
CONSTANTS
  Caller = {c1, c2, c3}
  MaxVersion = 5
  Absent = Absent
  Torn = Torn
  Request = {r1, r2}
  ShutdownTimeout = 2
  CloseTimeout = 1
  Replica = {"current", "edited"}
  Files <- MCFiles
  Sources <- MCSources
  MaxBoots = 2
  Question = {1, 2}
  MaxShards = 2
  PoolSize = 2
  MaxCommit = 2
  MaxMishaps = 1
INVARIANTS FileIsWhole AckedIsDurable ExitIsHonest LedgerTellsSchema ReportsTellTruth
PROPERTIES ImplementsDurableStore EveryCallAnswered ProcessExits RerunsConverge
CHECK_DEADLOCK FALSE
