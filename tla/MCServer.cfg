\* What surrounds the stores: one module at a time, named by part (see MCServer.tla).
SPECIFICATION ServerSpec
CONSTANTS
  Identity = {k1, k2, k3}
  Limit = 1
  Window = 3
  Second = 2
  SweepEvery = 2
  Capacity = 2
  MaxTime = 4
  MaxCount = 3
  Absent = Absent
  t1 = t1  t2 = t2  app1 = app1  app2 = app2  ann = ann  bob = bob
  team = team  padded = padded  blank = blank  talk = talk
  Name = {t1, t2, app1, app2, ann, bob, team, padded, blank, talk}
  Trim <- MCTrim
  None = None
  Memories <- SampleRecords
  FiltersAsked <- SampleFilters
  IdScopesAsked <- SampleIdScopes
  Key = {"key1", "key2"}
  Configured <- SampleCredentials
  Batched <- SampleBatches
  Sections <- MCSections
  HitsHeader = 2
  ProfileHeader = 1
  Title = 2
  PerType = 2
  MaxItems = 2
  LeastChars = 4
  MostChars = 14
  IncludeUnverified = FALSE
  ContextRequests <- SampleRequests
  OwnWords <- MCOwnWords
  LabelWords <- MCLabelWords
  BatchSize = 2
  ContextTurns = 1
  MaxFacts = 2
  Extractions <- SampleExtractions
  Searcher = {1, 2}
  Hit = {"x1", "x2", "x3"}
  Score <- MCScore
  Rankings <- MCRankings
  TopK = 2
  MinScores = {0, 1}
  Gate = 1
  Cooldown = 2
  Rows <- MCRows
  MaxSearches = 3
  MaxClock = 3
  NaN = NaN
  Post = {1, 2}
  MaxRetries = 1
  Timeout = 2
  Delays = {1, 2}
  MaxEmpty = 1
  MaxPosts = 2
  MaxInstant = 3
  Memory = {"m1", "m2"}
  Space = {"s1"}
  Owner <- MCOwner
  SpaceOf <- MCSpaceOf
  TenantWide = {"team"}
  FactsOf <- MCFactsOf
  Near <- MCNear
  SummaryAfter = 2
  Ingester = {"i1"}
  Timer = "timer"
  MaxEvents = 2
  Doc = {"d1", "d2"}
  Term = {"a", "b"}
  Texts <- MCTexts
  Indexer = {"x1", "x2"}
  MaxIndexed = 4
  NoText = NoText
  Agent = {"a1", "a2"}
  Wording = {"A", "B"}
  MaxId = 3
  NoId = NoId
  Services <- MCServices
  Schedule <- MCSchedule
  Probe = "probe"
  MaxRestarts = 1
  Finder = {"f1", "f2"}
  RrfK = 60
  LexWeight = 1
  VecWeight = 1
  VectorCooldown = 2
  MaxFinds = 3
  MaxMoment = 3
  Queries <- SampleQueries
  RecordId = {"r1", "r2"}
  Scoped = {"ann", "bob"}
  Batcher = {"b1", "b2"}
  Scorer = {"s1"}
  MaxWrites = 3
  EmbedCaller = {"c1", "c2"}
  TextLists <- MCTextLists
  EmbedBatch = 2
  CacheSize = 2
  MaxEmbeds = 3
  ZeroVector = ZeroVector
INVARIANTS OneLocus GrantsConfine ContextHolds ExtractionKeeps RerankingHolds CallsEndWell LimiterBounded ProjectionsCurrent RetrievalHolds ToolsTellTruth CampaignTellsTruth HybridSearchHolds EnhancedHolds
PROPERTIES RetryAfterHonoured
CHECK_DEADLOCK FALSE
