SPECIFICATION FairSpec
CONSTANTS
  s1 = s1
  s2 = s2
  s3 = s3
  c1 = c1
  c2 = c2
  Shards = {s1, s2}
  Cached = {}
  ChunkOf <- TwoChunks
  Callers = {c1}
  Ops <- OneCaller
  BatchBackend = TRUE
  Cacheable = TRUE
  MaxActive = 1
  MaxForced = 1
  MaxRetried = 1
  Faults = {"submit", "status"}
  Outcomes <- SomeFail
  MaxAttempts = 2
  MaxRuns = 2
  MaxCommands = 2
  MaxCrashes = 1
INVARIANTS
  RootTypeOK
  RunsAreAccountedFor
PROPERTIES
  ReducerSeesLatestAttempts
  NothingWaitsForEver
CHECK_DEADLOCK FALSE
