SPECIFICATION Spec
CONSTANTS
  s1 = s1
  s2 = s2
  s3 = s3
  c1 = c1
  c2 = c2
  Shards = {s1, s2}
  Cached = {}
  ChunkOf <- TwoChunks
  Callers = {c1, c2}
  Ops <- CancelAndPoll
  BatchBackend = TRUE
  Cacheable = TRUE
  MaxActive = 1
  MaxForced = 1
  MaxRetried = 1
  Faults = {"cancel"}
  Outcomes <- AllSucceed
  MaxAttempts = 2
  MaxRuns = 2
  MaxCommands = 1
  MaxCrashes = 0
PROPERTIES
  ReducerWaitsForChunks
  SubmittedOnceIsEnough
CHECK_DEADLOCK FALSE
