CONSTANTS
  p40 = p40
  r1 = r1
  b1 = b1
  Tiers <- Warm
  WarmTiers <- Warm
  MinReplicas <- MCMin
  MaxReplicas <- MCMax
  LeaseDuration = 1
  StartupTimeout = 1
  HeartbeatTimeout = 1
  DemandTTL = 2
  MaxServices = 1
  MaxDemands = 2
  MaxClock = 3
  Requests <- OneRequest
  Brokers = {b1}
  Retention = 2
  Faults = {"registry", "retire", "killed"}
  MaxCrashes = 1
SPECIFICATION FairSpec
INVARIANTS
  SpoolTypeOK
  RequestIsNotLost
PROPERTIES
  AnswerIsTrue
  FilesAreSwept
CHECK_DEADLOCK FALSE
