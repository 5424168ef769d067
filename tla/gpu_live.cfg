CONSTANTS
  p40 = p40
  v100 = v100
  m1 = m1
  m2 = m2
  Managers = {m1}
  Tiers <- OneWarm
  WarmTiers <- OneWarm
  MinReplicas <- MCMin
  MaxReplicas <- MCMaxOne
  LeaseDuration = 1
  StartupTimeout = 2
  HeartbeatTimeout = 1
  DemandTTL = 1
  MaxServices = 2
  MaxDemands = 1
  MaxClock = 2
  Faults = {"status", "report"}
  MaxCrashes = 1
SPECIFICATION FairSpec
PROPERTIES
  DemandIsSettled
  UnhealthyIsRemoved
  OrphanEnds
  MinimumIsRestored
  LimitIsRestored
CHECK_DEADLOCK FALSE
