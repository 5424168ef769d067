CONSTANTS
  p40 = p40
  v100 = v100
  m1 = m1
  m2 = m2
  Managers = {m1}
  Tiers <- OneScale
  WarmTiers <- NoTiers
  MinReplicas <- MCMin
  MaxReplicas <- MCMaxOne
  LeaseDuration = 1
  StartupTimeout = 1
  HeartbeatTimeout = 1
  DemandTTL = 1
  MaxServices = 2
  MaxDemands = 1
  MaxClock = 2
  Faults = {"probe", "oom", "timeout", "preempted", "shutdown", "submit", "runtime", "cancel"}
  MaxCrashes = 1
SPECIFICATION Spec
INVARIANTS
  ControlTypeOK
  NoForgottenJob
PROPERTIES
  OutcomeIsFinal
  OomIsClassified
  LapsedStaysLapsed
  RegistrySpec
  CapacityIsKept
CHECK_DEADLOCK FALSE
