CONSTANTS
  r1 = r1
  r2 = r2
  c1 = c1
  c2 = c2
  Runs = {r1, r2}
  Limited = {}
  Callers = {c1}
  Ops <- OneCaller
  Faults = {"inspection", "daemon"}
  MaxDaemons = 2
  MaxCancels = 0
  MaxCrashes = 1
SPECIFICATION FairSpec
INVARIANTS
  WarmTypeOK
  RequestIsNotLost
PROPERTIES
  LeftoverIsServed
  RunsEnd
CHECK_DEADLOCK FALSE
