CONSTANTS
  r1 = r1
  r2 = r2
  c1 = c1
  c2 = c2
  Runs = {r1}
  Limited = {r1}
  Callers = {c1, c2}
  Ops <- SubmitAndCancel
  Faults = {"inspection", "daemon", "broker"}
  MaxDaemons = 1
  MaxCancels = 1
  MaxCrashes = 1
SPECIFICATION FairSpec
INVARIANTS
  SucceededHasResult
PROPERTIES
  ResultArrives
CHECK_DEADLOCK FALSE
