CONSTANTS
  p1 = p1
  p2 = p2
  s1 = s1
  s2 = s2
  Processes = {p1, p2}
  Fps = {s1, s2}
  Empty = {s2}
  Modes = {"evidence", "answer"}
  Categories = {"transient", "rejected"}
  OnDemand = TRUE
  EditsAnytime = FALSE
  MaxJobs = 2
  MaxEdits = 1
  MaxFaults = 1
SPECIFICATION Spec
INVARIANTS
  EvidenceIsOwn
  AnswerIsEarned
  UsefulEvidenceIsKept
SYMMETRY Alike
CHECK_DEADLOCK FALSE
