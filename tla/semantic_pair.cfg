CONSTANTS
  f1 = f1
  f2 = f2
  f3 = f3
  a = a
  b = b
  d = d
  c1 = c1
  c2 = c2
  Clients = {c1, c2}
  Fps = {f1, f2}
  Docs <- TwoStates
  BatchSize = 1
  Faiss = FALSE
  Faults = {}
  MaxFaults = 0
SPECIFICATION Spec
INVARIANTS
  ReadyIsComplete
  AnswerIsWhole
CHECK_DEADLOCK FALSE
