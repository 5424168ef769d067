CONSTANTS
  f1 = f1
  f2 = f2
  f3 = f3
  a = a
  b = b
  d = d
  c1 = c1
  c2 = c2
  Clients = {c1}
  Fps = {f1, f2, f3}
  Docs <- ThreeStates
  BatchSize = 1
  Faiss = FALSE
  Faults = {"restart", "loss", "kill", "embed"}
  MaxFaults = 1
SPECIFICATION FairSpec
INVARIANTS
  AnswerIsAligned
PROPERTIES
  RetrievalRecovers
CHECK_DEADLOCK FALSE
