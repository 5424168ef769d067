CONSTANTS
  f1 = f1
  f2 = f2
  Paths = {f1, f2}
  Contents = {1, 2}
  FirstTree <- BothFiles
  Small = FALSE
  Warm = TRUE
  Moves = {"edit", "create", "delete", "touch", "stage", "commit", "checkout"}
  MaxMoves = 5
  Builders = {"b1"}
  Configs = {1}
  Faults = {}
  MaxBuilds = 3
SPECIFICATION Spec
INVARIANTS
  ChunkTypeOK
  DirtyIsFresh
PROPERTIES
  RepeatIsStable
CHECK_DEADLOCK FALSE
