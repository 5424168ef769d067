CONSTANTS
  f1 = f1
  f2 = f2
  Paths = {f1, f2}
  Contents = {1, 2}
  FirstTree <- OneFile
  Small = TRUE
  Warm = FALSE
  Moves = {"edit", "create", "touch", "stage"}
  MaxMoves = 4
  Builders = {"b1"}
  Configs = {1}
  Faults = {"kill"}
  MaxBuilds = 3
SPECIFICATION Spec
INVARIANTS
  IdentityCoversTree
  ChunksMatchTree
CHECK_DEADLOCK FALSE
