SPECIFICATION Spec
CONSTANTS
  Levels = 6
  BestFitLimit = 2
  Base = 16
  FirstHeap = 32
  MaxDouble = 64
  Requests = {0, 7, 12, 20, 60, 130}
  Contents = {"c"}
  MaxBlocks = 3
  FirstMayFail = TRUE
CHECK_DEADLOCK FALSE
INVARIANTS
  CutsInHeap
