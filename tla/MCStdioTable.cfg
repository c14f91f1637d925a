SPECIFICATION Spec
CONSTANTS
  Capacity = 2
  BufSize = 1
  Paths = {"p"}
  MaxFd = 3
  MaxBytes = 2
CHECK_DEADLOCK FALSE
INVARIANTS
  NothingLeaks
  NothingDropped
PROPERTIES
  ExitEnds
