SPECIFICATION Spec
CONSTANTS
  Files <- MCFiles
  Plans <- MCPlans
  Garbage = {0, 3, 7}
  MaxRetry = 1
  MayFail = TRUE
CHECK_DEADLOCK FALSE
INVARIANTS
  ExecSound
  ObjSound
PROPERTIES
  Idempotent
