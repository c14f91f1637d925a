SPECIFICATION Spec
CONSTANTS
  Flags <- MCFlags
  Preambles <- MCPreambles
  Body <- MCBody
  MaxBody = 3
  MayFail = TRUE
CHECK_DEADLOCK FALSE
INVARIANTS
  ImageSound
  LinkageRight
