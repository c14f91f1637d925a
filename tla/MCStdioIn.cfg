SPECIFICATION Spec
CONSTANTS
  BufSize = 2
  Kinds = {"stdin", "tty", "stderr"}
  FileBytes = {"a"}
  BackBytes = {"x"}
  NL = "nl"
  MaxLen = 3
  MaxPos = 3
  MaxItem = 2
  MaxSize = 4
INVARIANTS
  StructSound
  OffsetTracks
  BytesRight
PROPERTIES
  StepsRight
  PromiseKept
  CallReturns
