SPECIFICATION Spec
CONSTANTS
  BufSize = 2
  Kinds = {"stdout", "tty", "stderr", "append"}
  MaxChunk = 3
  MaxBytes = 3
  MaxPos = 1
CHECK_DEADLOCK FALSE
INVARIANTS
  TypeOK
  HeaderInvariant
  OffsetTracks
  BytesAccounted
PROPERTIES
  PromiseKept
  CallReturns
