SPECIFICATION Spec
CONSTANTS
  Half = 32
  Formats <- LongFormats
  ArgLists <- MCArgLists
  Sizes = {12}
CHECK_DEADLOCK FALSE
INVARIANTS
  LongLongRight
