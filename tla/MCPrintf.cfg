SPECIFICATION Spec
CONSTANTS
  Half = 32
  Formats <- MCFormats
  ArgLists <- MCArgLists
  Sizes = {0, 4, 12}
CHECK_DEADLOCK FALSE
INVARIANTS
  PrintSound
