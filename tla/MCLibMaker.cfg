SPECIFICATION Spec
CONSTANTS
  Args <- MCArgs
  Objects <- MCObjects
  FuncMax = 2
  MayFail = TRUE
CHECK_DEADLOCK FALSE
INVARIANTS
  LibraryRight
PROPERTIES
  OldLibraryKept
  TmpGone
