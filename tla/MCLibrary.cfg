SPECIFICATION Spec
CONSTANTS
  Keys = {1, 2, 3}
  MaxItems = 6
  Width = 7
  Chars = {32, 45, 48, 49, 57, 90, 102, 120}
  MaxChars = 4
  Bases = {0, 1, 2, 8, 10, 16, 36, 37}
  Years <- MCYears
  DaySeconds = {0, 86399}
  Texts <- MCTexts
  OtherText <- MCOtherText
  Separators <- MCSeparators
  MaxCalls = 4
  Words <- MCWords
  MaxWords = 3
  OptStrings <- MCOptStrings
  Procs = {p1, p2}
  TempNames = {n1, n2}
  TRY_COUNT = 2
  Dirs = {"d1", "d2"}
  Files <- MCFiles
  MaxEntries = 3
  LinkNames = {"tool", "cc"}
  MaxLinks = 3
  Unsigneds = 32
  PrintBuf = 3
  PrintFormats <- MCPrintFormats
  PrintArgs <- MCPrintArgs
  FileCapacity = 2
  FileBufSize = 2
  Names <- MCNames
  Original <- MCOriginal
  MaxWritten = 3
  MaxCount = 3
  Openings <- MCOpenings
  Seeks <- MCSeeks
  Reach = 3
  StdoutSize = 2
  UserSizes = {1, 2}
  MaxOut = 3
CHECK_DEADLOCK FALSE
INVARIANTS
  SortingRight
  StrtolReads
  CalendarRight
  TokensKept
  OptionsParsed
  TempFilesRight
  CommandsRight
  PlainPrintsRight
  TwinsAlike
  OutRight
PROPERTIES
  NeverTakenOver
  TriesEnd
