CONSTANTS
  Cells = 2
  LastClus = 4
  a = a
  b = b
  Names = {a, b}
  Paths <- TwoLevels
  x = x
  nl = nl
  Data = {x, nl}
  Newline = nl
  Zero = Zero
  Deleted = Deleted
  Beyond = {0, 3, 4}
  Unknown = Unknown
  DotDot = DotDot
  Flags = {}
  Buffers <- MCBuffers
  Counts = {}
  Chunk = 2
  MaxSize = 4
  Args <- MCArgs
  Stale = {0, 4}
  Fills = TRUE
  TruncatesLong = FALSE
  FirstIntoFull = FALSE
VIEW StateView
SPECIFICATION WritesSpec
INVARIANTS ShowsTheTree EchoKeepsTheText SectorsAddUp FoundOneOwner
PROPERTIES CwdIsADirectory TreeAtOnce
