CONSTANTS
  Cells = 2
  LastClus = 5
  a = a
  b = b
  Names = {a, b}
  Paths <- TwoLevels
  x = x
  y = y
  Data = {x, y}
  Zero = Zero
  Deleted = Deleted
  Flags <- ShellFlags
  Buffers <- ShortAndLong
  Counts = {4}
  Stale = {0}
  Beyond = {0}
  Unknown = Unknown
  Fills = FALSE
  TruncatesLong = TRUE
  FirstIntoFull = FALSE
VIEW StateView
SPECIFICATION Spec
PROPERTIES OnlyItsWritesChangeAFile
