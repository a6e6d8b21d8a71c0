CONSTANTS
  Cells = 2
  LastClus = 5
  a = a
  b = b
  Names = {a, b}
  Paths <- TwoLevels
  x = x
  y = y
  Data = {x, y}
  Zero = Zero
  Deleted = Deleted
  Flags <- ShellFlags
  Buffers <- ShortAndLong
  Counts = {3, 4}
  Stale = {0, 4}
  Beyond = {0}
  Unknown = Unknown
  Fills = FALSE
  TruncatesLong = FALSE
  FirstIntoFull = TRUE
VIEW StateView
SPECIFICATION Spec
INVARIANTS TypeOK OneOwner HandleMatchesDisk
PROPERTIES LeaksOnlyWhenFull ImplementsFileStore
