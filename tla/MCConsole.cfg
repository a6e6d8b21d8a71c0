CONSTANTS
  Chars = {c1}
  Blank = Blank
  Cols = 5
  Height = 5
  Pitch = 7
  CharHeight = 2
SPECIFICATION Spec
PROPERTIES ImplementsTerminal
