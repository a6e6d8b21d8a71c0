CONSTANTS
  InitCap = 2
  MaxCap = 8
  Space = Space
  Chars = {c1, Space}
  NUL = NUL
  Junk = Junk
SPECIFICATION Spec
INVARIANTS TypeOK StoresInside
PROPERTIES ImplementsLine
