CONSTANTS
  x = x
  X = X
  Slash = Slash
  Dot = Dot
  Space = Space
  Quote = Quote
  Greater = Greater
  Newline = Newline
  NUL = NUL
  Capital <- MCCapital
  Base = 2
  Ext = 1
  Room = 4
  MaxLen = 6
  MaxPath = 6
  Typed <- MCTyped
  Cwds <- MCCwds
  Wrapped = 13
SPECIFICATION Spec
INVARIANTS UnclosedIsReported
CHECK_DEADLOCK FALSE
