CONSTANTS
  Span = 3
  tick = 2
  Gaps = {0, 1, 2, 4}
  Width = 5
  Height = 4
  InitLength = 4
  InitCapacity = 7
  WinLength = 7
  ByteValues = 5
  PlaceValues = 9
SPECIFICATION Spec
INVARIANTS TypeOK KeepsTime AliveUntilItHits
PROPERTIES NeverIntoItsNeck
CHECK_DEADLOCK FALSE
