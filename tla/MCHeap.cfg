CONSTANTS
  HeapSize = 36
  Header = 4
  Align = 2
  MinSize = 4
  Requests = {1, 5, 7}
  NULL = NULL
SPECIFICATION Spec
INVARIANTS TypeOK WellFormed FullyRecovered
PROPERTIES ImplementsAllocator
