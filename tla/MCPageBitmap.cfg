CONSTANTS
  PageSize = 2
  ByteBits = 3
  TopPage = 7
  NPages = 9
  Maps <- MCMaps
  PairOrders = {TRUE, FALSE}
  KernelAt = 4
  OwnSizes = {1, 3}
  StackAts = {3, 9, 13}
  StackSize = 2
  Counts = {1, 2, 3}
SPECIFICATION BitmapSpec
INVARIANTS TypeOK HeldApart Accounted
PROPERTIES ImplementsPageAllocator
