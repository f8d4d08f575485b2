SPECIFICATION SessionSpec
CONSTANTS
  n1 = n1
  n2 = n2
  n3 = n3
  n4 = n4
  NBlocks = 9
  Region = 3
  MapBlocks = 4
  Names = {n1, n2, n3, n4}
  Long = {n3, n4}
  CallPaths <- FewPaths
  Refused = {}
  Versions = {2, 3}
  LeafCap = 3
  IndexCap = 3
  Cap = 2
  BulkEvery = 2
  MaxDepth = 2
  MaxCalls = 4
INVARIANTS Sound SpaceExact CachesCoherent Unharmed
PROPERTIES ImplementsFileTree
CHECK_DEADLOCK FALSE
SYMMETRY Symmetry
