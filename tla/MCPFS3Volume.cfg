SPECIFICATION SessionSpec
CONSTANTS
  n1 = n1
  n2 = n2
  n3 = n3
  NRes = 6
  NMain = 3
  Names = {n1, n2, n3}
  Refused = {}
  Versions = {1, 2, 3}
  NSlots = 4
  Cap = 2
  BulkEvery = 2
  MaxDepth = 2
  MaxCalls = 4
INVARIANTS Sound SpaceExact CachesCoherent DurableOnReturn Unharmed
PROPERTIES ImplementsFileTree
CHECK_DEADLOCK FALSE
SYMMETRY Symmetry
