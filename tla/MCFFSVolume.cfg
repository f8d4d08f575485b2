SPECIFICATION SessionSpec
CONSTANTS
  NBlocks = 7
  Root = 3
  Names = {1, 2, 3}
  Versions = {1}
  NBuckets = 1
  MaxDepth = 2
  MaxCalls = 4
  Flavors = {1, 4, 7}
  BulkEvery = 2
INVARIANTS SessionSound SpaceExact
PROPERTIES ImplementsFileTree
CHECK_DEADLOCK FALSE
