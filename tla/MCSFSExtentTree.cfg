SPECIFICATION SparingSpec
CONSTANTS
  Keys = {1, 2, 3, 4, 5, 6}
  MaxRuns = 2
  Root = 0
  AdminBlocks = {1, 2, 3, 4, 5, 6, 7, 8, 9, 10, 11, 12}
  LeafMax = 2
  IndexMax = 3
CHECK_DEADLOCK FALSE
INVARIANTS TreeSound
PROPERTY ImplementsFileExtents
