SPECIFICATION BulkSpec
CONSTANTS
  NBlocks = 4
  Root = 2
  Names = {1, 2}
  Versions = {1}
  NBuckets = 1
  MaxDepth = 2
  MaxCalls = 6
  Flavors = {1}
  BulkEvery = 8
INVARIANT ContentsKept
CHECK_DEADLOCK FALSE
