SPECIFICATION DistinctSpec
CONSTANTS
  NBlocks = 4
  Values = {0, 1}
  SmallMax = 1
  ServedMax = 3
  Threshold = 5
VIEW View
INVARIANT TypeOK
PROPERTY ImplementsDevice
