SPECIFICATION CrashSpec
CONSTANTS
  NBlocks = 6
  Root = 3
  Names = {1, 2}
  Versions = {1}
  NBuckets = 1
  MaxDepth = 2
  MaxCalls = 5
  Flavors = {1}
  BulkEvery = 2
INVARIANTS DurableOnReturn DataBeforeMetadata AtomicCreateAndRemove MarkedInBulk RepairRestores
CHECK_DEADLOCK FALSE
