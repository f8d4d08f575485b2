SPECIFICATION RootSpec
CONSTANTS
  n1 = n1
  n2 = n2
  n3 = n3
  NRes = 6
  NMain = 1
  Names = {n1, n2, n3}
  Refused = {}
  Versions = {1, 2, 3}
  NSlots = 4
  Cap = 1
  BulkEvery = 2
  MaxDepth = 1
  MaxCalls = 4
INVARIANTS FailedWriteRollsBack
CHECK_DEADLOCK FALSE
