SPECIFICATION SmallSpec
CONSTANTS
  Names = {1, 2}
  MaxDepth = 2
  Versions = {1, 2}
  Times = {0, 1, 4}
  SrcTimes = {1, 4}
  DstTimes = {0, 4}
  Now = 8
  MaxRuns = 2
INVARIANTS BroughtOver KeepsTheRest SecondRunIdle PlanFits
PROPERTY NothingUndone
CHECK_DEADLOCK FALSE
