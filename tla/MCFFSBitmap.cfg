SPECIFICATION FullSpec
CONSTANTS
  Total = 7
  Reserved = 2
  WordBits = 2
  WordsPerPage = 2
  AlignMin = 4
  AlignBlks = 2
  MaxCount = 5
  NoCount = NoCount
INVARIANTS TypeOK CountExact CleanPagesOnDisk
PROPERTY ImplementsAllocator
