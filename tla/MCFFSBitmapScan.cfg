SPECIFICATION ScanSpec
CONSTANTS
  Total = 11
  Reserved = 2
  WordBits = 2
  WordsPerPage = 2
  AlignMin = 4
  AlignBlks = 2
  MaxCount = 6
  NoCount = NoCount
INVARIANTS NeverShort TakesNextFit
PROPERTY ScanReturns
