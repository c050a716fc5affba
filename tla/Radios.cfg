SPECIFICATION MCFairSpec
CONSTANTS
  TransferCount = 2
  CanFail = TRUE
  MaxBlocks = 1
  MaxCalls = 3
INVARIANTS
  NoSilentDropout
  FreedIsUnused
  CloseAfterReading
PROPERTIES
  HackrfCloseReturns
  ReadingEnds
