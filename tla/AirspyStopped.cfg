SPECIFICATION MCSpec
CONSTANTS
  Drivers = {"airspy"}
  TransferCount = 2
  BufferCount = 2
  CanFail = FALSE
  MaxBlocks = 2
  MaxCalls = 2
INVARIANT
  StoppedTransfersIdle
