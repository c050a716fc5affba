SPECIFICATION MCFairSpec
CONSTANTS
  Drivers = {"airspy", "airspyhf", "hydrasdr"}
  TransferCount = 1
  BufferCount = 2
  CanFail = TRUE
  MaxBlocks = 4
  MaxCalls = 3
INVARIANTS
  RingConsistent
  LossesReported
  NoThreadOutlivesStream
PROPERTIES
  StopReturns
  BlocksConsumed
