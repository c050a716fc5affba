SPECIFICATION MCSpec
CONSTANTS
  Drivers = {"airspy", "airspyhf", "hydrasdr"}
  TransferCount = 2
  BufferCount = 2
  CanFail = TRUE
  MaxBlocks = 3
  MaxCalls = 2
INVARIANTS
  TypeOK
  BufferNotOverwritten
  TransfersCounted
