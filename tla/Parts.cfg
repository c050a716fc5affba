SPECIFICATION MCSpec
CONSTANTS
  FlyingTransfer = {"t1", "t2", "t3"}
  Durations = {0, 1, 2}
  MaxTime = 4
  HotplugDevice = {"d1", "d2"}
  HotplugCallback = {"c1", "c2"}
  Enumerating = {"c1"}
  OneShot = {"c2"}
  PktSize = 2
  BufferSize = 2
  MaxRead = 3
  MaxSamples = 8
  MaxStreamCalls = 5
INVARIANTS
  PartsTypeOK
  NextTimeoutKnown
  EventsReported
  NothingFreedInUse
  FifoInOrder
  ThreadsFitStreams
PROPERTIES
  TimeoutsHandled
  DeregisteredFreed
