SPECIFICATION Spec
CONSTANTS
  a = a
  b = b
  c = c
  d1 = d1
  d2 = d2
  Thread = {a, b, c}
  Device = {d1, d2}
  CallbackCalls = {"close", "handle_events"}
  MaxCalls = 5
SYMMETRY Symmetry
CHECK_DEADLOCK FALSE
INVARIANTS
  TypeOK
  OneHandler
  PipeMatchesFlags
  CloseFlagCountsClosers
  PollWatchesDevices
