SPECIFICATION Spec
CONSTANTS
  a = a
  b = b
  c = c
  d1 = d1
  d2 = d2
  Thread = {a, b}
  Device = {d1, d2}
  CallbackCalls = {"handle_events"}
  MaxCalls = 4
INVARIANT
  HandlerNeverWaits
