SPECIFICATION Spec
CONSTANTS
  a = a
  b = b
  c = c
  d1 = d1
  d2 = d2
  Thread = {a, b}
  Device = {d1, d2}
  CallbackCalls = {"close"}
  MaxCalls = 4
INVARIANT
  CloseFromCallbackProceeds
