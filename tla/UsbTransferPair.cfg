SPECIFICATION Spec
CONSTANTS
  h = h
  u1 = u1
  u2 = u2
  t1 = t1
  t2 = t2
  Handler = h
  User = {u1}
  Transfer = {t1, t2}
  Kinds <- PairKinds
  NumUrbs = 1
  Timed = {t1}
  MaxCalls = 3
INVARIANTS
  FlyingMatchesFlags
  DeviceReferenced
  LocksInOrder
