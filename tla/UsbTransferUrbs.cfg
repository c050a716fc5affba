SPECIFICATION Spec
CONSTANTS
  h = h
  u1 = u1
  u2 = u2
  t1 = t1
  t2 = t2
  Handler = h
  User = {u1, u2}
  Transfer = {t1}
  Kinds <- AllKinds
  NumUrbs = 2
  Timed = {t1}
  MaxCalls = 3
SYMMETRY Symmetry
INVARIANTS
  TypeOK
  UrbsOutliveKernel
  EveryUrbCounted
  NeverStranded
PROPERTIES
  ImplementsContract
