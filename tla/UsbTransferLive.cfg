SPECIFICATION FairSpec
CONSTANTS
  h = h
  u1 = u1
  u2 = u2
  t1 = t1
  t2 = t2
  Handler = h
  User = {u1}
  Transfer = {t1}
  Kinds <- SplitKinds
  NumUrbs = 2
  Timed = {t1}
  MaxCalls = 2
PROPERTIES
  CancelCompletes
  ExpiryCompletes
  UnplugCompletes
