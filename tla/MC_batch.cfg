SPECIFICATION Spec
CONSTANTS
  t1 = t1
  t2 = t2
  b1 = b1
  b2 = b2
  Threads = {t1, t2}
  Buffers = {b1, b2}
  Requests <- SomeRequests
  MaxIoctls = 2
  MaxAdmin = 2
SYMMETRY Symmetry
INVARIANTS
  ClaimsEnd
  OpsShown
CHECK_DEADLOCK FALSE
