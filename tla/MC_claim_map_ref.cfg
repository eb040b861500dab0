SPECIFICATION Spec
CONSTANTS
  t1 = t1
  Thr = {t1}
  Legacy = TRUE
  Sync = {TRUE}
  MapFails = FALSE
  IoOverlap <- None
  CloseOverlap <- AllIo
  CbOverlap <- None
  BothTear = FALSE
  MaxMaps = 1
  MaxDma = 1
  MaxChunks = 2
INVARIANTS
  MapRefDroppedOnce
CHECK_DEADLOCK FALSE
