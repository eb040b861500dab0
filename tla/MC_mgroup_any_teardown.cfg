SPECIFICATION Spec
CONSTANTS
  t1 = t1
  t2 = t2
  Thr = {t1, t2}
  Legacy = TRUE
  Sync = {TRUE, FALSE}
  MapFails = TRUE
  IoOverlap <- None
  CloseOverlap <- Anywhere
  CbOverlap <- Anywhere
  BothTear = TRUE
  MaxMaps = 1
  MaxDma = 1
  MaxChunks = 2
INVARIANTS
  SerialInv
  PagesOutliveDma
PROPERTIES
  NoIoAfterTeardown
CHECK_DEADLOCK FALSE
