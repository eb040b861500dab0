SPECIFICATION FairSpec
CONSTANTS
  t1 = t1
  Thr = {t1}
  Legacy = TRUE
  Sync = {TRUE, FALSE}
  MapFails = TRUE
  IoOverlap <- None
  CloseOverlap <- None
  CbOverlap <- AllIo
  BothTear = TRUE
  MaxMaps = 2
  MaxDma = 1
  MaxChunks = 2
INVARIANTS
  NoUseAfterFree
  RefCounted
  ReleasedOnce
  FencePinned
  OpsCoverWork
PROPERTIES
  Reclaimed
  CbReturns
  CbAnswered
  IoReturns
  KeepsPromise
