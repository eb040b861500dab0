SPECIFICATION FairSpec
CONSTANTS
  NBlocks = 6
  GpuBlocks = 3
  MaxHoles = 2
  Unit = 2
  VaBase = 1
  BufBlocks = 10
  Lengths <- SomeLengths
  Iter = {TRUE, FALSE}
  Rkeys = {TRUE, FALSE}
  MaxRetry = 2
  Restarts = TRUE
INVARIANTS
  GpuTarget
  WriteChecked
  ReadAccounted
  HolesExact
  BlocksReusable
  NoDmaError
  PiecesFit
  FreedOnce
PROPERTIES
  IoEnds
