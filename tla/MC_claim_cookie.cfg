SPECIFICATION Spec

CONSTANTS
  GpuBlocks = 2
  ContigOf <- Boundary
  MaxSegs = 3
  MaxSegBlocks = 3
  Modes = {"iter"}
  Bases = {0, 1}
  NrPhys = {1}
  SmmuOnly = TRUE
  FaultsOf <- StateFault
  NBlocks = 6
  MaxBvecs = 2
  BvecLen = 4
  Tables <- FourPages
  RequestsOf <- RequestsUsed

INVARIANTS
  CookieHeld
