SPECIFICATION Spec

CONSTANTS
  GpuBlocks = 2
  MaxSegs = 3
  MaxSegBlocks = 3
  Modes = {"nvme", "scsi", "own", "iter"}
  Bases = {0, 1}
  NrPhys = {1, 3}
  SmmuOnly = TRUE
  NBlocks = 6
  MaxBvecs = 2
  BvecLen = 4
  ContigOf <- Boundary
  FaultsOf <- AnyFault
  Tables <- FourPages
  RequestsOf <- RequestsUsed

INVARIANTS
  TypeOK
  GpuAddresses
  AllMapped
  MixedRefused
  RefHeld
