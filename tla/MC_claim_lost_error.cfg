SPECIFICATION Spec
CONSTANTS
  NBlocks = 6
  GpuBlocks = 3
  MaxHoles = 2
  Unit = 2
  VaBase = 1
  BufBlocks = 10
  Lengths = {2, 6, 8}
  Iter = {TRUE}
  Rkeys = {FALSE}
  MaxRetry = 1
  Restarts = FALSE
INVARIANTS
  ErrorReported
