SPECIFICATION FairSpec
CONSTANTS
  p1 = p1
  p2 = p2
  NoAgent = NoAgent
  Procs = {p1, p2}
  Cpus = 2
  Modules = 1
  MaxOpens = 3
  MaxMaps = 1
  MaxPieces = 2
INVARIANTS
  RegistrationPaired
  UnloadSafe
PROPERTIES
  UnloadEnds
CHECK_DEADLOCK FALSE
