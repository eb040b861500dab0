SPECIFICATION Spec
CONSTANTS
  g1 = g1
  v1 = v1
  p1 = p1
  p2 = p2
  p3 = p3
  NoDev = NoDev
  u1 = u1
  u2 = u2
  Devices = {g1, v1, p1, p2, p3}
  ClassOf <- Class
  Nvidia = {g1}
  Link <- Bandwidth
  Topologies <- SomeTopologies
  MAX_GPU_DEVS = 1
  MAX_PEER_DEVS = 2
  MAX_PCI_DEPTH = 3
  Users = {u1, u2}
  MaxOps = 2
INVARIANTS
  RankExact
  UsageShown
