SPECIFICATION FairSpec
CONSTANTS
  q1 = q1
  q2 = q2
  q3 = q3
  d1 = d1
  d2 = d2
  Queues = {q1, q2, q3}
  Peers = {d1, d2}
  PeerOf <- TwoDevices
  MapFails = TRUE
  Gaps = FALSE
  UnmapFailed = {TRUE, FALSE}
  MaxNents = 2
  MaxReqs = 3
INVARIANTS
  OneMapping
  MappingLive
  MapInv
  RefBalance
  EntryHeld
PROPERTIES
  MapReturns
