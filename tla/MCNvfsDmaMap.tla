---------------------------- MODULE MCNvfsDmaMap ----------------------------
(* Instances of NvfsDmaMap for TLC: two queues of one device, and one of   *)
(* another device.                                                         *)
EXTENDS NvfsDmaMap

CONSTANTS q1, q2, q3, d1, d2

TwoDevices == [q \in Queues |-> IF q = q3 THEN d2 ELSE d1]
=============================================================================
