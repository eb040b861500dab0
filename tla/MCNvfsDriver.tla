---------------------------- MODULE MCNvfsDriver ----------------------------
(* NvfsDriver for TLC.                                                     *)
EXTENDS NvfsDriver

CONSTANTS p1, p2
=============================================================================
