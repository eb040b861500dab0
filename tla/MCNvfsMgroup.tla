---------------------------- MODULE MCNvfsMgroup ----------------------------
(* Instances of NvfsMgroup for TLC.  The label sets say at which points of *)
(* an ioctl the other parties may start.                                   *)
EXTENDS NvfsMgroupPromise

None == {}
AllIo == IoLabels \cup TransitLabels \cup FreeLabels
Anywhere == Labels
=============================================================================
