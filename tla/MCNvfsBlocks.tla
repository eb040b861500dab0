---------------------------- MODULE MCNvfsBlocks ----------------------------
(* Instances of NvfsBlocks for TLC.                                        *)
EXTENDS NvfsBlocks

(* The empty I/O, part of a GPU page, the whole shadow buffer, and two     *)
(* pieces.                                                                 *)
SomeLengths == {0, 2, 6, 8}
=============================================================================
