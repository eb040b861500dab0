----------------------------- MODULE NvfsBuffer -----------------------------
(***************************************************************************)
(* What a GPU buffer promises to the process that registered it, to the    *)
(* storage stack that transfers to it and to the NVIDIA driver that owns   *)
(* its memory, with no word about reference counts, threads or the number  *)
(* of steps an operation takes.  Each operation happens at once.           *)
(***************************************************************************)

VARIABLES
  phase, \* "absent", "mapped", "ready", "busy", "ending", "ended", "gone"
  pages, \* the GPU pages: "none", "pinned", "released"
  dma    \* the storage stack may transfer to or from the GPU pages

vars == <<phase, pages, dma>>

Init == phase = "absent" /\ pages = "none" /\ dma = FALSE

Become(from, to) == phase \in from /\ phase' = to

(* mmap, and the three outcomes of nvfs_map(): pages that are pinned are   *)
(* announced, or given back when it fails half way.                        *)
Mmap == Become({"absent"}, "mapped") /\ UNCHANGED <<pages, dma>>

Pin == /\ phase = "mapped" /\ pages # "pinned"
       /\ pages' = "pinned" /\ UNCHANGED <<phase, dma>>

Announce == Become({"mapped"}, "ready") /\ pages = "pinned"
            /\ UNCHANGED <<pages, dma>>

(* One I/O at a time.  DMA happens inside it, on pinned pages only, and is *)
(* over before the buffer is ready again.                                  *)
Begin == Become({"ready"}, "busy") /\ UNCHANGED <<pages, dma>>

MapDma == /\ phase \in {"busy", "ending"} /\ pages = "pinned" /\ ~dma
          /\ dma' = TRUE /\ UNCHANGED <<phase, pages>>

UnmapDma == dma /\ dma' = FALSE /\ UNCHANGED <<phase, pages>>

End == Become({"busy"}, "ready") /\ ~dma /\ UNCHANGED <<pages, dma>>

(* munmap and the free callback: a buffer that carries no I/O ends at      *)
(* once, otherwise the I/O has to answer.                                  *)
Terminate == Become({"mapped", "ready"}, "ended") /\ UNCHANGED <<pages, dma>>

Request == Become({"busy"}, "ending") /\ UNCHANGED <<pages, dma>>

Answer == Become({"ending"}, "ended") /\ ~dma /\ UNCHANGED <<pages, dma>>

(* The pages go back once, when no I/O can reach them any more, and before *)
(* the shadow buffer is freed.                                             *)
Release == /\ phase \in {"mapped", "ended"} /\ pages = "pinned" /\ ~dma
           /\ pages' = "released" /\ UNCHANGED <<phase, dma>>

Free == Become({"mapped", "ended"}, "gone") /\ pages # "pinned" /\ ~dma
        /\ UNCHANGED <<pages, dma>>

Next == Mmap \/ Pin \/ Announce \/ Begin \/ MapDma \/ UnmapDma \/ End
        \/ Terminate \/ Request \/ Answer \/ Release \/ Free

(* DMA finishes, and an I/O that was asked to end does, also if it maps    *)
(* and unmaps pages in between.                                            *)
Spec == Init /\ [][Next]_vars /\ WF_vars(UnmapDma) /\ SF_vars(Answer)
=============================================================================
