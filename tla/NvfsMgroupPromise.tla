-------------------------- MODULE NvfsMgroupPromise --------------------------
(***************************************************************************)
(* The mgroup with its atomic operations implements the buffer of          *)
(* NvfsBuffer: io_state and life are its phase, dma_ref its DMA.           *)
(***************************************************************************)
EXTENDS NvfsMgroupInv

Phase == CASE life = "none" -> "absent"
           [] life = "dead" -> "gone"
           [] OTHER ->
                CASE io_state \in {"FREE", "INIT"} -> "mapped"
                  [] io_state = "READY" -> "ready"
                  [] io_state = "IN_PROGRESS" -> "busy"
                  [] io_state \in {"TERMINATE_REQ", "CALLBACK_REQ"} -> "ending"
                  [] io_state \in Terminal -> "ended"

Buffer == INSTANCE NvfsBuffer WITH phase <- Phase, dma <- dma_ref > 0

(* mmap, nvfs_map(), the ioctls, nvfs_vma_close() and the free callback,   *)
(* interleaved at every atomic operation, do to a buffer only what         *)
(* NvfsBuffer allows at once: no I/O on a buffer that is being torn down,  *)
(* no page released under DMA or twice, no shadow buffer freed before its  *)
(* pages, and an I/O that was asked to end ends.                           *)
KeepsPromise == Buffer!Spec
=============================================================================
