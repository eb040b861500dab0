---------------------------- MODULE NvfsMgroupInv ----------------------------
(***************************************************************************)
(* The inductive invariant behind PagesOutliveDma, for a user space that   *)
(* issues one I/O at a time on a buffer (IoOverlap = {}) and tears it down *)
(* at any moment.  Every conjunct is about the code; none mentions the     *)
(* property itself.                                                        *)
(***************************************************************************)
EXTENDS NvfsMgroup

(* io_state once the buffer can never carry I/O again ...                  *)
Terminal == {"TERMINATED", "CALLBACK_END", "UNPIN"}

(* ... while an I/O owns it, and while nvfs_map() vouches for it.          *)
Claimed == {"IN_PROGRESS", "TERMINATE_REQ", "CALLBACK_REQ"}
Mapped == {"READY"} \cup Claimed

Freed == life = "dead" \/ \E p \in Proc : pc[p] \in FreeLabels

(* Before mmap there is nothing.                                           *)
Unborn == life = "none" =>
            /\ io_state = "FREE" /\ ref = 0 /\ mapRef = 0 /\ dma_ref = 0
            /\ \A p \in Proc : At(p, "idle")

(* One I/O at a time: two executors are active only while the thread of an *)
(* async I/O has not yet returned from the ioctl.  An I/O that goes on to  *)
(* the end fence is async.                                                 *)
Serial ==
  /\ \A e, f \in Executors :
       e # f /\ ~At(e, "idle") /\ ~At(f, "idle")
          => \/ e = "irq" /\ At(f, "io_tail")
             \/ f = "irq" /\ At(e, "io_tail")
  /\ ~At("irq", "idle") => ~nvfsio_sync
  /\ \A e \in Executors :
       /\ pc[e] \in {"io_fence", "io_end", "io_tail"} => ~nvfsio_sync
       /\ At(e, "io_ready") \/ (pc[e] \in FreeLabels /\ ret[e] = "io_ready")
            => sync[e] = nvfsio_sync
       /\ cont[e] = "io_fence"
          /\ (pc[e] \in TransitLabels
              \/ (pc[e] \in FreeLabels /\ ret[e] = "x_log"))
            => ~nvfsio_sync
  /\ \A e \in Executors : ~At(e, "idle") => At("map", "m_ok")

(* Where the shared subroutines may return to.                             *)
Returns ==
  /\ \A e \in Executors :
       /\ pc[e] \in FreeLabels => ret[e] \in {"idle", "io_ready", "x_log"}
       /\ pc[e] \in TransitLabels \/ (pc[e] \in FreeLabels /\ ret[e] = "x_log")
            => cont[e] \in {"io_unprog", "io_undo", "io_fence", "idle"}
  /\ pc["map"] \in FreeLabels => ret["map"] = "x_log"
  /\ pc["map"] \in TransitLabels \cup FreeLabels
       => cont["map"] \in {"m_nofence", "m_raced"}
  /\ pc["close"] \in FreeLabels => ret["close"] \in {"c_put", "done"}
  /\ pc["cb"] \in FreeLabels => ret["cb"] = "done"

(* What a process at a label knows about io_state.                         *)
Knows ==
  /\ \A e \in Executors :
       /\ pc[e] \in {"io_valid", "io_loop", "io_flight", "io_put"}
            => io_state \in Claimed
       /\ pc[e] \in FreeLabels \cup {"x_put", "x_wake", "x_log"}
            => io_state \in Terminal
  /\ pc["map"] \in FreeLabels \cup {"x_put", "x_wake", "x_log", "m_raced"}
       => io_state \in Terminal
  /\ pc["close"] \in {"c_again", "c_unpin"} => io_state \in Terminal
  /\ pc["cb"] \in {"b_free", "b_fence", "b_put"} => io_state \in Terminal
  /\ io_state \in Mapped => At("map", "m_ok")
  /\ At("map", "m_ok") => io_state \in Mapped \cup Terminal

(* The labels at which nvfs_map() holds its reference, and its pages.      *)
MapHolds == {"m_fence", "m_init", "m_pages", "m_check", "m_free", "m_ready",
             "m_ok"}
MapPinned == {"m_check", "m_free", "m_ready", "m_ok"}

Holding(b) == IF b THEN 1 ELSE 0

(* Some I/O holds the reference of its nvfs_mgroup_get().                  *)
IoHeld == \E e \in Executors : HoldsIo(e)

(* Until io_state is terminal, either the references are all accounted for *)
(* and nobody frees, or munmap frees a buffer that nvfs_map() has not      *)
(* reached yet and no I/O will.                                            *)
Accounted ==
  /\ ~Freed
  /\ ref = Holding(life # "none" /\ ~At("close", "done")) + mapRef + dma_ref
           + Holding(IoHeld)
  /\ mapRef >= 0
  /\ pc["map"] \in MapHolds => mapRef >= 1
  /\ pc["map"] \in MapPinned => pages = "pinned"

Abandoned ==
  /\ Freed /\ ~At("close", "idle") /\ dma_ref = 0
  /\ \A e \in Executors : pc[e] \in {"idle", "io_pin"}

Ledger == io_state \notin Terminal => Accounted \/ Abandoned

(* A block-layer mapping belongs to a request that has not completed.      *)
DmaInFlight == dma_ref > 0 => \E e \in Executors : At(e, "io_flight")

(* The inductive invariant.                                                *)
SerialInv ==
  /\ TypeOK /\ Unborn /\ Serial /\ Returns /\ Knows /\ DmaInFlight
  /\ Ledger

(* nvfs_vma_close(): "free the memory only if sucessfully terminated by    *)
(* vma_close": the reference of nvfs_map() is dropped by one party only.   *)
MapRefDroppedOnce == mapRef >= 0
=============================================================================
