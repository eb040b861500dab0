----------------------------- MODULE NvfsMgroup -----------------------------
(***************************************************************************)
(* The life of one nvfs_io_mgroup: the shadow buffer a process gets from   *)
(* mmap(/dev/nvidia-fs), the GPU pages nvfs_map() pins behind it, the I/O  *)
(* issued on it, and its teardown from three sides at once: munmap         *)
(* (nvfs_vma_close), the NVIDIA driver revoking the GPU memory             *)
(* (nvfs_get_pages_free_callback) and the completion of an I/O that was in *)
(* flight (nvfs_io_free).  The three agree through gpu_info->io_state,     *)
(* which is only ever changed by single atomic operations, and through     *)
(* nvfs_mgroup->ref.                                                       *)
(*                                                                         *)
(* Every atomic operation of the code is one step, so that all             *)
(* interleavings of the threads are explored.  A process is at a label     *)
(* pc[p]; the subroutines shared by several handlers keep their return     *)
(* label in ret (nvfs_mgroup_put and the free it may run) and cont         *)
(* (nvfs_transit_state).                                                   *)
(***************************************************************************)
EXTENDS Integers, FiniteSets

CONSTANTS
  Thr,          \* threads that issue NVFS_IOCTL_READ / NVFS_IOCTL_WRITE
  Legacy,       \* use_legacy_p2p_allocation: a free callback is registered
  Sync,         \* the values of ioargs->sync that threads may pass
  MapFails,     \* the calls nvfs_map() makes may fail
  IoOverlap,    \* labels another I/O may be at when a thread starts one
  CloseOverlap, \* labels an ioctl may be at when munmap starts
  CbOverlap,    \* labels an ioctl may be at when the free callback starts
  BothTear,     \* munmap and the free callback may run at the same time
  MaxMaps,      \* bound: references nvfs_map() calls may hold at one time
  MaxDma,       \* bound: block-layer mappings outstanding at one time
  MaxChunks     \* bound: shadow-buffer sized pieces of one sync I/O

Sys == {"map", "close", "cb", "irq", "blk"}
Proc == Thr \cup Sys
Executors == Thr \cup {"irq"}   \* where an I/O completes

ASSUME ThrAssumption == Thr \cap Sys = {}
ASSUME FlagAssumption == /\ Legacy \in BOOLEAN
                         /\ MapFails \in BOOLEAN
                         /\ BothTear \in BOOLEAN
                         /\ Sync \subseteq BOOLEAN
ASSUME BoundAssumption == /\ MaxMaps \in Nat \ {0}
                          /\ MaxDma \in Nat
                          /\ MaxChunks \in Nat \ {0}

VARIABLES
  io_state,    \* gpu_info->io_state
  ref,         \* nvfs_mgroup->ref
  dma_ref,     \* nvfs_mgroup->dma_ref
  mapRef,      \* ghost: references taken by nvfs_map() and not yet dropped
  life,        \* "none" before mmap, "live" while in the hash, "dead" after kfree
  page_table,  \* gpu_info->page_table # NULL
  pages,       \* the GPU pages in the NVIDIA driver: "none", "pinned", "released"
  fence,       \* gpu_info->end_fence_page is pinned
  ops,         \* this buffer's share of nvfs_count_ops
  nvfsio_sync, \* nvfs_mgroup->nvfsio.sync
  pc, ret, cont,
  sync,        \* the sync argument or latched copy a process works with
  inop,        \* the process is between nvfs_get_ops and nvfs_put_ops
  left         \* pieces of its I/O a thread has not issued yet

refs == <<ref, mapRef, dma_ref>>
gpu == <<page_table, pages, fence>>
gvars == <<io_state, refs, life, gpu, ops, nvfsio_sync>>
locals == <<sync, inop, left>>
lvars == <<pc, ret, cont, locals>>
vars == <<gvars, lvars>>

-----------------------------------------------------------------------------
(* enum nvfs_io_state; the code compares with ">" only against IO_INIT.    *)
IoState == {"FREE", "INIT", "READY", "IN_PROGRESS", "TERMINATE_REQ",
            "TERMINATED", "CALLBACK_REQ", "CALLBACK_END", "UNPIN"}

AboveInit(s) == s \notin {"FREE", "INIT"}

(* Labels, by the function that is executing.                              *)
MapLabels == {"m_ops", "m_pin", "m_fence", "m_init", "m_pages", "m_check",
              "m_free", "m_unpin", "m_nofence", "m_ready", "m_raced",
              "m_err", "m_ok", "m_failed"}
IoLabels == {"io_pin", "io_lookup", "io_wrong", "io_prog", "io_valid",
             "io_unprog", "io_undo", "io_loop", "io_flight", "io_put",
             "io_ready", "io_fence", "io_end", "io_tail"}
TransitLabels == {"x_claim", "x_put", "x_end", "x_wake", "x_log"}
TermLabels == {"t_free", "t_init", "t_ready", "t_prog", "t_term", "t_last"}
CloseLabels == {"c_check", "c_cbend", "c_read", "c_again", "c_unpin", "c_put"}
CbLabels == {"b_wait", "b_check", "b_spin", "b_free", "b_fence", "b_put"}
FreeLabels == {"f_state", "f_unpin", "f_pages", "f_ops", "f_del"}
Labels == {"idle", "done"} \cup MapLabels \cup IoLabels \cup TransitLabels
          \cup TermLabels \cup CloseLabels \cup CbLabels \cup FreeLabels

Init ==
  /\ io_state = "FREE" /\ ref = 0 /\ dma_ref = 0 /\ mapRef = 0
  /\ life = "none" /\ page_table = FALSE /\ pages = "none"
  /\ fence = FALSE /\ ops = 0 /\ nvfsio_sync = FALSE
  /\ pc = [p \in Proc |-> "idle"]
  /\ ret = [p \in Proc |-> "idle"]
  /\ cont = [p \in Proc |-> "idle"]
  /\ sync = [p \in Proc |-> TRUE]
  /\ inop = [p \in Proc |-> FALSE]
  /\ left = [p \in Proc |-> 0]

-----------------------------------------------------------------------------
(* Control.                                                                *)
At(p, l) == pc[p] = l
Goto(p, l) == pc' = [pc EXCEPT ![p] = l]

(* nvfs_mgroup_put(): whoever drops the last reference frees the mgroup    *)
(* before it goes on at label next.                                        *)
Drop(p, next) ==
  /\ ref' = ref - 1
  /\ IF ref = 1
       THEN Goto(p, "f_state") /\ ret' = [ret EXCEPT ![p] = next]
       ELSE Goto(p, next) /\ UNCHANGED ret

(* Mutant: the reference is forgotten.                                     *)
DropMapNot(p, next) == Goto(p, next) /\ UNCHANGED <<ref, mapRef, ret>>

(* The same for the reference nvfs_map() took, which munmap, the free      *)
(* callback or an I/O that ends may have to drop.                          *)
DropMap(p, next) == mapRef' = mapRef - 1 /\ Drop(p, next)

(* The cmpxchg at the head of nvfs_transit_state(); on failure the rest of *)
(* the function runs from x_claim or x_end and then goes on at label bad.  *)
Transit(p, from, to, good, bad) ==
  IF io_state = from
    THEN io_state' = to /\ Goto(p, good) /\ UNCHANGED cont
    ELSE /\ UNCHANGED io_state
         /\ Goto(p, IF sync[p] THEN "x_claim" ELSE "x_end")
         /\ cont' = [cont EXCEPT ![p] = bad]

(* One atomic_cmpxchg of nvfs_io_terminate_requested().                    *)
CmpXchg(p, from, to, good, bad) ==
  IF io_state = from
    THEN io_state' = to /\ Goto(p, good)
    ELSE UNCHANGED io_state /\ Goto(p, bad)

-----------------------------------------------------------------------------
(* mmap and munmap.                                                        *)

(* nvfs_mgroup_mmap_internal(): the mgroup enters the hash with one        *)
(* reference, owned by the vma.  An mmap that fails drops that reference   *)
(* and frees the mgroup again before it returns, which is no step here.    *)
Mmap ==
  /\ life = "none"
  /\ life' = "live" /\ ref' = 1 /\ io_state' = "FREE"
  /\ UNCHANGED <<lvars, mapRef, dma_ref, gpu, ops, nvfsio_sync>>

(* What user space promises before either buffer is freed: no ioctl is at  *)
(* a label outside overlap and, unless BothTear, the second teardown waits *)
(* for the first one and for the I/O that it met.                          *)
IoQuiet == \A e \in Executors : At(e, "idle")

MayTearDown(other, overlap) ==
  /\ life = "live"
  /\ \A p \in Executors \cup {"map"} :
       pc[p] \in {"idle", "m_ok", "m_failed"} \cup overlap
  /\ \/ BothTear
     \/ At(other, "idle")
     \/ pc[other] \in {"done", "b_spin"} /\ IoQuiet

VmaClose ==
  /\ At("close", "idle") /\ MayTearDown("cb", CloseOverlap)
  /\ Goto("close", "c_check")
  /\ UNCHANGED <<gvars, ret, cont, locals>>

(* Mutant: munmap believes it terminated the buffer in any state.          *)
TerminatedAlways == TRUE

Terminated == io_state = "TERMINATED"

(* The reads of io_state in nvfs_vma_close() ...                           *)
CloseRead ==
  /\ \/ /\ At("close", "c_check")
        /\ Goto("close", IF AboveInit(io_state) THEN "c_cbend" ELSE "c_put")
     \/ /\ At("close", "c_cbend")
        /\ Goto("close", IF io_state = "CALLBACK_END" THEN "c_put" ELSE "t_free")
     \/ /\ At("close", "c_read")
        /\ Goto("close", IF Terminated THEN "c_again" ELSE "c_put")
     \/ /\ At("close", "c_again")
        /\ Goto("close", IF Terminated THEN "c_unpin" ELSE "c_put")
  /\ UNCHANGED <<gvars, ret, cont, locals>>

(* ... nvfs_mgroup_unpin_shadow_pages(), the reference of nvfs_map() ...   *)
CloseUnpin ==
  /\ At("close", "c_unpin")
  /\ DropMap("close", "c_put")
  /\ UNCHANGED <<io_state, dma_ref, life, gpu, ops, nvfsio_sync, cont,
                 locals>>

(* ... and the reference of the vma itself.                                *)
ClosePut ==
  /\ At("close", "c_put")
  /\ Drop("close", "done")
  /\ UNCHANGED <<io_state, mapRef, dma_ref, life, gpu, ops, nvfsio_sync,
                 cont, locals>>

-----------------------------------------------------------------------------
(* nvfs_io_terminate_requested(), called with callback = FALSE by          *)
(* nvfs_vma_close() and with callback = TRUE by the free callback.  Each   *)
(* cmpxchg is a step of its own, so io_state may move between them.        *)
TermState(p) == IF p = "cb" THEN "CALLBACK_END" ELSE "TERMINATED"

TermDone(p) == IF p = "cb" THEN "b_check" ELSE "c_read"

(* Mutant: the state is stored without a look at what is running.          *)
TerminateAtOnce(p) ==
  /\ At(p, "t_free")
  /\ io_state' = TermState(p)
  /\ Goto(p, TermDone(p))
  /\ UNCHANGED <<refs, life, gpu, ops, nvfsio_sync, ret, cont, locals>>

TerminateRequested(p) ==
  /\ \/ /\ At(p, "t_free")
        /\ CmpXchg(p, "FREE", "TERMINATED", TermDone(p), "t_init")
     \/ /\ At(p, "t_init")
        /\ CmpXchg(p, "INIT", TermState(p), TermDone(p), "t_ready")
     \/ /\ At(p, "t_ready")
        /\ CmpXchg(p, "READY", TermState(p), TermDone(p), "t_prog")
     \/ /\ At(p, "t_prog") /\ p = "cb"
        /\ CmpXchg(p, "IN_PROGRESS", "CALLBACK_REQ", "b_wait", "t_term")
     \/ /\ At(p, "t_term")
        /\ CmpXchg(p, "TERMINATE_REQ", "CALLBACK_REQ", "b_wait", "t_last")
     \/ /\ At(p, "t_prog") /\ p = "close"
        /\ CmpXchg(p, "IN_PROGRESS", "TERMINATE_REQ", "c_read", "c_read")
     \/ /\ At(p, "t_last")
        /\ Goto(p, IF io_state \in {"TERMINATE_REQ", "CALLBACK_REQ"}
                      THEN "b_wait" ELSE "b_check")
        /\ UNCHANGED io_state
  /\ UNCHANGED <<refs, life, gpu, ops, nvfsio_sync, ret, cont, locals>>

-----------------------------------------------------------------------------
(* nvfs_get_pages_free_callback(), run by the NVIDIA driver when the GPU   *)
(* memory behind pinned pages goes away.                                   *)
CbStart ==
  /\ Legacy /\ pages = "pinned"
  /\ At("cb", "idle") /\ MayTearDown("close", CbOverlap)
  /\ Goto("cb", "t_free")
  /\ UNCHANGED <<gvars, ret, cont, locals>>

(* nvfs_io_terminate() polls until the I/O has answered; then either the   *)
(* callback owns the pages or somebody else is about to put them.          *)
CbWait ==
  /\ \/ /\ At("cb", "b_wait")
        /\ io_state \in {"CALLBACK_END", "TERMINATED"}
        /\ Goto("cb", "b_check")
     \/ /\ At("cb", "b_check")
        /\ Goto("cb", IF io_state = "CALLBACK_END" THEN "b_free" ELSE "b_spin")
     \/ /\ At("cb", "b_spin")
        /\ io_state = "UNPIN"
        /\ Goto("cb", "done")
  /\ UNCHANGED <<gvars, ret, cont, locals>>

(* Mutant: the callback leaves gpu_info->page_table set.                   *)
TakePageTableNot == UNCHANGED page_table

TakePageTable == page_table' = FALSE

(* The callback frees the DMA mappings and the page table ...              *)
CbFree ==
  /\ At("cb", "b_free")
  /\ TakePageTable
  /\ pages' = IF page_table THEN "released" ELSE pages
  /\ Goto("cb", "b_fence")
  /\ UNCHANGED <<io_state, refs, life, fence, ops, nvfsio_sync, ret, cont,
                 locals>>

(* ... writes NVFS_IO_META_DIED to the end fence page ...                  *)
CbFence ==
  /\ At("cb", "b_fence")
  /\ Goto("cb", "b_put")
  /\ UNCHANGED <<gvars, ret, cont, locals>>

(* ... and drops the reference taken in nvfs_map().                        *)
CbPut ==
  /\ At("cb", "b_put")
  /\ DropMap("cb", "done")
  /\ UNCHANGED <<io_state, dma_ref, life, gpu, ops, nvfsio_sync, cont,
                 locals>>

-----------------------------------------------------------------------------
(* The failure half of nvfs_transit_state(): a sync caller that finds      *)
(* IO_TERMINATE_REQ answers it and drops the reference of nvfs_map() on    *)
(* behalf of the munmap that left; everybody else stores IO_CALLBACK_END.  *)
TransitClaim(p) ==
  /\ At(p, "x_claim")
  /\ CmpXchg(p, "TERMINATE_REQ", "TERMINATED", "x_put", "x_end")
  /\ UNCHANGED <<refs, life, gpu, ops, nvfsio_sync, ret, cont, locals>>

TransitPut(p) ==
  /\ At(p, "x_put")
  /\ DropMap(p, "x_log")
  /\ UNCHANGED <<io_state, dma_ref, life, gpu, ops, nvfsio_sync, cont,
                 locals>>

(* Mutant: the state that the message announces is stored.                 *)
AnswerTerminated == "TERMINATED"

Answer == "CALLBACK_END"

TransitEnd(p) ==
  /\ At(p, "x_end")
  /\ io_state' = Answer
  /\ Goto(p, "x_wake")
  /\ UNCHANGED <<refs, life, gpu, ops, nvfsio_sync, ret, cont, locals>>

(* wake_up_all(&gpu_info->callback_wq), then the message that prints the   *)
(* state once more.                                                        *)
TransitLog(p) ==
  /\ \/ At(p, "x_wake") /\ Goto(p, "x_log")
     \/ At(p, "x_log") /\ Goto(p, cont[p])
  /\ UNCHANGED <<gvars, ret, cont, locals>>

-----------------------------------------------------------------------------
(* nvfs_mgroup_free(), run by whoever dropped the last reference.          *)
FreeState(p) ==
  /\ At(p, "f_state")
  /\ Goto(p, IF AboveInit(io_state) THEN "f_unpin" ELSE "f_del")
  /\ UNCHANGED <<gvars, ret, cont, locals>>

(* Mutant: a spinning callback is not released.                            *)
FreeUnpinSilent(p) ==
  /\ At(p, "f_unpin")
  /\ UNCHANGED io_state
  /\ Goto(p, "f_pages")
  /\ UNCHANGED <<refs, life, gpu, ops, nvfsio_sync, ret, cont, locals>>

(* nvfs_free_gpu_info() releases a spinning callback before it calls       *)
(* nvidia_p2p_put_pages(), which waits for that callback ...               *)
FreeUnpin(p) ==
  /\ At(p, "f_unpin")
  /\ io_state' = "UNPIN"
  /\ Goto(p, "f_pages")
  /\ UNCHANGED <<refs, life, gpu, ops, nvfsio_sync, ret, cont, locals>>

CbRunning == pc["cb"] \notin {"idle", "done"}

(* nvidia_p2p_put_pages(): the page table is given back, unless the driver *)
(* is revoking it; then the call waits for the callback and releases       *)
(* nothing itself.                                                         *)
PutPages ==
  /\ page_table /\ Legacy => ~CbRunning
  /\ pages' = IF page_table THEN "released" ELSE pages

FreePages(p) ==
  /\ At(p, "f_pages")
  /\ PutPages
  /\ Goto(p, "f_ops")
  /\ UNCHANGED <<io_state, refs, life, page_table, fence, ops, nvfsio_sync,
                 ret, cont, locals>>

(* ... unpins the end fence page and gives up the operation count taken    *)
(* by nvfs_map().                                                          *)
FreeOps(p) ==
  /\ At(p, "f_ops")
  /\ fence' = FALSE
  /\ ops' = ops - 1
  /\ Goto(p, "f_del")
  /\ UNCHANGED <<io_state, refs, life, page_table, pages, nvfsio_sync, ret,
                 cont, locals>>

(* hash_del_rcu(), synchronize_rcu(), kfree().                             *)
FreeDel(p) ==
  /\ At(p, "f_del")
  /\ life' = "dead"
  /\ Goto(p, ret[p])
  /\ UNCHANGED <<io_state, refs, gpu, ops, nvfsio_sync, ret, cont, locals>>

-----------------------------------------------------------------------------
(* NVFS_IOCTL_MAP: nvfs_map() and what it calls.                           *)
MapStart ==
  /\ life = "live" /\ At("close", "idle")
  /\ pc["map"] \in {"idle", "m_failed"} /\ mapRef < MaxMaps
  /\ Goto("map", "m_ops")
  /\ UNCHANGED <<gvars, ret, cont, locals>>

MapOps ==
  /\ At("map", "m_ops")
  /\ ops' = ops + 1
  /\ Goto("map", "m_pin")
  /\ UNCHANGED <<io_state, refs, life, gpu, nvfsio_sync, ret, cont, locals>>

(* nvfs_mgroup_pin_shadow_pages() takes the reference of the mapping.      *)
MapPin ==
  /\ At("map", "m_pin")
  /\ \/ /\ life = "live"
        /\ ref' = ref + 1 /\ mapRef' = mapRef + 1
        /\ Goto("map", "m_fence")
     \/ /\ MapFails \/ ~At("close", "idle")
        /\ Goto("map", "m_err")
        /\ UNCHANGED <<ref, mapRef>>
  /\ UNCHANGED <<io_state, dma_ref, life, gpu, ops, nvfsio_sync, ret, cont,
                 locals>>

(* Mutant: the end fence page is mapped but not kept pinned.               *)
MapFenceLoose ==
  /\ At("map", "m_fence")
  /\ Goto("map", "m_init")
  /\ UNCHANGED <<gvars, ret, cont, locals>>

(* nvfs_get_endfence_page().                                               *)
MapFence ==
  /\ At("map", "m_fence")
  /\ \/ fence' = TRUE /\ Goto("map", "m_init")
     \/ MapFails /\ UNCHANGED fence /\ Goto("map", "m_err")
  /\ UNCHANGED <<io_state, refs, life, page_table, pages, ops, nvfsio_sync,
                 ret, cont, locals>>

(* nvfs_pin_gpu_pages(): claim the buffer ...                              *)
MapInit ==
  /\ At("map", "m_init")
  /\ Transit("map", "FREE", "INIT", "m_pages", "m_nofence")
  /\ UNCHANGED <<refs, life, gpu, ops, nvfsio_sync, ret, locals>>

(* ... have the NVIDIA driver pin the GPU pages; an error before or in     *)
(* that call leaves io_state at IO_INIT ...                                *)
MapGetPages ==
  /\ At("map", "m_pages")
  /\ \/ page_table' = TRUE /\ pages' = "pinned" /\ Goto("map", "m_check")
     \/ /\ MapFails
        /\ page_table' = FALSE \/ UNCHANGED page_table
        /\ UNCHANGED pages
        /\ Goto("map", "m_nofence")
  /\ UNCHANGED <<io_state, refs, life, fence, ops, nvfsio_sync, ret, cont,
                 locals>>

(* ... and give them back if the page table is not what is expected.       *)
MapCheck ==
  /\ At("map", "m_check")
  /\ \/ Goto("map", "m_ready")
     \/ MapFails /\ Goto("map", "m_free")
  /\ UNCHANGED <<gvars, ret, cont, locals>>

MapFree ==
  /\ At("map", "m_free")
  /\ Transit("map", "INIT", "FREE", "m_unpin", "m_nofence")
  /\ UNCHANGED <<refs, life, gpu, ops, nvfsio_sync, ret, locals>>

MapUnpin ==
  /\ At("map", "m_unpin")
  /\ PutPages
  /\ Goto("map", "m_nofence")
  /\ UNCHANGED <<io_state, refs, life, page_table, fence, ops, nvfsio_sync,
                 ret, cont, locals>>

(* nvfs_map_gpu_info() unpins the end fence page after a failed pin.       *)
MapNoFence ==
  /\ At("map", "m_nofence")
  /\ fence' = FALSE
  /\ Goto("map", "m_err")
  /\ UNCHANGED <<io_state, refs, life, page_table, pages, ops, nvfsio_sync,
                 ret, cont, locals>>

(* Mutant: nvfs_map() runs into its error exit.                            *)
MapReadyFallsThrough ==
  /\ At("map", "m_ready")
  /\ Transit("map", "INIT", "READY", "m_raced", "m_raced")
  /\ UNCHANGED <<refs, life, gpu, ops, nvfsio_sync, ret, locals>>

(* The last transition of nvfs_map(); when it fails, ret is still 0.       *)
MapReady ==
  /\ At("map", "m_ready")
  /\ Transit("map", "INIT", "READY", "m_ok", "m_raced")
  /\ UNCHANGED <<refs, life, gpu, ops, nvfsio_sync, ret, locals>>

(* The error exit keeps the reference and gives up the operation count.    *)
MapErr ==
  /\ pc["map"] \in {"m_err", "m_raced"}
  /\ ops' = ops - 1
  /\ Goto("map", IF At("map", "m_raced") THEN "m_ok" ELSE "m_failed")
  /\ UNCHANGED <<io_state, refs, life, gpu, nvfsio_sync, ret, cont, locals>>

-----------------------------------------------------------------------------
(* NVFS_IOCTL_READ and NVFS_IOCTL_WRITE.                                   *)
(* A thread enters the ioctl on a buffer nvfs_map() returned 0 for.        *)
IoStart(t) ==
  /\ At(t, "idle") /\ At("map", "m_ok")
  /\ \A e \in Executors \ {t} : pc[e] \in {"idle"} \cup IoOverlap
  /\ \E s \in Sync, n \in 1..MaxChunks :
       /\ s \/ n = 1
       /\ sync' = [sync EXCEPT ![t] = s]
       /\ left' = [left EXCEPT ![t] = n]
  /\ Goto(t, "io_pin")
  /\ UNCHANGED <<gvars, ret, cont, inop>>

(* pin_user_pages_fast() on the shadow buffer: works until munmap.         *)
IoPin(t) ==
  /\ At(t, "io_pin")
  /\ Goto(t, IF At("close", "idle") THEN "io_lookup" ELSE "idle")
  /\ UNCHANGED <<gvars, ret, cont, locals>>

(* nvfs_mgroup_get(): an mgroup that is still in the hash is taken         *)
(* whatever its io_state and reference count are.                          *)
IoLookup(t) ==
  /\ At(t, "io_lookup")
  /\ IF life = "live"
       THEN ref' = ref + 1 /\ \E l \in {"io_prog", "io_wrong"} : Goto(t, l)
       ELSE UNCHANGED ref /\ Goto(t, "idle")
  /\ UNCHANGED <<io_state, mapRef, dma_ref, life, gpu, ops, nvfsio_sync,
                 ret, cont, locals>>

(* The address is not the base of the buffer; or nvfs_io_init() failed and *)
(* has put the state back.                                                 *)
IoUndo(t) ==
  /\ pc[t] \in {"io_wrong", "io_undo"}
  /\ Drop(t, "idle")
  /\ UNCHANGED <<io_state, mapRef, dma_ref, life, gpu, ops, nvfsio_sync,
                 cont, locals>>

(* Mutant: the result of the transition is ignored.                        *)
IoProgUnchecked(t) ==
  /\ At(t, "io_prog")
  /\ Transit(t, "READY", "IN_PROGRESS", "io_valid", "io_valid")
  /\ UNCHANGED <<refs, life, gpu, ops, nvfsio_sync, ret, locals>>

(* nvfs_io_init(): claim the buffer for one I/O ...                        *)
IoProg(t) ==
  /\ At(t, "io_prog")
  /\ Transit(t, "READY", "IN_PROGRESS", "io_valid", "io_unprog")
  /\ UNCHANGED <<refs, life, gpu, ops, nvfsio_sync, ret, locals>>

(* ... fill in nvfsio and check the arguments ...                          *)
IoValid(t) ==
  /\ At(t, "io_valid")
  /\ nvfsio_sync' = sync[t]
  /\ \E l \in {"io_loop", "io_unprog"} : Goto(t, l)
  /\ UNCHANGED <<io_state, refs, life, gpu, ops, ret, cont, locals>>

(* ... or undo the claim, also when it was not obtained.                   *)
IoUnprog(t) ==
  /\ At(t, "io_unprog")
  /\ Transit(t, "IN_PROGRESS", "READY", "io_undo", "io_undo")
  /\ UNCHANGED <<refs, life, gpu, ops, nvfsio_sync, ret, locals>>

(* One turn of the loop of nvfs_io_start_op(): stop if a teardown asked    *)
(* for it or the piece cannot be prepared; otherwise issue the piece,      *)
(* which runs in this thread or, when async, may be queued.                *)
IoLoop(t) ==
  /\ At(t, "io_loop")
  /\ \/ /\ Goto(t, "io_put")
        /\ UNCHANGED <<ops, inop>>
     \/ /\ io_state = "IN_PROGRESS"
        /\ ops' = ops + 1
        /\ \/ /\ Goto(t, "io_flight")
              /\ inop' = [inop EXCEPT ![t] = TRUE]
           \/ /\ ~nvfsio_sync /\ At("irq", "idle")
              /\ pc' = [pc EXCEPT ![t] = "io_tail", !["irq"] = "io_flight"]
              /\ inop' = [inop EXCEPT !["irq"] = TRUE]
  /\ UNCHANGED <<io_state, refs, life, gpu, nvfsio_sync, ret, cont, sync,
                 left>>

(* Mutant: bytes_left does not shrink.                                     *)
AdvanceNot(e) == UNCHANGED left

Advance(e) == left' = [left EXCEPT ![e] = @ - 1]

(* nvfs_io_complete(), called by the thread or from interrupt context when *)
(* the storage stack has finished and unmapped everything it mapped.  A    *)
(* sync I/O goes on with its next piece or ends.                           *)
IoComplete(e) ==
  /\ At(e, "io_flight") /\ dma_ref = 0
  /\ IF nvfsio_sync
       THEN /\ ops' = ops - 1
            /\ inop' = [inop EXCEPT ![e] = FALSE]
            /\ \/ left[e] > 1 /\ Goto(e, "io_loop") /\ Advance(e)
               \/ /\ Goto(e, IF e = "irq" THEN "idle" ELSE "io_put")
                  /\ UNCHANGED left
       ELSE Goto(e, "io_put") /\ UNCHANGED <<ops, inop, left>>
  /\ UNCHANGED <<io_state, refs, life, gpu, nvfsio_sync, ret, cont, sync>>

(* nvfs_io_free(): latch nvfsio->sync, drop the reference of the I/O ...   *)
IoPut(e) ==
  /\ At(e, "io_put")
  /\ sync' = [sync EXCEPT ![e] = nvfsio_sync]
  /\ Drop(e, "io_ready")
  /\ UNCHANGED <<io_state, mapRef, dma_ref, life, gpu, ops, nvfsio_sync,
                 cont, inop, left>>

(* Mutant: atomic_set instead of atomic_cmpxchg.                           *)
IoReadySet(e) ==
  /\ At(e, "io_ready")
  /\ io_state' = "READY"
  /\ Goto(e, IF sync[e] THEN "idle" ELSE "io_fence")
  /\ UNCHANGED cont
  /\ UNCHANGED <<refs, life, gpu, ops, nvfsio_sync, ret, locals>>

(* ... then hand the buffer back ...                                       *)
IoReady(e) ==
  /\ At(e, "io_ready")
  /\ LET next == IF sync[e] THEN "idle" ELSE "io_fence"
     IN Transit(e, "IN_PROGRESS", "READY", next, next)
  /\ UNCHANGED <<refs, life, gpu, ops, nvfsio_sync, ret, locals>>

(* ... and, when async, write the end fence user space polls.              *)
IoFence(e) ==
  /\ At(e, "io_fence")
  /\ Goto(e, IF inop[e] THEN "io_end" ELSE "idle")
  /\ UNCHANGED <<gvars, ret, cont, locals>>

(* nvfs_put_ops() at the end of nvfs_io_complete().                        *)
IoEnd(e) ==
  /\ At(e, "io_end")
  /\ ops' = ops - 1
  /\ inop' = [inop EXCEPT ![e] = FALSE]
  /\ Goto(e, IF e = "irq" THEN "idle" ELSE "io_tail")
  /\ UNCHANGED <<io_state, refs, life, gpu, nvfsio_sync, ret, cont, sync,
                 left>>

(* What nvfs_io_start_op() still does with nvfsio after an async I/O was   *)
(* issued: it tests nvfsio->sync, and frees the I/O if that is set.        *)
IoTail(t) ==
  /\ At(t, "io_tail")
  /\ Goto(t, IF nvfsio_sync THEN "io_put" ELSE "idle")
  /\ UNCHANGED <<gvars, ret, cont, locals>>

-----------------------------------------------------------------------------
(* The storage driver maps GPU pages for DMA and unmaps them: nvfs_get_dma *)
(* takes a reference that nvfs_check_gpu_page_and_error drops.             *)
DmaMap ==
  /\ At("blk", "idle") /\ \E e \in Executors : At(e, "io_flight")
  /\ life = "live" /\ dma_ref < MaxDma
  /\ ref' = ref + 1 /\ dma_ref' = dma_ref + 1
  /\ UNCHANGED <<lvars, io_state, mapRef, life, gpu, ops, nvfsio_sync>>

DmaUnmap ==
  /\ At("blk", "idle") /\ dma_ref > 0
  /\ dma_ref' = dma_ref - 1
  /\ Drop("blk", "idle")
  /\ UNCHANGED <<io_state, mapRef, life, gpu, ops, nvfsio_sync, cont,
                 locals>>

-----------------------------------------------------------------------------
MapNext == MapOps \/ MapPin \/ MapFence \/ MapInit \/ MapGetPages \/ MapCheck
           \/ MapFree \/ MapUnpin \/ MapNoFence \/ MapReady \/ MapErr

IoNext(t) == IoPin(t) \/ IoLookup(t) \/ IoUndo(t) \/ IoProg(t) \/ IoValid(t)
             \/ IoUnprog(t) \/ IoLoop(t) \/ IoTail(t)

CompleteNext(e) == IoPut(e) \/ IoReady(e) \/ IoFence(e) \/ IoEnd(e)

CloseNext == CloseRead \/ CloseUnpin \/ ClosePut \/ TerminateRequested("close")

CbNext == CbWait \/ CbFree \/ CbFence \/ CbPut \/ TerminateRequested("cb")

TransitNext(p) == TransitClaim(p) \/ TransitPut(p) \/ TransitEnd(p)
                  \/ TransitLog(p)

FreeNext(p) == FreeState(p) \/ FreeUnpin(p) \/ FreePages(p) \/ FreeOps(p)
               \/ FreeDel(p)

(* What user space and the devices may do, and need not.                   *)
EnvNext == \/ Mmap \/ MapStart \/ VmaClose \/ CbStart \/ DmaMap
           \/ \E t \in Thr : IoStart(t)

(* The next step of the code process p is executing.                       *)
Step(p) == \/ p = "map" /\ MapNext
           \/ p = "close" /\ CloseNext
           \/ p = "cb" /\ CbNext
           \/ p = "blk" /\ DmaUnmap
           \/ p \in Thr /\ IoNext(p)
           \/ p \in Executors /\ (IoComplete(p) \/ CompleteNext(p))
           \/ p \in Executors \cup {"map"} /\ TransitNext(p)
           \/ FreeNext(p)

(* The buffer is unmapped and every thread has returned.                   *)
Stopped == /\ \A p \in Proc : pc[p] \in {"idle", "done", "m_ok", "m_failed"}
           /\ At("close", "done")
           /\ UNCHANGED vars

Next == EnvNext \/ (\E p \in Proc : Step(p)) \/ Stopped

Spec == Init /\ [][Next]_vars

(* Kernel threads and interrupts that have something to do get to do it.   *)
(* The storage stack completes a request even though it may map and unmap  *)
(* pages again and again before that, hence strong fairness.               *)
Fairness == /\ \A p \in Proc : WF_vars(Step(p))
            /\ \A e \in Executors : SF_vars(IoComplete(e))

FairSpec == Spec /\ Fairness

-----------------------------------------------------------------------------
(* Every variable has the type of the field it stands for; in particular   *)
(* dma_ref never goes below zero (atomic_dec_if_positive).                 *)
TypeOK ==
  /\ io_state \in IoState
  /\ ref \in Int /\ dma_ref \in Nat /\ mapRef \in Int /\ ops \in Int
  /\ life \in {"none", "live", "dead"}
  /\ pages \in {"none", "pinned", "released"}
  /\ page_table \in BOOLEAN /\ fence \in BOOLEAN /\ nvfsio_sync \in BOOLEAN
  /\ pc \in [Proc -> Labels]
  /\ ret \in [Proc -> Labels]
  /\ cont \in [Proc -> Labels]
  /\ sync \in [Proc -> BOOLEAN]
  /\ inop \in [Proc -> BOOLEAN]
  /\ left \in [Proc -> Nat]

(* The labels at which a process is about to touch the mgroup.             *)
Uses == Labels \ {"idle", "done", "m_ops", "m_pin", "m_err", "m_raced",
                  "m_ok", "m_failed", "io_pin", "io_lookup", "io_end"}

(* No thread, callback, interrupt or munmap touches the mgroup after       *)
(* nvfs_mgroup_free() has run kfree() on it, not even for the message at   *)
(* the end of nvfs_transit_state().                                        *)
NoUseAfterFree == life = "dead" => \A p \in Proc : pc[p] \notin Uses

(* p holds the reference its nvfs_mgroup_get() took.                       *)
Undoing(l) == l \in {"io_unprog", "io_undo"}

HoldsIo(p) ==
  \/ pc[p] \in {"io_wrong", "io_prog", "io_valid", "io_unprog", "io_undo",
                "io_loop", "io_flight", "io_put"}
  \/ pc[p] \in TransitLabels /\ Undoing(cont[p])
  \/ pc[p] \in FreeLabels /\ ret[p] = "x_log" /\ Undoing(cont[p])

HoldsVma == /\ life # "none"
            /\ ~At("close", "done")
            /\ ~(pc["close"] \in FreeLabels /\ ret["close"] = "done")

(* nvfs_mgroup->ref is exactly the number of its owners: the vma, the      *)
(* calls of nvfs_map(), the block-layer mappings and the running I/Os.     *)
(* munmap, callback and I/O never drop one owner's reference twice.        *)
RefCounted ==
  /\ mapRef >= 0
  /\ ref = (IF HoldsVma THEN 1 ELSE 0) + mapRef + dma_ref
           + Cardinality({e \in Executors : HoldsIo(e)})

(* While the storage stack may still transfer to or from the GPU memory,   *)
(* the pages are pinned: neither munmap nor the free callback releases     *)
(* them under an I/O.                                                      *)
PagesOutliveDma ==
  (dma_ref > 0 \/ \E e \in Executors : At(e, "io_flight")) => pages = "pinned"

(* A page table that is handed to nvidia_p2p_free_page_table() or to       *)
(* nvidia_p2p_put_pages() has not been handed back before.                 *)
ReleasedOnce ==
  page_table /\ (At("cb", "b_free") \/ At("map", "m_unpin")
                 \/ \E p \in Proc : At(p, "f_pages"))
     => pages = "pinned"

(* The end fence page is pinned whenever the callback or nvfs_io_free()    *)
(* writes to it.                                                           *)
FencePinned == At("cb", "b_fence") \/ (\E e \in Executors : At(e, "io_fence"))
                  => fence

(* nvfs_count_ops() is not zero while GPU pages are pinned or a request is *)
(* in the storage stack, so the DMA operations stay registered with it.    *)
OpsCoverWork == pages = "pinned" \/ (\E e \in Executors : inop[e]) => ops > 0

(* Once munmap or the callback has asked for the end of the buffer, no     *)
(* step hands it back to I/O: IO_READY and IO_IN_PROGRESS do not return.   *)
Torn == {"TERMINATE_REQ", "TERMINATED", "CALLBACK_REQ", "CALLBACK_END", "UNPIN"}

NoIoAfterTeardown == [][(io_state \in Torn) => (io_state' \in Torn)]_vars

(* A call of nvfs_map() that failed has kept the reference it took.        *)
Leaked == At("map", "m_failed") /\ mapRef > 0

(* A buffer that was unmapped is freed in the end, whoever has to do it,   *)
(* unless nvfs_map() has leaked a reference.                               *)
Reclaimed == []~Leaked => (At("close", "done") ~> life = "dead")

(* A free callback returns, also when it has to spin until somebody else   *)
(* has put the pages, once munmap has begun; it waits for a leaked         *)
(* reference for ever.                                                     *)
CbReturns ==
  []~Leaked => (pc["cb"] # "idle" /\ pc["close"] # "idle" ~> At("cb", "done"))

(* A callback that waits for an I/O is answered by that I/O alone: munmap  *)
(* is not needed for it to return.                                         *)
CbAnswered == At("cb", "b_wait") ~> At("cb", "done")

(* Every read or write ioctl returns, whatever tears the buffer down.      *)
IoReturns == \A t \in Thr : At(t, "io_pin") ~> At(t, "idle")
=============================================================================
