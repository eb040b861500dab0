-------------------------- MODULE NvfsMgroupBasics --------------------------
(***************************************************************************)
(* What holds of NvfsMgroup for every number of threads, every bound and   *)
(* every use of the buffer that the constants allow: the types, and that a *)
(* teardown is final.                                                      *)
(***************************************************************************)
EXTENDS NvfsMgroupInv, TLAPS

(* Every label an action goes to is a label.                               *)
LEMMA LabelsAreLabels ==
  /\ {"idle", "done"} \subseteq Labels
  /\ MapLabels \subseteq Labels /\ IoLabels \subseteq Labels
  /\ TransitLabels \subseteq Labels /\ TermLabels \subseteq Labels
  /\ CloseLabels \subseteq Labels /\ CbLabels \subseteq Labels
  /\ FreeLabels \subseteq Labels
BY DEF Labels

(* A jump keeps pc a function from processes to labels.                    *)
LEMMA GotoType ==
  ASSUME pc \in [Proc -> Labels], NEW p, NEW l \in Labels, Goto(p, l)
  PROVE  pc' \in [Proc -> Labels]
BY Zenon DEF Goto

(* So does dropping a reference, whether or not it runs the free path.     *)
LEMMA DropType ==
  ASSUME TypeOK, NEW p, NEW l \in Labels, Drop(p, l)
  PROVE  pc' \in [Proc -> Labels] /\ ret' \in [Proc -> Labels] /\ ref' \in Int
<1>1. "f_state" \in Labels
  BY LabelsAreLabels DEF FreeLabels
<1> QED
  BY <1>1, GotoType DEF Drop, TypeOK, Goto

(* Setting one flag keeps a function to BOOLEAN one.                       *)
LEMMA FlagUpdate ==
  ASSUME NEW S, NEW f \in [S -> BOOLEAN], NEW x, NEW b \in BOOLEAN
  PROVE  [f EXCEPT ![x] = b] \in [S -> BOOLEAN]
BY Zenon

(* nvfs_transit_state() moves io_state to one of its values or leaves it.  *)
LEMMA TransitType ==
  ASSUME TypeOK, NEW p, NEW from, NEW to \in IoState, NEW good \in Labels,
         NEW bad \in Labels, Transit(p, from, to, good, bad)
  PROVE  /\ pc' \in [Proc -> Labels] /\ cont' \in [Proc -> Labels]
         /\ io_state' \in IoState
<1>1. "x_claim" \in Labels /\ "x_end" \in Labels
  BY LabelsAreLabels DEF TransitLabels
<1> QED
  BY <1>1, GotoType DEF Transit, TypeOK, Goto

(* An atomic_cmpxchg() on io_state stores one of its values.               *)
LEMMA CmpXchgType ==
  ASSUME TypeOK, NEW p, NEW from, NEW to \in IoState, NEW good \in Labels,
         NEW bad \in Labels, CmpXchg(p, from, to, good, bad)
  PROVE  pc' \in [Proc -> Labels] /\ io_state' \in IoState
BY GotoType DEF CmpXchg, TypeOK, Goto

-----------------------------------------------------------------------------
(* Type correctness, one lemma per party.                                  *)

(* mmap, and the start of each handler, keep the types.                    *)
LEMMA EnvType ==
  ASSUME TypeOK, EnvNext
  PROVE  TypeOK'
<1>1. CASE Mmap
  BY <1>1 DEF Mmap, TypeOK, IoState, lvars, locals, gpu
<1>2. CASE MapStart \/ VmaClose \/ CbStart
  <2>1. "m_ops" \in Labels /\ "c_check" \in Labels /\ "t_free" \in Labels
    BY LabelsAreLabels DEF MapLabels, CloseLabels, TermLabels
  <2> QED
    BY <1>2, <2>1, GotoType
       DEF MapStart, VmaClose, CbStart, TypeOK, gvars, refs, gpu, locals
<1>3. CASE DmaMap
  BY <1>3 DEF DmaMap, TypeOK, lvars, locals, gpu
<1>4. ASSUME NEW t \in Thr, IoStart(t) PROVE TypeOK'
  <2>1. "io_pin" \in Labels
    BY LabelsAreLabels DEF IoLabels
  <2>2. sync' \in [Proc -> BOOLEAN] /\ left' \in [Proc -> Nat]
    <3>1. PICK s \in Sync, n \in 1..MaxChunks :
            /\ sync' = [sync EXCEPT ![t] = s]
            /\ left' = [left EXCEPT ![t] = n]
      BY <1>4, Zenon DEF IoStart
    <3>2. s \in BOOLEAN /\ n \in Nat
      BY FlagAssumption, BoundAssumption
    <3>3. sync' \in [Proc -> BOOLEAN]
      BY <3>1, <3>2, FlagUpdate DEF TypeOK
    <3>4. left' \in [Proc -> Nat]
      BY <3>1, <3>2, Zenon DEF TypeOK
    <3> QED
      BY <3>3, <3>4
  <2> QED
    BY <1>4, <2>1, <2>2, GotoType DEF IoStart, TypeOK, gvars, refs, gpu
<1> QED
  BY <1>1, <1>2, <1>3, <1>4 DEF EnvNext

(* The steps of nvfs_map() keep the types.                                 *)
LEMMA MapType ==
  ASSUME TypeOK, MapNext
  PROVE  TypeOK'
<1>1. CASE MapOps
  BY <1>1, LabelsAreLabels, GotoType
     DEF MapOps, TypeOK, MapLabels, refs, gpu, locals
<1>2. CASE MapPin
  BY <1>2, LabelsAreLabels, GotoType
     DEF MapPin, TypeOK, MapLabels, gpu, locals
<1>3. CASE MapFence
  BY <1>3, LabelsAreLabels, GotoType, Zenon
     DEF MapFence, TypeOK, MapLabels, refs, locals
<1>4. CASE MapInit
  BY <1>4, LabelsAreLabels, TransitType, Zenon
     DEF MapInit, TypeOK, MapLabels, IoState, refs, gpu, locals
<1>5. CASE MapGetPages
  BY <1>5, LabelsAreLabels, GotoType, Zenon
     DEF MapGetPages, TypeOK, MapLabels, refs, locals
<1>6. CASE MapCheck
  BY <1>6, LabelsAreLabels, GotoType
     DEF MapCheck, TypeOK, MapLabels, gvars, refs, gpu, locals
<1>7. CASE MapFree
  BY <1>7, LabelsAreLabels, TransitType, Zenon
     DEF MapFree, TypeOK, MapLabels, IoState, refs, gpu, locals
<1>8. CASE MapUnpin
  BY <1>8, LabelsAreLabels, GotoType
     DEF MapUnpin, TypeOK, MapLabels, refs, locals, PutPages
<1>9. CASE MapNoFence
  BY <1>9, LabelsAreLabels, GotoType, Zenon
     DEF MapNoFence, TypeOK, MapLabels, refs, locals
<1>10. CASE MapReady
  BY <1>10, LabelsAreLabels, TransitType, Zenon
     DEF MapReady, TypeOK, MapLabels, IoState, refs, gpu, locals
<1>11. CASE MapErr
  BY <1>11, LabelsAreLabels, GotoType
     DEF MapErr, TypeOK, MapLabels, refs, gpu, locals
<1> QED
  BY <1>1, <1>2, <1>3, <1>4, <1>5, <1>6, <1>7, <1>8, <1>9, <1>10,
     <1>11 DEF MapNext

(* So do those of nvfs_io_init() and of the loop of nvfs_io_start_op().    *)
LEMMA IoType ==
  ASSUME TypeOK, NEW t \in Thr, IoNext(t)
  PROVE  TypeOK'
<1>1. CASE IoPin(t)
  BY <1>1, LabelsAreLabels, GotoType
     DEF IoPin, TypeOK, IoLabels, gvars, refs, gpu, locals
<1>2. CASE IoLookup(t)
  BY <1>2, LabelsAreLabels, GotoType
     DEF IoLookup, TypeOK, IoLabels, gpu, locals
<1>3. CASE IoUndo(t)
  BY <1>3, LabelsAreLabels, DropType
     DEF IoUndo, TypeOK, gpu, locals
<1>4. CASE IoProg(t)
  BY <1>4, LabelsAreLabels, TransitType, Zenon
     DEF IoProg, TypeOK, IoLabels, IoState, refs, gpu, locals
<1>5. CASE IoValid(t)
  BY <1>5, LabelsAreLabels, GotoType
     DEF IoValid, TypeOK, IoLabels, Proc, refs, gpu, locals
<1>6. CASE IoUnprog(t)
  BY <1>6, LabelsAreLabels, TransitType, Zenon
     DEF IoUnprog, TypeOK, IoLabels, IoState, refs, gpu, locals
<1>7. CASE IoLoop(t)
  <2>1. inop' \in [Proc -> BOOLEAN]
    BY <1>7, FlagUpdate, Zenon DEF IoLoop, TypeOK
  <2>2. ops' \in Int
    BY <1>7 DEF IoLoop, TypeOK
  <2>3. pc' \in [Proc -> Labels]
    BY <1>7, LabelsAreLabels, GotoType DEF IoLoop, TypeOK, IoLabels
  <2> QED
    BY <1>7, <2>1, <2>2, <2>3 DEF IoLoop, TypeOK, refs, gpu
<1>8. CASE IoTail(t)
  BY <1>8, LabelsAreLabels, GotoType
     DEF IoTail, TypeOK, IoLabels, gvars, refs, gpu, locals
<1> QED
  BY <1>1, <1>2, <1>3, <1>4, <1>5, <1>6, <1>7, <1>8 DEF IoNext

(* So do the completion, nvfs_io_free() and the mapping for DMA: dma_ref   *)
(* is only decremented where it is positive.                               *)
LEMMA CompleteType ==
  ASSUME TypeOK, NEW e \in Executors, IoComplete(e) \/ CompleteNext(e)
  PROVE  TypeOK'
<1>1. CASE IoComplete(e)
  <2>1. inop' \in [Proc -> BOOLEAN]
    BY <1>1, FlagUpdate, Zenon DEF IoComplete, TypeOK
  <2>2. ops' \in Int
    BY <1>1 DEF IoComplete, TypeOK
  <2>3. left' \in [Proc -> Nat]
    BY <1>1 DEF IoComplete, TypeOK, Advance, Proc, Executors
  <2>4. pc' \in [Proc -> Labels]
    BY <1>1, LabelsAreLabels, GotoType DEF IoComplete, TypeOK, IoLabels
  <2> QED
    BY <1>1, <2>1, <2>2, <2>3, <2>4 DEF IoComplete, TypeOK, refs, gpu
<1>2. CASE IoPut(e)
  BY <1>2, LabelsAreLabels, DropType, Zenon
     DEF IoPut, TypeOK, IoLabels, gpu
<1>3. CASE IoReady(e)
  BY <1>3, LabelsAreLabels, TransitType, Zenon
     DEF IoReady, TypeOK, IoLabels, IoState, refs, gpu, locals
<1>4. CASE IoFence(e)
  BY <1>4, LabelsAreLabels, GotoType
     DEF IoFence, TypeOK, IoLabels, gvars, refs, gpu, locals
<1>5. CASE IoEnd(e)
  <2>1. inop' \in [Proc -> BOOLEAN]
    BY <1>5, FlagUpdate DEF IoEnd, TypeOK
  <2>2. ops' \in Int /\ pc' \in [Proc -> Labels]
    BY <1>5, LabelsAreLabels, GotoType DEF IoEnd, TypeOK, IoLabels
  <2> QED
    BY <1>5, <2>1, <2>2 DEF IoEnd, TypeOK, refs, gpu
<1> QED
  BY <1>1, <1>2, <1>3, <1>4, <1>5 DEF CompleteNext

(* So does nvfs_io_terminate_requested(), for either caller.               *)
LEMMA TerminateType ==
  ASSUME TypeOK, NEW p, TerminateRequested(p)
  PROVE  TypeOK'
<1>1. {"t_free", "t_init", "t_ready", "t_prog", "t_term", "t_last", "b_wait",
       "b_check", "c_read"} \subseteq Labels
  BY LabelsAreLabels DEF TermLabels, CloseLabels, CbLabels
<1>2. TermState(p) \in IoState /\ TermDone(p) \in Labels
  BY <1>1 DEF TermState, TermDone, IoState
<1>3. {"TERMINATED", "CALLBACK_REQ", "TERMINATE_REQ"} \subseteq IoState
  BY DEF IoState
<1>4. pc' \in [Proc -> Labels] /\ io_state' \in IoState
  BY <1>1, <1>2, <1>3, CmpXchgType, GotoType, Zenon
     DEF TerminateRequested, TypeOK
<1> QED
  BY <1>4 DEF TerminateRequested, TypeOK, refs, gpu, locals

(* So do nvfs_vma_close() and the free callback.                           *)
LEMMA TearType ==
  ASSUME TypeOK, CloseNext \/ CbNext \/ DmaUnmap
  PROVE  TypeOK'
<1>1. CASE CloseRead
  BY <1>1, LabelsAreLabels, GotoType
     DEF CloseRead, TypeOK, CloseLabels, TermLabels, gvars, refs, gpu, locals
<1>2. CASE CloseUnpin
  BY <1>2, LabelsAreLabels, DropType
     DEF CloseUnpin, TypeOK, CloseLabels, DropMap, gpu, locals
<1>3. CASE ClosePut
  BY <1>3, LabelsAreLabels, DropType
     DEF ClosePut, TypeOK, gpu, locals
<1>4. CASE TerminateRequested("close")
  BY <1>4, TerminateType
<1>5. CASE TerminateRequested("cb")
  BY <1>5, TerminateType
<1>6. CASE CbWait
  BY <1>6, LabelsAreLabels, GotoType
     DEF CbWait, TypeOK, CbLabels, gvars, refs, gpu, locals
<1>7. CASE CbFree
  BY <1>7, LabelsAreLabels, GotoType, Zenon
     DEF CbFree, TypeOK, CbLabels, TakePageTable, refs, locals
<1>8. CASE CbFence
  BY <1>8, LabelsAreLabels, GotoType
     DEF CbFence, TypeOK, CbLabels, gvars, refs, gpu, locals
<1>9. CASE CbPut
  BY <1>9, LabelsAreLabels, DropType
     DEF CbPut, TypeOK, DropMap, gpu, locals
<1>10. CASE DmaUnmap
  BY <1>10, LabelsAreLabels, DropType
     DEF DmaUnmap, TypeOK, gpu, locals
<1> QED
  BY <1>1, <1>2, <1>3, <1>4, <1>5, <1>6, <1>7, <1>8, <1>9, <1>10
     DEF CloseNext, CbNext

(* So do nvfs_transit_state() and nvfs_mgroup_free(), whoever runs them.   *)
LEMMA SubType ==
  ASSUME TypeOK, NEW p \in Proc, TransitNext(p) \/ FreeNext(p)
  PROVE  TypeOK'
<1>1. CASE TransitClaim(p)
  BY <1>1, LabelsAreLabels, CmpXchgType
     DEF TransitClaim, TypeOK, TransitLabels, IoState, refs, gpu, locals
<1>2. CASE TransitPut(p)
  BY <1>2, LabelsAreLabels, DropType
     DEF TransitPut, TypeOK, TransitLabels, DropMap, gpu, locals
<1>3. CASE TransitEnd(p)
  BY <1>3, LabelsAreLabels, GotoType
     DEF TransitEnd, TypeOK, TransitLabels, IoState, Answer, refs, gpu, locals
<1>4. CASE TransitLog(p)
  BY <1>4, LabelsAreLabels, GotoType
     DEF TransitLog, TypeOK, TransitLabels, gvars, refs, gpu, locals
<1>5. CASE FreeState(p)
  BY <1>5, LabelsAreLabels, GotoType
     DEF FreeState, TypeOK, FreeLabels, gvars, refs, gpu, locals
<1>6. CASE FreeUnpin(p)
  BY <1>6, LabelsAreLabels, GotoType
     DEF FreeUnpin, TypeOK, FreeLabels, IoState, refs, gpu, locals
<1>7. CASE FreePages(p)
  BY <1>7, LabelsAreLabels, GotoType
     DEF FreePages, TypeOK, FreeLabels, PutPages, refs, locals
<1>8. CASE FreeOps(p)
  <2>1. ops' \in Int /\ pc' \in [Proc -> Labels]
    BY <1>8, LabelsAreLabels, GotoType DEF FreeOps, TypeOK, FreeLabels
  <2> QED
    BY <1>8, <2>1, Zenon DEF FreeOps, TypeOK, refs, locals
<1>9. CASE FreeDel(p)
  BY <1>9, LabelsAreLabels, GotoType
     DEF FreeDel, TypeOK, refs, gpu, locals
<1> QED
  BY <1>1, <1>2, <1>3, <1>4, <1>5, <1>6, <1>7, <1>8, <1>9
     DEF TransitNext, FreeNext

(* Before mmap() everything has its type.                                  *)
LEMMA InitType ==
  ASSUME Init
  PROVE  TypeOK
<1>1. sync \in [Proc -> BOOLEAN] /\ inop \in [Proc -> BOOLEAN]
  BY Zenon DEF Init
<1>2. left \in [Proc -> Nat]
  BY DEF Init
<1>3. "idle" \in Labels
  BY LabelsAreLabels
<1>4. /\ pc \in [Proc -> Labels] /\ ret \in [Proc -> Labels]
       /\ cont \in [Proc -> Labels]
  BY <1>3 DEF Init
<1>5. /\ io_state \in IoState /\ life \in {"none", "live", "dead"}
      /\ pages \in {"none", "pinned", "released"}
      /\ ref \in Int /\ dma_ref \in Nat /\ mapRef \in Int /\ ops \in Int
  BY DEF Init, IoState
<1>6. page_table \in BOOLEAN /\ fence \in BOOLEAN /\ nvfsio_sync \in BOOLEAN
  BY Zenon DEF Init
<1> QED
  BY <1>1, <1>2, <1>4, <1>5, <1>6 DEF TypeOK

(* Every step keeps the types.                                             *)
LEMMA NextType ==
  ASSUME TypeOK, [Next]_vars
  PROVE  TypeOK'
<1>1. CASE EnvNext
  BY <1>1, EnvType
<1>2. ASSUME NEW p \in Proc, Step(p) PROVE TypeOK'
  BY <1>2, MapType, IoType, CompleteType, TearType, SubType DEF Step
<1>3. CASE UNCHANGED vars
  BY <1>3 DEF vars, gvars, refs, gpu, lvars, locals, TypeOK
<1> QED
  BY <1>1, <1>2, <1>3 DEF Next, Stopped

(* Every reachable state is well typed: the counters are integers, dma_ref *)
(* never drops below zero, and every process is at a label of the code.    *)
THEOREM TypeCorrect == Spec => []TypeOK
BY InitType, NextType, PTL DEF Spec

-----------------------------------------------------------------------------
(* What the parties leave alone.                                           *)

(* The fixed processes are different from each other and from the threads. *)
LEMMA Names ==
  /\ Thr \subseteq Executors /\ Executors \subseteq Proc
  /\ {"map", "close", "cb", "irq", "blk"} \subseteq Proc
  /\ "irq" \in Executors /\ Executors = Thr \cup {"irq"}
  /\ "map" \notin Executors /\ "close" \notin Executors
  /\ "cb" \notin Executors /\ "blk" \notin Executors /\ "irq" \notin Thr
BY ThrAssumption DEF Executors, Proc, Sys

(* The steps of nvfs_map() move nvfs_map() only, and only before it has    *)
(* returned.                                                               *)
LEMMA MapFrame ==
  ASSUME TypeOK, MapNext
  PROVE  /\ \A q \in Proc \ {"map"} : pc'[q] = pc[q] /\ cont'[q] = cont[q]
         /\ UNCHANGED <<life, dma_ref, nvfsio_sync, ret, locals>>
         /\ pc["map"] \notin {"idle", "m_ok"} \cup FreeLabels
         /\ pc'["map"] \notin FreeLabels
         /\ pc'["map"] \in TransitLabels
              => cont'["map"] \in {"m_nofence", "m_raced"}
<1> USE DEF TypeOK, Goto, At, gvars, refs, gpu, locals
<1>1. \A q \in Proc \ {"map"} : pc'[q] = pc[q] /\ cont'[q] = cont[q]
  BY DEF MapNext, MapOps, MapPin, MapFence, MapInit, MapGetPages, MapCheck,
     MapFree, MapUnpin, MapNoFence, MapReady, MapErr, Transit
<1>2. UNCHANGED <<life, dma_ref, nvfsio_sync, ret, locals>>
  BY DEF MapNext, MapOps, MapPin, MapFence, MapInit, MapGetPages, MapCheck,
     MapFree, MapUnpin, MapNoFence, MapReady, MapErr
<1>3. pc["map"] \notin {"idle", "m_ok"} \cup FreeLabels
  BY DEF MapNext, MapOps, MapPin, MapFence, MapInit, MapGetPages, MapCheck,
     MapFree, MapUnpin, MapNoFence, MapReady, MapErr, FreeLabels
<1>4. /\ pc'["map"] \notin FreeLabels
      /\ pc'["map"] \in TransitLabels
           => cont'["map"] \in {"m_nofence", "m_raced"}
  BY Names DEF MapNext, MapOps, MapPin, MapFence, MapInit, MapGetPages,
     MapCheck, MapFree, MapUnpin, MapNoFence, MapReady, MapErr, Transit,
     FreeLabels, TransitLabels
<1> QED
  BY <1>1, <1>2, <1>3, <1>4

(* The steps of nvfs_vma_close() move nvfs_vma_close() only.               *)
LEMMA CloseFrame ==
  ASSUME TypeOK, CloseNext
  PROVE  /\ \A q \in Proc \ {"close"} : pc'[q] = pc[q] /\ ret'[q] = ret[q]
         /\ UNCHANGED <<life, dma_ref, nvfsio_sync, pages, cont, locals>>
         /\ pc["close"] \notin {"idle"} \cup FreeLabels
         /\ pc'["close"] # "idle"
         /\ pc'["close"] \in FreeLabels => ret'["close"] \in {"c_put", "done"}
<1> USE DEF TypeOK, Goto, At, gvars, refs, gpu, locals
<1>1. /\ \A q \in Proc \ {"close"} : pc'[q] = pc[q] /\ ret'[q] = ret[q]
      /\ UNCHANGED <<life, dma_ref, nvfsio_sync, pages, cont, locals>>
  BY DEF CloseNext, CloseRead, CloseUnpin, ClosePut, TerminateRequested,
     DropMap, Drop, CmpXchg
<1>2. pc["close"] \notin {"idle"} \cup FreeLabels
  BY DEF CloseNext, CloseRead, CloseUnpin, ClosePut, TerminateRequested,
     FreeLabels
<1>3. /\ pc'["close"] # "idle"
      /\ pc'["close"] \in FreeLabels => ret'["close"] \in {"c_put", "done"}
  BY Names DEF CloseNext, CloseRead, CloseUnpin, ClosePut,
     TerminateRequested, DropMap, Drop, CmpXchg, TermDone, FreeLabels
<1> QED
  BY <1>1, <1>2, <1>3

(* The steps of the free callback move the free callback only.             *)
LEMMA CbFrame ==
  ASSUME TypeOK, CbNext
  PROVE  /\ \A q \in Proc \ {"cb"} : pc'[q] = pc[q] /\ ret'[q] = ret[q]
         /\ UNCHANGED <<life, dma_ref, nvfsio_sync, cont, locals>>
         /\ pc["cb"] \notin {"idle"} \cup FreeLabels
         /\ pc'["cb"] \in FreeLabels => ret'["cb"] = "done"
<1> USE DEF TypeOK, Goto, At, gvars, refs, gpu, locals
<1>1. /\ \A q \in Proc \ {"cb"} : pc'[q] = pc[q] /\ ret'[q] = ret[q]
      /\ UNCHANGED <<life, dma_ref, nvfsio_sync, cont, locals>>
  BY DEF CbNext, CbWait, CbFree, CbFence, CbPut, TerminateRequested, DropMap,
     Drop, CmpXchg
<1>2. pc["cb"] \notin {"idle"} \cup FreeLabels
  BY DEF CbNext, CbWait, CbFree, CbFence, CbPut, TerminateRequested,
     FreeLabels
<1>3. pc'["cb"] \in FreeLabels => ret'["cb"] = "done"
  BY Names DEF CbNext, CbWait, CbFree, CbFence, CbPut, TerminateRequested,
     DropMap, Drop, CmpXchg, TermDone, FreeLabels
<1> QED
  BY <1>1, <1>2, <1>3

(* nvfs_map(), munmap and the callback start on a buffer that exists, and  *)
(* touch nothing when they do.                                             *)
LEMMA StartFrame ==
  ASSUME TypeOK, MapStart \/ VmaClose \/ CbStart
  PROVE  /\ UNCHANGED <<gvars, ret, cont, locals>> /\ life = "live"
         /\ \A q \in Proc : \/ pc'[q] = pc[q]
                            \/ /\ q \in {"map", "close", "cb"}
                               /\ pc[q] \in {"idle", "m_failed"}
                               /\ pc'[q] \in {"m_ops", "c_check", "t_free"}
BY DEF TypeOK, MapStart, VmaClose, CbStart, MayTearDown, Goto, At

-----------------------------------------------------------------------------
(* A buffer that does not exist, and one that is torn down.                *)

(* Nothing but mmap happens to a buffer that does not exist.               *)
LEMMA UnbornStep ==
  ASSUME TypeOK, Unborn, [Next]_vars
  PROVE  Unborn'
<1>0. pc \in [Proc -> Labels]
  BY DEF TypeOK
<1> USE Names, <1>0 DEF At, Goto, Unborn, gvars, refs, gpu, locals
<1>1. CASE Mmap
  BY <1>1 DEF Mmap, lvars
<1>2. CASE MapStart \/ VmaClose \/ CbStart
  BY <1>2, StartFrame
<1>3. CASE DmaMap
  BY <1>3 DEF DmaMap, lvars
<1>4. ASSUME NEW t \in Thr, IoStart(t) PROVE Unborn'
  BY <1>4 DEF IoStart
<1>5. CASE MapNext
  BY <1>5, MapFrame
<1>6. ASSUME NEW t \in Thr, IoPin(t) PROVE Unborn'
  BY <1>6 DEF IoPin
<1>7. ASSUME NEW t \in Thr, IoLookup(t) PROVE Unborn'
  BY <1>7 DEF IoLookup
<1>8. ASSUME NEW t \in Thr, IoUndo(t) PROVE Unborn'
  BY <1>8 DEF IoUndo, Drop
<1>9. ASSUME NEW t \in Thr, IoProg(t) PROVE Unborn'
  BY <1>9 DEF IoProg, Transit
<1>10. ASSUME NEW t \in Thr, IoValid(t) PROVE Unborn'
  BY <1>10 DEF IoValid
<1>11. ASSUME NEW t \in Thr, IoUnprog(t) PROVE Unborn'
  BY <1>11 DEF IoUnprog, Transit
<1>12. ASSUME NEW t \in Thr, IoLoop(t) PROVE Unborn'
  BY <1>12 DEF IoLoop
<1>13. ASSUME NEW t \in Thr, IoTail(t) PROVE Unborn'
  BY <1>13 DEF IoTail
<1>14. ASSUME NEW e \in Executors, IoComplete(e) PROVE Unborn'
  BY <1>14 DEF IoComplete, Advance
<1>15. ASSUME NEW e \in Executors, IoPut(e) PROVE Unborn'
  BY <1>15 DEF IoPut, Drop
<1>16. ASSUME NEW e \in Executors, IoReady(e) PROVE Unborn'
  BY <1>16 DEF IoReady, Transit
<1>17. ASSUME NEW e \in Executors, IoFence(e) PROVE Unborn'
  BY <1>17 DEF IoFence
<1>18. ASSUME NEW e \in Executors, IoEnd(e) PROVE Unborn'
  BY <1>18 DEF IoEnd
<1>19. CASE CloseNext
  BY <1>19, CloseFrame
<1>20. CASE CbNext
  BY <1>20, CbFrame
<1>21. CASE DmaUnmap
  BY <1>21 DEF DmaUnmap, Drop
<1>22. ASSUME NEW p \in Executors \cup {"map"}, TransitClaim(p) PROVE Unborn'
  BY <1>22 DEF TransitClaim, CmpXchg
<1>23. ASSUME NEW p \in Executors \cup {"map"}, TransitPut(p) PROVE Unborn'
  BY <1>23 DEF TransitPut, DropMap, Drop
<1>24. ASSUME NEW p \in Executors \cup {"map"}, TransitEnd(p) PROVE Unborn'
  BY <1>24 DEF TransitEnd, Answer
<1>25. ASSUME NEW p \in Executors \cup {"map"}, TransitLog(p) PROVE Unborn'
  BY <1>25 DEF TransitLog
<1>26. ASSUME NEW p \in Proc, FreeState(p) PROVE Unborn'
  BY <1>26 DEF FreeState
<1>27. ASSUME NEW p \in Proc, FreeUnpin(p) PROVE Unborn'
  BY <1>27 DEF FreeUnpin
<1>28. ASSUME NEW p \in Proc, FreePages(p) PROVE Unborn'
  BY <1>28 DEF FreePages, PutPages
<1>29. ASSUME NEW p \in Proc, FreeOps(p) PROVE Unborn'
  BY <1>29 DEF FreeOps
<1>30. ASSUME NEW p \in Proc, FreeDel(p) PROVE Unborn'
  BY <1>30 DEF FreeDel
<1>31. CASE UNCHANGED vars
  BY <1>31 DEF vars, lvars
<1> HIDE Names, <1>0 DEF At, Goto, Unborn, gvars, refs, gpu, locals
<1> QED
  BY <1>1, <1>2, <1>3, <1>4, <1>5, <1>6, <1>7, <1>8, <1>9, <1>10, <1>11,
     <1>12, <1>13, <1>14, <1>15, <1>16, <1>17, <1>18, <1>19, <1>20, <1>21,
     <1>22, <1>23, <1>24, <1>25, <1>26, <1>27, <1>28, <1>29, <1>30, <1>31
     DEF Next, EnvNext, Step, Stopped, IoNext, CompleteNext, TransitNext,
        FreeNext

(* Nothing brings io_state back from a terminal value, nor from a torn one *)
(* to one that lets I/O in: every cmpxchg moves it forward.                *)
LEMMA StateMoves ==
  ASSUME Unborn, [Next]_vars
  PROVE  /\ io_state \in Torn => io_state' \in Torn
         /\ io_state \in Terminal => io_state' \in Terminal
<1> USE DEF Torn, Terminal, gvars
<1>1. CASE EnvNext
  BY <1>1 DEF EnvNext, Mmap, Unborn, MapStart, VmaClose, CbStart, DmaMap,
     IoStart
<1>2. CASE MapNext
  BY <1>2 DEF MapNext, MapOps, MapPin, MapFence, MapInit, MapGetPages,
     MapCheck, MapFree, MapUnpin, MapNoFence, MapReady, MapErr, Transit
<1>3. CASE CloseNext \/ CbNext \/ DmaUnmap
  BY <1>3 DEF CloseNext, CbNext, DmaUnmap, CloseRead, CloseUnpin, ClosePut,
     CbWait, CbFree, CbFence, CbPut, TerminateRequested, CmpXchg, TermState
<1>4. ASSUME NEW p \in Proc,
             \/ IoNext(p) \/ IoComplete(p) \/ CompleteNext(p)
             \/ TransitNext(p) \/ FreeNext(p)
      PROVE  /\ io_state \in Torn => io_state' \in Torn
             /\ io_state \in Terminal => io_state' \in Terminal
  <2>1. CASE IoNext(p)
    BY <2>1 DEF IoNext, IoPin, IoLookup, IoUndo, IoProg, IoValid, IoUnprog,
       IoLoop, IoTail, Transit
  <2>2. CASE IoComplete(p) \/ CompleteNext(p)
    BY <2>2 DEF CompleteNext, IoComplete, IoPut, IoReady, IoFence, IoEnd,
       Transit
  <2>3. CASE TransitNext(p)
    BY <2>3 DEF TransitNext, TransitClaim, TransitPut, TransitEnd, Answer,
       TransitLog, CmpXchg
  <2>4. CASE FreeNext(p)
    BY <2>4 DEF FreeNext, FreeState, FreeUnpin, FreePages, FreeOps, FreeDel
  <2> QED
    BY <1>4, <2>1, <2>2, <2>3, <2>4
<1>5. CASE UNCHANGED vars
  BY <1>5 DEF vars
<1> HIDE DEF Torn, Terminal, gvars
<1> QED
  BY <1>1, <1>2, <1>3, <1>4, <1>5 DEF Next, Step, Stopped

(* Once a teardown has been asked for, io_state never returns to a state   *)
(* that lets I/O in, whatever the processes do and however many I/Os user  *)
(* space issues at once.                                                   *)
THEOREM TeardownIsFinal == Spec => NoIoAfterTeardown
<1>1. Init => TypeOK /\ Unborn
  BY InitType DEF Init, Unborn, At
<1>2. TypeOK /\ Unborn /\ [Next]_vars => (TypeOK /\ Unborn)'
  BY NextType, UnbornStep
<1>3. TypeOK /\ Unborn /\ [Next]_vars
        => [(io_state \in Torn) => (io_state' \in Torn)]_vars
  BY StateMoves
<1> QED
  BY <1>1, <1>2, <1>3, PTL DEF Spec, NoIoAfterTeardown
=============================================================================
