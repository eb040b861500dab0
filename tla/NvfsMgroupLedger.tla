-------------------------- MODULE NvfsMgroupLedger --------------------------
(***************************************************************************)
(* Every step keeps the references of the buffer accounted for until       *)
(* io_state is terminal: the conjunct Ledger of SerialInv, party by party. *)
(***************************************************************************)
EXTENDS NvfsMgroupSteps

(* The I/O reference changes hands only with the state of its holder.      *)
LEMMA HeldSame ==
  ASSUME NEW e \in Executors, HoldsIo(e)' <=> HoldsIo(e),
         \A f \in Executors \ {e} :
           pc'[f] = pc[f] /\ ret'[f] = ret[f] /\ cont'[f] = cont[f]
  PROVE  IoHeld' <=> IoHeld
<1>1. \A f \in Executors \ {e} : HoldsIo(f)' <=> HoldsIo(f)
  BY DEF HoldsIo
<1> QED
  BY <1>1 DEF IoHeld

(* While an executor is between its lookup and its last put, nobody else   *)
(* holds an I/O reference.                                                 *)
LEMMA HeldAlone ==
  ASSUME Serial, NEW e \in Executors, ~At(e, "idle"), ~At(e, "io_tail"),
         NEW f \in Executors \ {e}
  PROVE  ~HoldsIo(f)
BY DEF Serial, HoldsIo, At, TransitLabels, FreeLabels

(* A step that moves no reference leaves the account in order if nobody    *)
(* starts to free, the vma keeps its owner, and nvfs_map() does not reach  *)
(* a label at which it must hold more.                                     *)
LEMMA AccountKept ==
  ASSUME Accounted, ~Freed', IoHeld' <=> IoHeld,
         UNCHANGED <<refs, life>>,
         At("close", "done")' <=> At("close", "done"),
         pc'["map"] \in MapHolds => pc["map"] \in MapHolds,
         pc'["map"] \in MapPinned => pages' = "pinned"
  PROVE  Accounted'
BY DEF Accounted, Holding, refs

(* The step of one executor that keeps its reference, or has none.         *)
LEMMA AccountKeptIo ==
  ASSUME TypeOK, Accounted, NEW e \in Executors, HoldsIo(e)' <=> HoldsIo(e),
         \A q \in Proc \ {e} :
           pc'[q] = pc[q] /\ ret'[q] = ret[q] /\ cont'[q] = cont[q],
         pc'[e] \notin FreeLabels, UNCHANGED <<refs, life, pages>>
  PROVE  Accounted'
<1>1. ~Freed'
  BY DEF Accounted, Freed
<1>2. IoHeld' <=> IoHeld
  BY HeldSame, Names
<1> QED
  BY <1>1, <1>2, AccountKept, Names DEF Accounted, At

(* An I/O that holds its reference is never the last owner of a buffer in  *)
(* use: nvfs_map() is another one.  Nobody is freeing then.                *)
LEMMA LastOwner ==
  ASSUME TypeOK, Ledger, Serial, NEW e \in Executors, HoldsIo(e),
         io_state \notin Terminal
  PROVE  Accounted /\ ref > 1
<1>1. pc[e] \notin {"idle", "io_pin"}
  BY DEF HoldsIo, TransitLabels, FreeLabels
<1>2. Accounted /\ At("map", "m_ok")
  BY <1>1 DEF Ledger, Abandoned, Serial, At
<1>3. IoHeld
  BY DEF IoHeld
<1> QED
  BY <1>2, <1>3 DEF Accounted, MapHolds, Holding, At, TypeOK

(* The account through the steps of nvfs_map(): the pin adds the reference *)
(* it counts, and io_state is terminal where the failed map is answered.   *)
LEMMA AccountedMap ==
  ASSUME TypeOK, Accounted, Knows, io_state \notin Terminal, MapNext
  PROVE  Accounted'
<1>0. pc["map"] # "m_raced"
  BY DEF Knows
<1> USE Names DEF At, Goto, TypeOK, gvars, refs, gpu, locals
<1>1. /\ \A q \in Proc \ {"map"} : pc'[q] = pc[q] /\ cont'[q] = cont[q]
      /\ UNCHANGED <<life, dma_ref, ret>>
      /\ pc'["map"] \notin FreeLabels
  BY MapFrame
<1>2. ~Freed' /\ (IoHeld' <=> IoHeld)
  <2>1. \A e \in Executors : HoldsIo(e)' <=> HoldsIo(e)
    BY <1>1 DEF HoldsIo
  <2> QED
    BY <1>1, <2>1 DEF IoHeld, Freed, Accounted
<1>3. CASE MapPin
  BY <1>1, <1>2, <1>3
     DEF MapPin, Accounted, MapHolds, MapPinned, Holding
<1>4. CASE ~MapPin
  <2>1. ref' = ref /\ mapRef' = mapRef
    BY <1>4 DEF MapNext, MapOps, MapFence, MapInit, MapGetPages, MapCheck,
       MapFree, MapUnpin, MapNoFence, MapReady, MapErr
  <2>2. pc'["map"] \in MapHolds => pc["map"] \in MapHolds
    BY <1>0, <1>4 DEF MapNext, MapOps, MapFence, MapInit, MapGetPages,
       MapCheck, MapFree, MapUnpin, MapNoFence, MapReady, MapErr, Transit,
       MapHolds
  <2>3. pc'["map"] \in MapPinned => pages' = "pinned"
    BY <1>0, <1>4 DEF MapNext, MapOps, MapFence, MapInit, MapGetPages,
       MapCheck, MapFree, MapUnpin, MapNoFence, MapReady, MapErr, Transit,
       MapPinned, Accounted
  <2> QED
    BY <1>1, <1>2, <2>1, <2>2, <2>3, AccountKept
<1> QED
  BY <1>3, <1>4

(* The account through the ioctl of a thread: the lookup takes the         *)
(* reference of the I/O, and only a failed one gives it back here.         *)
LEMMA AccountedIo ==
  ASSUME TypeOK, Unborn, Accounted, Ledger, Serial,
         io_state \notin Terminal, NEW t \in Thr, IoStart(t) \/ IoNext(t)
  PROVE  Accounted'
<1> USE Names DEF At, Goto, TypeOK, gvars, refs, gpu, locals
<1>1. CASE IoStart(t)
  <2>1. pc'[t] \notin FreeLabels /\ (HoldsIo(t)' <=> HoldsIo(t))
    BY <1>1 DEF IoStart, HoldsIo, Undoing, FreeLabels, TransitLabels
  <2>2. \A q \in Proc \ {t} :
          pc'[q] = pc[q] /\ ret'[q] = ret[q] /\ cont'[q] = cont[q]
    BY <1>1 DEF IoStart
  <2> QED
    BY <1>1, <2>1, <2>2, AccountKeptIo DEF IoStart
<1>2. CASE IoPin(t)
  <2>1. pc'[t] \notin FreeLabels /\ (HoldsIo(t)' <=> HoldsIo(t))
    BY <1>2 DEF IoPin, HoldsIo, Undoing, FreeLabels, TransitLabels
  <2>2. \A q \in Proc \ {t} :
          pc'[q] = pc[q] /\ ret'[q] = ret[q] /\ cont'[q] = cont[q]
    BY <1>2 DEF IoPin
  <2> QED
    BY <1>2, <2>1, <2>2, AccountKeptIo DEF IoPin
<1>3. CASE IoLookup(t)
  <2>1. \A q \in Proc \ {t} :
          pc'[q] = pc[q] /\ ret'[q] = ret[q] /\ cont'[q] = cont[q]
    BY <1>3 DEF IoLookup
  <2>2. ~Freed'
    BY <1>3, <2>1 DEF IoLookup, Freed, FreeLabels, Accounted
  <2>3. ~IoHeld
    <3>1. ~HoldsIo(t)
      BY <1>3 DEF IoLookup, HoldsIo, TransitLabels, FreeLabels
    <3> QED
      BY <1>3, <3>1, HeldAlone DEF IoLookup, IoHeld
  <2>4. life = "live"
    BY <1>3 DEF IoLookup, Accounted, Freed, Unborn
  <2>5. IoHeld'
    BY <1>3, <2>4 DEF IoLookup, IoHeld, HoldsIo
  <2> QED
    BY <1>3, <2>1, <2>2, <2>3, <2>4, <2>5 DEF IoLookup, Accounted, Holding
<1>4. CASE IoUndo(t)
  <2>1. HoldsIo(t) /\ IoHeld
    BY <1>4 DEF IoUndo, HoldsIo, IoHeld
  <2>2. /\ ref' = ref - 1 /\ pc'[t] = "idle"
        /\ \A q \in Proc \ {t} :
             pc'[q] = pc[q] /\ ret'[q] = ret[q] /\ cont'[q] = cont[q]
    BY <1>4, <2>1, LastOwner DEF IoUndo, Drop
  <2>3. ~Freed'
    BY <1>4, <2>2 DEF IoUndo, Freed, FreeLabels, Accounted
  <2>4. ~IoHeld'
    <3>1. \A f \in Executors \ {t} : ~HoldsIo(f)
      BY <1>4, HeldAlone DEF IoUndo
    <3>2. \A f \in Executors : ~HoldsIo(f)'
      BY <2>2, <3>1 DEF HoldsIo, TransitLabels, FreeLabels
    <3> QED
      BY <3>2 DEF IoHeld
  <2> QED
    BY <1>4, <2>1, <2>2, <2>3, <2>4 DEF IoUndo, Accounted, Holding
<1>5. CASE IoProg(t)
  <2>1. pc'[t] \notin FreeLabels /\ (HoldsIo(t)' <=> HoldsIo(t))
    BY <1>5 DEF IoProg, Transit, HoldsIo, Undoing, FreeLabels, TransitLabels
  <2>2. \A q \in Proc \ {t} :
          pc'[q] = pc[q] /\ ret'[q] = ret[q] /\ cont'[q] = cont[q]
    BY <1>5 DEF IoProg, Transit
  <2> QED
    BY <1>5, <2>1, <2>2, AccountKeptIo DEF IoProg
<1>6. CASE IoValid(t)
  <2>1. pc'[t] \notin FreeLabels /\ (HoldsIo(t)' <=> HoldsIo(t))
    BY <1>6 DEF IoValid, HoldsIo, Undoing, FreeLabels, TransitLabels
  <2>2. \A q \in Proc \ {t} :
          pc'[q] = pc[q] /\ ret'[q] = ret[q] /\ cont'[q] = cont[q]
    BY <1>6 DEF IoValid
  <2> QED
    BY <1>6, <2>1, <2>2, AccountKeptIo DEF IoValid
<1>7. CASE IoUnprog(t)
  <2>1. pc'[t] \notin FreeLabels /\ (HoldsIo(t)' <=> HoldsIo(t))
    BY <1>7 DEF IoUnprog, Transit, HoldsIo, Undoing, FreeLabels, TransitLabels
  <2>2. \A q \in Proc \ {t} :
          pc'[q] = pc[q] /\ ret'[q] = ret[q] /\ cont'[q] = cont[q]
    BY <1>7 DEF IoUnprog, Transit
  <2> QED
    BY <1>7, <2>1, <2>2, AccountKeptIo DEF IoUnprog
<1>8. CASE IoLoop(t)
  <2>1. IoHeld
    BY <1>8 DEF IoLoop, IoHeld, HoldsIo
  <2>2. \/ pc'[t] \in {"io_put", "io_flight"} /\ pc'["irq"] = pc["irq"]
        \/ pc'[t] = "io_tail" /\ pc'["irq"] = "io_flight"
    BY <1>8 DEF IoLoop
  <2>3. \A q \in Proc \ {t, "irq"} : pc'[q] = pc[q]
    BY <1>8 DEF IoLoop
  <2>4. IoHeld'
    BY <2>2 DEF IoHeld, HoldsIo
  <2>5. ~Freed'
    BY <1>8, <2>2, <2>3 DEF IoLoop, Freed, FreeLabels, Accounted
  <2> QED
    BY <1>8, <2>1, <2>3, <2>4, <2>5, AccountKept DEF IoLoop, Accounted
<1>9. CASE IoTail(t)
  <2>1. pc'[t] \notin FreeLabels /\ (HoldsIo(t)' <=> HoldsIo(t))
    BY <1>9 DEF IoTail, Serial, HoldsIo, Undoing, FreeLabels, TransitLabels
  <2>2. \A q \in Proc \ {t} :
          pc'[q] = pc[q] /\ ret'[q] = ret[q] /\ cont'[q] = cont[q]
    BY <1>9 DEF IoTail, Serial
  <2> QED
    BY <1>9, <2>1, <2>2, AccountKeptIo DEF IoTail
<1> QED
  BY <1>1, <1>2, <1>3, <1>4, <1>5, <1>6, <1>7, <1>8, <1>9 DEF IoNext

(* The account through the completion: nvfs_io_free() gives the reference  *)
(* of the I/O back.                                                        *)
LEMMA AccountedComplete ==
  ASSUME TypeOK, Accounted, Ledger, Serial, io_state \notin Terminal,
         NEW e \in Executors, IoComplete(e) \/ CompleteNext(e)
  PROVE  Accounted'
<1> USE Names DEF At, Goto, TypeOK, gvars, refs, gpu, locals
<1>1. CASE IoComplete(e)
  <2>1. pc'[e] \notin FreeLabels /\ (HoldsIo(e)' <=> HoldsIo(e))
    BY <1>1 DEF IoComplete, Serial, HoldsIo, Undoing, FreeLabels,
       TransitLabels
  <2>2. \A q \in Proc \ {e} :
          pc'[q] = pc[q] /\ ret'[q] = ret[q] /\ cont'[q] = cont[q]
    BY <1>1 DEF IoComplete
  <2> QED
    BY <1>1, <2>1, <2>2, AccountKeptIo DEF IoComplete
<1>2. CASE IoPut(e)
  <2>1. HoldsIo(e) /\ IoHeld
    BY <1>2 DEF IoPut, HoldsIo, IoHeld
  <2>2. /\ ref' = ref - 1 /\ pc'[e] = "io_ready"
        /\ \A q \in Proc \ {e} :
             pc'[q] = pc[q] /\ ret'[q] = ret[q] /\ cont'[q] = cont[q]
    BY <1>2, <2>1, LastOwner DEF IoPut, Drop
  <2>3. ~Freed'
    BY <1>2, <2>2 DEF IoPut, Freed, FreeLabels, Accounted
  <2>4. ~IoHeld'
    <3>1. \A f \in Executors \ {e} : ~HoldsIo(f)
      BY <1>2, HeldAlone DEF IoPut
    <3>2. \A f \in Executors : ~HoldsIo(f)'
      BY <2>2, <3>1 DEF HoldsIo, TransitLabels, FreeLabels
    <3> QED
      BY <3>2 DEF IoHeld
  <2> QED
    BY <1>2, <2>1, <2>2, <2>3, <2>4 DEF IoPut, Accounted, Holding
<1>3. CASE IoReady(e)
  <2>1. pc'[e] \notin FreeLabels /\ (HoldsIo(e)' <=> HoldsIo(e))
    BY <1>3 DEF IoReady, Transit, HoldsIo, Undoing, FreeLabels,
       TransitLabels
  <2>2. \A q \in Proc \ {e} :
          pc'[q] = pc[q] /\ ret'[q] = ret[q] /\ cont'[q] = cont[q]
    BY <1>3 DEF IoReady, Transit
  <2> QED
    BY <1>3, <2>1, <2>2, AccountKeptIo DEF IoReady
<1>4. CASE IoFence(e)
  <2>1. pc'[e] \notin FreeLabels /\ (HoldsIo(e)' <=> HoldsIo(e))
    BY <1>4 DEF IoFence, HoldsIo, Undoing, FreeLabels,
       TransitLabels
  <2>2. \A q \in Proc \ {e} :
          pc'[q] = pc[q] /\ ret'[q] = ret[q] /\ cont'[q] = cont[q]
    BY <1>4 DEF IoFence
  <2> QED
    BY <1>4, <2>1, <2>2, AccountKeptIo DEF IoFence
<1>5. CASE IoEnd(e)
  <2>1. pc'[e] \notin FreeLabels /\ (HoldsIo(e)' <=> HoldsIo(e))
    BY <1>5 DEF IoEnd, HoldsIo, Undoing, FreeLabels,
       TransitLabels
  <2>2. \A q \in Proc \ {e} :
          pc'[q] = pc[q] /\ ret'[q] = ret[q] /\ cont'[q] = cont[q]
    BY <1>5 DEF IoEnd
  <2> QED
    BY <1>5, <2>1, <2>2, AccountKeptIo DEF IoEnd
<1> QED
  BY <1>1, <1>2, <1>3, <1>4, <1>5 DEF CompleteNext

(* The account through nvfs_transit_state(): it is closed, not unbalanced, *)
(* where the answer makes io_state terminal.                               *)
LEMMA AccountedTransit ==
  ASSUME TypeOK, Accounted, Knows, Returns, io_state' \notin Terminal,
         io_state \notin Terminal,
         NEW p \in Executors \cup {"map"}, TransitNext(p)
  PROVE  Accounted'
<1> USE Names DEF At, Goto, TypeOK, gvars, refs, gpu, locals
<1>1. pc[p] = "x_claim" /\ pc'[p] = "x_end"
  <2>1. ~TransitEnd(p)
    BY DEF TransitEnd, Answer, Terminal
  <2>2. pc[p] \notin {"x_put", "x_wake", "x_log"}
    BY DEF Knows
  <2> QED
    BY <2>1, <2>2 DEF TransitNext, TransitClaim, TransitPut, TransitLog,
       CmpXchg, Terminal
<1>2. /\ UNCHANGED <<refs, life, pages, ret, cont>>
      /\ \A q \in Proc \ {p} : pc'[q] = pc[q]
  BY <1>1 DEF TransitNext, TransitClaim, TransitPut, TransitEnd, TransitLog,
     CmpXchg
<1>3. CASE p \in Executors
  <2>1. HoldsIo(p)' <=> HoldsIo(p)
    BY <1>1, <1>2 DEF HoldsIo, TransitLabels, FreeLabels
  <2> QED
    BY <1>1, <1>2, <1>3, <2>1, AccountKeptIo DEF FreeLabels
<1>4. CASE p = "map"
  <2>1. IoHeld' <=> IoHeld
    BY <1>2, <1>4 DEF IoHeld, HoldsIo
  <2>2. ~Freed'
    BY <1>1, <1>2 DEF Accounted, Freed, FreeLabels
  <2> QED
    BY <1>1, <1>2, <1>4, <2>1, <2>2, AccountKept DEF MapHolds, MapPinned
<1> QED
  BY <1>3, <1>4

(* The account through munmap.  Its last put either leaves other owners,   *)
(* or abandons a buffer that nvfs_map() does not hold: no I/O is there.    *)
LEMMA AccountedClose ==
  ASSUME TypeOK, Unborn, Accounted, Serial, Knows, io_state \notin Terminal,
         CloseNext
  PROVE  Accounted' \/ Abandoned'
<1> USE Names DEF At, Goto, TypeOK, gvars, refs, gpu, locals
<1>1. /\ \A q \in Proc \ {"close"} :
           pc'[q] = pc[q] /\ ret'[q] = ret[q] /\ cont'[q] = cont[q]
      /\ UNCHANGED <<life, dma_ref, pages>>
  BY CloseFrame
<1>2. IoHeld' <=> IoHeld
  BY <1>1 DEF IoHeld, HoldsIo
<1>3. ~CloseUnpin
  BY DEF CloseUnpin, Knows
<1>4. CASE CloseRead \/ TerminateRequested("close")
  <2>1. pc'["close"] \notin FreeLabels \cup {"done"} /\ pc["close"] # "done"
    BY <1>4 DEF CloseRead, TerminateRequested, CmpXchg, TermDone, FreeLabels
  <2>2. ~Freed'
    BY <1>1, <2>1 DEF Accounted, Freed
  <2> QED
    BY <1>1, <1>2, <1>4, <2>1, <2>2, AccountKept
       DEF CloseRead, TerminateRequested, Accounted
<1>5. CASE ClosePut /\ ref # 1
  <2>1. pc["close"] = "c_put" /\ pc'["close"] = "done" /\ ref' = ref - 1
    BY <1>5 DEF ClosePut, Drop
  <2>2. ~Freed'
    BY <1>1, <2>1 DEF Accounted, Freed, FreeLabels
  <2>3. life # "none"
    BY <2>1 DEF Unborn
  <2> QED
    BY <1>1, <1>2, <1>5, <2>1, <2>2, <2>3 DEF ClosePut, Accounted, Holding
<1>6. CASE ClosePut /\ ref = 1
  <2>1. pc["close"] = "c_put" /\ pc'["close"] = "f_state"
    BY <1>6 DEF ClosePut, Drop
  <2>2. life # "none"
    BY <2>1 DEF Unborn
  <2>3. dma_ref = 0 /\ pc["map"] \notin MapHolds
    BY <1>6, <2>1, <2>2 DEF Accounted, Holding
  <2>4. \A e \in Executors : pc[e] = "idle"
    BY <2>3 DEF Serial, MapHolds
  <2> QED
    BY <1>1, <2>1, <2>3, <2>4 DEF Abandoned, Freed, FreeLabels
<1> QED
  BY <1>3, <1>4, <1>5, <1>6 DEF CloseNext

(* The account through the free callback, which touches pages and          *)
(* references in a terminal state only.                                    *)
LEMMA AccountedCb ==
  ASSUME TypeOK, Accounted, Knows, io_state \notin Terminal, CbStart \/ CbNext
  PROVE  Accounted'
<1> USE Names DEF At, Goto, TypeOK, gvars, refs, gpu, locals
<1>1. CbStart \/ CbWait \/ TerminateRequested("cb")
  BY DEF CbNext, CbFree, CbFence, CbPut, Knows
<1>2. /\ \A q \in Proc \ {"cb"} :
           pc'[q] = pc[q] /\ ret'[q] = ret[q] /\ cont'[q] = cont[q]
      /\ pc'["cb"] \notin FreeLabels
      /\ UNCHANGED <<refs, life, pages>>
  BY <1>1 DEF CbStart, CbWait, TerminateRequested, CmpXchg, TermDone,
     FreeLabels
<1>3. IoHeld' <=> IoHeld
  BY <1>2 DEF IoHeld, HoldsIo
<1>4. ~Freed'
  BY <1>2 DEF Accounted, Freed
<1> QED
  BY <1>2, <1>3, <1>4, AccountKept DEF Accounted

(* The account through mmap, the start of nvfs_map() and of munmap.        *)
LEMMA AccountedStart ==
  ASSUME TypeOK, Unborn, Accounted, Mmap \/ MapStart \/ VmaClose
  PROVE  Accounted'
<1> USE Names DEF At, Goto, TypeOK, gvars, refs, gpu, locals
<1>1. CASE Mmap
  <2>1. /\ UNCHANGED <<pc, ret, cont, mapRef, dma_ref, pages>>
        /\ \A p \in Proc : pc[p] = "idle"
        /\ life' = "live" /\ ref' = 1 /\ mapRef = 0 /\ dma_ref = 0
    BY <1>1 DEF Mmap, Unborn, lvars
  <2>2. ~Freed' /\ ~IoHeld'
    BY <2>1 DEF Freed, FreeLabels, IoHeld, HoldsIo, TransitLabels
  <2> QED
    BY <2>1, <2>2 DEF Accounted, Holding, MapHolds, MapPinned
<1>2. CASE MapStart \/ VmaClose
  <2>1. /\ \A e \in Executors :
             pc'[e] = pc[e] /\ ret'[e] = ret[e] /\ cont'[e] = cont[e]
        /\ UNCHANGED <<refs, life, pages>>
        /\ \A q \in Proc : pc'[q] # pc[q] => pc'[q] \notin FreeLabels
    BY <1>2 DEF MapStart, VmaClose, FreeLabels
  <2>2. /\ (pc'["close"] = "done") <=> (pc["close"] = "done")
        /\ pc'["map"] = pc["map"] \/ pc'["map"] = "m_ops"
    BY <1>2 DEF MapStart, VmaClose
  <2>3. ~Freed' /\ (IoHeld' <=> IoHeld)
    <3>1. ~Freed'
      BY <2>1 DEF Freed, Accounted
    <3>2. \A e \in Executors : HoldsIo(e)' <=> HoldsIo(e)
      BY <2>1 DEF HoldsIo
    <3> QED
      BY <3>1, <3>2 DEF IoHeld
  <2> QED
    BY <2>1, <2>2, <2>3, AccountKept DEF Accounted, MapHolds, MapPinned
<1> QED
  BY <1>1, <1>2

(* The account through the mapping of pages for DMA: each unmap pays for   *)
(* one map.  The last one frees only what nobody else holds.               *)
LEMMA AccountedDma ==
  ASSUME TypeOK, Unborn, Accounted, Serial, DmaMap \/ DmaUnmap
  PROVE  Accounted' \/ Abandoned'
<1> USE Names DEF At, Goto, TypeOK, gvars, refs, gpu, locals
<1>1. /\ \A q \in Proc \ {"blk"} :
           pc'[q] = pc[q] /\ ret'[q] = ret[q] /\ cont'[q] = cont[q]
      /\ UNCHANGED <<life, mapRef, pages>>
  BY DEF DmaMap, DmaUnmap, Drop, lvars
<1>2. IoHeld' <=> IoHeld
  BY <1>1 DEF IoHeld, HoldsIo
<1>3. CASE DmaMap \/ ref # 1
  <2>1. /\ pc'["blk"] = "idle"
        /\ \/ ref' = ref + 1 /\ dma_ref' = dma_ref + 1
           \/ ref' = ref - 1 /\ dma_ref' = dma_ref - 1
    BY <1>3 DEF DmaMap, DmaUnmap, Drop, lvars
  <2>2. ~Freed'
    BY <1>1, <2>1 DEF Freed, FreeLabels, Accounted
  <2> QED
    BY <1>1, <1>2, <2>1, <2>2 DEF Accounted, Holding
<1>4. CASE DmaUnmap /\ ref = 1
  <2>1. pc'["blk"] = "f_state" /\ dma_ref' = dma_ref - 1 /\ dma_ref > 0
    BY <1>4 DEF DmaUnmap, Drop
  <2>2. /\ dma_ref = 1 /\ pc["map"] \notin MapHolds
        /\ life = "none" \/ pc["close"] = "done"
    BY <1>4, <2>1 DEF Accounted, Holding
  <2>3. pc["close"] = "done"
    BY <2>2 DEF Unborn
  <2>4. \A e \in Executors : pc[e] = "idle"
    BY <2>2 DEF Serial, MapHolds
  <2> QED
    BY <1>1, <2>1, <2>2, <2>3, <2>4 DEF Abandoned, Freed, FreeLabels
<1> QED
  BY <1>3, <1>4

(* Each put is paid from the account of the process that makes it; the     *)
(* account of nvfs_map() is only closed in a terminal state.               *)
LEMMA LedgerStep ==
  ASSUME TypeOK, Ledger, Knows, Serial, Unborn, Returns, [Next]_vars
  PROVE  Ledger'
<1> SUFFICES ASSUME io_state' \notin Terminal
             PROVE  Accounted' \/ Abandoned'
  BY DEF Ledger, Terminal
<1>1. io_state \notin Terminal
  BY StateMoves
<1>2. CASE Abandoned
  BY <1>2, AbandonedStep
<1>3. CASE Accounted
  <2>1. CASE EnvNext
    BY <1>1, <1>3, <2>1, AccountedStart, AccountedCb, AccountedDma,
       AccountedIo DEF EnvNext
  <2>2. ASSUME NEW p \in Proc, Step(p) PROVE Accounted' \/ Abandoned'
    <3>1. ~FreeNext(p)
      BY <1>3 DEF Accounted, Freed, FreeLabels, FreeNext, FreeState,
         FreeUnpin, FreePages, FreeOps, FreeDel, At
    <3> QED
      BY <1>1, <1>3, <2>2, <3>1, AccountedMap, AccountedClose, AccountedCb,
         AccountedDma, AccountedIo, AccountedComplete, AccountedTransit
         DEF Step
  <2>3. CASE UNCHANGED vars
    <3>1. UNCHANGED <<refs, life, pages, pc, ret, cont>>
      BY <2>3 DEF vars, gvars, gpu, lvars
    <3>2. (IoHeld' <=> IoHeld) /\ (Freed' <=> Freed)
      BY <3>1 DEF IoHeld, HoldsIo, Freed
    <3> QED
      BY <1>3, <3>1, <3>2, AccountKept DEF Accounted, At
  <2> QED
    BY <2>1, <2>2, <2>3 DEF Next, Stopped
<1> QED
  BY <1>1, <1>2, <1>3 DEF Ledger
=============================================================================
