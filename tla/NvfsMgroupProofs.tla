-------------------------- MODULE NvfsMgroupProofs --------------------------
(***************************************************************************)
(* The inductive invariant SerialInv, and what follows from it: for every  *)
(* number of threads, every bound and every timing of the teardown, a user *)
(* space that issues one I/O at a time never has DMA into released pages.  *)
(***************************************************************************)
EXTENDS NvfsMgroupLedger

(* No step of another party invalidates what a process knows about         *)
(* io_state: cmpxchg only moves it forward, and the free path is not       *)
(* reached under an I/O because the ledger counts its reference.           *)
LEMMA KnowsStep ==
  ASSUME TypeOK, Knows, Serial, Returns, Ledger, Unborn, [Next]_vars
  PROVE  Knows'
<1>0. \A e \in Executors :
        /\ io_state \notin Terminal
        /\ pc[e] \in {"io_wrong", "io_undo", "io_valid", "io_loop",
                     "io_flight", "io_put"}
        => ref > 1 /\ \A p \in Proc : pc[p] \notin FreeLabels
  BY LastOwner DEF Accounted, Freed, HoldsIo
<1>a. pc \in [Proc -> Labels] /\ io_state \in IoState
  BY DEF TypeOK
<1> USE Names, <1>a DEF At, Goto, IoState, Knows, Terminal, Claimed, Mapped,
   FreeLabels, gvars, refs, gpu, locals
<1>1. CASE Mmap
  BY <1>1 DEF Mmap, lvars, Unborn
<1>2. CASE MapStart
  BY <1>2 DEF MapStart
<1>3. CASE VmaClose
  BY <1>3 DEF VmaClose, MayTearDown
<1>4. CASE CbStart
  BY <1>4 DEF CbStart, MayTearDown
<1>5. CASE DmaMap
  BY <1>5 DEF DmaMap, lvars
<1>6. ASSUME NEW t \in Thr, IoStart(t) PROVE Knows'
  BY <1>6 DEF IoStart
<1>7. CASE MapOps
  BY <1>7 DEF MapOps
<1>8. CASE MapPin
  BY <1>8 DEF MapPin
<1>9. CASE MapFence
  BY <1>9 DEF MapFence
<1>10. CASE MapInit
  BY <1>10 DEF MapInit, Transit
<1>11. CASE MapGetPages
  BY <1>11 DEF MapGetPages
<1>12. CASE MapCheck
  BY <1>12 DEF MapCheck
<1>13. CASE MapFree
  BY <1>13 DEF MapFree, Transit
<1>14. CASE MapUnpin
  BY <1>14 DEF MapUnpin, PutPages
<1>15. CASE MapNoFence
  BY <1>15 DEF MapNoFence
<1>16. CASE MapReady
  BY <1>16 DEF MapReady, Transit
<1>17. CASE MapErr
  BY <1>17 DEF MapErr
<1>18. ASSUME NEW t \in Thr, IoPin(t) PROVE Knows'
  BY <1>18 DEF IoPin
<1>19. ASSUME NEW t \in Thr, IoLookup(t) PROVE Knows'
  BY <1>19 DEF IoLookup
<1>20. ASSUME NEW t \in Thr, IoUndo(t) PROVE Knows'
  BY <1>0, <1>20 DEF IoUndo, Drop
<1>21. ASSUME NEW t \in Thr, IoProg(t) PROVE Knows'
  BY <1>21 DEF IoProg, Transit
<1>22. ASSUME NEW t \in Thr, IoValid(t) PROVE Knows'
  BY <1>22 DEF IoValid
<1>23. ASSUME NEW t \in Thr, IoUnprog(t) PROVE Knows'
  BY <1>23 DEF IoUnprog, Transit, Serial
<1>24. ASSUME NEW t \in Thr, IoLoop(t) PROVE Knows'
  BY <1>24 DEF IoLoop
<1>25. ASSUME NEW t \in Thr, IoTail(t) PROVE Knows'
  BY <1>25 DEF IoTail, Serial
<1>26. ASSUME NEW e \in Executors, IoComplete(e) PROVE Knows'
  BY <1>26 DEF IoComplete, Advance
<1>27. ASSUME NEW e \in Executors, IoPut(e) PROVE Knows'
  BY <1>0, <1>27 DEF IoPut, Drop
<1>28. ASSUME NEW e \in Executors, IoReady(e) PROVE Knows'
  BY <1>28 DEF IoReady, Transit, Serial
<1>29. ASSUME NEW e \in Executors, IoFence(e) PROVE Knows'
  BY <1>29 DEF IoFence
<1>30. ASSUME NEW e \in Executors, IoEnd(e) PROVE Knows'
  BY <1>30 DEF IoEnd
<1>31. CASE CloseRead
  BY <1>31 DEF CloseRead, Terminated
<1>32. CASE TerminateRequested("close")
  BY <1>32 DEF TerminateRequested, CmpXchg, TermState, TermDone
<1>33. CASE CloseUnpin
  BY <1>33 DEF CloseUnpin, DropMap, Drop
<1>34. CASE ClosePut
  BY <1>34 DEF ClosePut, Drop
<1>35. CASE TerminateRequested("cb")
  BY <1>35 DEF TerminateRequested, CmpXchg, TermState, TermDone
<1>36. CASE CbWait
  BY <1>36 DEF CbWait
<1>37. CASE CbFree
  BY <1>37 DEF CbFree, TakePageTable
<1>38. CASE CbFence
  BY <1>38 DEF CbFence
<1>39. CASE CbPut
  BY <1>39 DEF CbPut, DropMap, Drop
<1>40. CASE DmaUnmap
  BY <1>40 DEF DmaUnmap, Drop
<1>41. ASSUME NEW p \in Executors \cup {"map"}, TransitClaim(p) PROVE Knows'
  BY <1>41 DEF TransitClaim, CmpXchg, Serial
<1>42. ASSUME NEW p \in Executors \cup {"map"}, TransitPut(p) PROVE Knows'
  BY <1>42 DEF TransitPut, DropMap, Drop
<1>43. ASSUME NEW p \in Executors \cup {"map"}, TransitEnd(p) PROVE Knows'
  BY <1>43 DEF TransitEnd, Answer, Serial
<1>44. ASSUME NEW p \in Executors \cup {"map"}, TransitLog(p) PROVE Knows'
  BY <1>44 DEF TransitLog, Returns, TransitLabels
<1>45. ASSUME NEW p \in Proc, FreeState(p) PROVE Knows'
  BY <1>45 DEF FreeState
<1>46. ASSUME NEW p \in Proc, FreeUnpin(p) PROVE Knows'
  BY <1>0, <1>46 DEF FreeUnpin
<1>47. ASSUME NEW p \in Proc, FreePages(p) PROVE Knows'
  BY <1>47 DEF FreePages, PutPages
<1>48. ASSUME NEW p \in Proc, FreeOps(p) PROVE Knows'
  BY <1>48 DEF FreeOps
<1>49. ASSUME NEW p \in Proc, FreeDel(p) PROVE Knows'
  BY <1>49 DEF FreeDel, Returns
<1>50. CASE UNCHANGED vars
  BY <1>50 DEF vars, lvars
<1> HIDE Names, <1>a DEF At, Goto, IoState, Knows, Terminal, Claimed, Mapped,
   FreeLabels, gvars, refs, gpu, locals
<1> QED
  BY <1>1, <1>2, <1>3, <1>4, <1>5, <1>6, <1>7, <1>8, <1>9, <1>10, <1>11,
     <1>12, <1>13, <1>14, <1>15, <1>16, <1>17, <1>18, <1>19, <1>20, <1>21,
     <1>22, <1>23, <1>24, <1>25, <1>26, <1>27, <1>28, <1>29, <1>30, <1>31,
     <1>32, <1>33, <1>34, <1>35, <1>36, <1>37, <1>38, <1>39, <1>40, <1>41,
     <1>42, <1>43, <1>44, <1>45, <1>46, <1>47, <1>48, <1>49, <1>50
     DEF Next, EnvNext, Step, Stopped, MapNext, IoNext, CompleteNext,
        CloseNext, CbNext, TransitNext, FreeNext

(* With one I/O at a time, SerialInv holds throughout, for every number of *)
(* threads and every timing of munmap and of the free callback.            *)
THEOREM SerialInvariant == IoOverlap = {} => (Spec => []SerialInv)
<1> SUFFICES ASSUME IoOverlap = {} PROVE Spec => []SerialInv
  OBVIOUS
<1>1. Init => SerialInv
  <2> SUFFICES ASSUME Init PROVE SerialInv
    OBVIOUS
  <2>1. TypeOK
    BY InitType
  <2>2. /\ io_state = "FREE" /\ life = "none" /\ ref = 0 /\ mapRef = 0
        /\ dma_ref = 0 /\ \A p \in Proc : pc[p] = "idle"
    BY DEF Init
  <2>3. Unborn /\ DmaInFlight
    BY <2>2 DEF Unborn, DmaInFlight, At
  <2>4. Serial /\ Returns
    BY <2>2, Names DEF Serial, Returns, At, FreeLabels, TransitLabels
  <2>5. Knows
    BY <2>2, Names DEF Knows, At, FreeLabels, Terminal, Claimed, Mapped
  <2>6. Ledger
    BY <2>2, Names DEF Ledger, Accounted, Freed, Holding, IoHeld, HoldsIo,
       Undoing, At, FreeLabels, TransitLabels, MapHolds, MapPinned
  <2> QED
    BY <2>1, <2>3, <2>4, <2>5, <2>6 DEF SerialInv
<1>2. SerialInv /\ [Next]_vars => SerialInv'
  BY NextType, UnbornStep, SerialStep, ReturnsStep, KnowsStep,
     DmaInFlightStep, LedgerStep DEF SerialInv
<1> QED
  BY <1>1, <1>2, PTL DEF Spec

(* While an I/O is in the storage stack or the block layer holds a DMA     *)
(* mapping, the GPU pages stay pinned, whenever munmap and the callback    *)
(* start: an I/O in flight owns io_state, an owned buffer is mapped, and   *)
(* the pages of a mapped buffer are only released by its last owner.       *)
THEOREM PagesOutlive == IoOverlap = {} => (Spec => []PagesOutliveDma)
<1> SUFFICES ASSUME IoOverlap = {} PROVE Spec => []PagesOutliveDma
  OBVIOUS
<1>1. SerialInv => PagesOutliveDma
  <2> SUFFICES ASSUME SerialInv,
                      dma_ref > 0 \/ \E e \in Executors : At(e, "io_flight")
               PROVE  pages = "pinned"
    BY DEF PagesOutliveDma
  <2>1. PICK e \in Executors : At(e, "io_flight")
    BY DEF SerialInv, DmaInFlight
  <2>2. At("map", "m_ok") /\ io_state \in Claimed
    BY <2>1 DEF SerialInv, Serial, Knows, At
  <2>3. Accounted
    BY <2>1, <2>2 DEF SerialInv, Ledger, Abandoned, Claimed, Terminal, At
  <2> QED
    BY <2>2, <2>3 DEF Accounted, MapPinned, At
<1> QED
  BY <1>1, SerialInvariant, PTL
=============================================================================
