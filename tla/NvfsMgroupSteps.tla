-------------------------- MODULE NvfsMgroupSteps ---------------------------
(***************************************************************************)
(* Four parts of the inductive invariant SerialInv are kept by every step: *)
(* where each process is, where it returns to, and what it has mapped.     *)
(***************************************************************************)
EXTENDS NvfsMgroupBasics

(* A second I/O starts only when the first has left the kernel.            *)
LEMMA SerialStep ==
  ASSUME TypeOK, Serial, Returns, IoOverlap = {}, [Next]_vars
  PROVE  Serial'
<1>0. /\ pc \in [Proc -> Labels] /\ ret \in [Proc -> Labels]
      /\ cont \in [Proc -> Labels] /\ sync \in [Proc -> BOOLEAN]
  BY DEF TypeOK
<1> USE Names, <1>0 DEF At, Goto, Serial, FreeLabels, TransitLabels,
   Returns, gvars, refs, gpu, locals
<1>1. CASE Mmap
  BY <1>1 DEF Mmap, lvars
<1>2. CASE MapStart \/ VmaClose \/ CbStart
  BY <1>2, StartFrame
<1>3. CASE DmaMap
  BY <1>3 DEF DmaMap, lvars
<1>4. ASSUME NEW t \in Thr, IoStart(t) PROVE Serial'
  BY <1>4 DEF IoStart
<1>5. CASE MapNext
  BY <1>5, MapFrame
<1>6. ASSUME NEW t \in Thr, IoPin(t) PROVE Serial'
  BY <1>6 DEF IoPin
<1>7. ASSUME NEW t \in Thr, IoLookup(t) PROVE Serial'
  BY <1>7 DEF IoLookup
<1>8. ASSUME NEW t \in Thr, IoUndo(t) PROVE Serial'
  BY <1>8 DEF IoUndo, Drop
<1>9. ASSUME NEW t \in Thr, IoProg(t) PROVE Serial'
  BY <1>9 DEF IoProg, Transit
<1>10. ASSUME NEW t \in Thr, IoValid(t) PROVE Serial'
  BY <1>10 DEF IoValid
<1>11. ASSUME NEW t \in Thr, IoUnprog(t) PROVE Serial'
  BY <1>11 DEF IoUnprog, Transit
<1>12. ASSUME NEW t \in Thr, IoLoop(t) PROVE Serial'
  BY <1>12 DEF IoLoop
<1>13. ASSUME NEW t \in Thr, IoTail(t) PROVE Serial'
  BY <1>13 DEF IoTail
<1>14. ASSUME NEW e \in Executors, IoComplete(e) PROVE Serial'
  BY <1>14 DEF IoComplete, Advance
<1>15. ASSUME NEW e \in Executors, IoPut(e) PROVE Serial'
  BY <1>15 DEF IoPut, Drop
<1>16. ASSUME NEW e \in Executors, IoReady(e) PROVE Serial'
  BY <1>16 DEF IoReady, Transit
<1>17. ASSUME NEW e \in Executors, IoFence(e) PROVE Serial'
  BY <1>17 DEF IoFence
<1>18. ASSUME NEW e \in Executors, IoEnd(e) PROVE Serial'
  BY <1>18 DEF IoEnd
<1>19. CASE CloseNext
  BY <1>19, CloseFrame
<1>20. CASE CbNext
  BY <1>20, CbFrame
<1>21. CASE DmaUnmap
  BY <1>21 DEF DmaUnmap, Drop
<1>22. ASSUME NEW p \in Executors \cup {"map"}, TransitClaim(p) PROVE Serial'
  BY <1>22 DEF TransitClaim, CmpXchg
<1>23. ASSUME NEW p \in Executors \cup {"map"}, TransitPut(p) PROVE Serial'
  BY <1>23 DEF TransitPut, DropMap, Drop
<1>24. ASSUME NEW p \in Executors \cup {"map"}, TransitEnd(p) PROVE Serial'
  BY <1>24 DEF TransitEnd, Answer
<1>25. ASSUME NEW p \in Executors \cup {"map"}, TransitLog(p) PROVE Serial'
  BY <1>25 DEF TransitLog
<1>26. ASSUME NEW p \in Proc, FreeState(p) PROVE Serial'
  BY <1>26 DEF FreeState
<1>27. ASSUME NEW p \in Proc, FreeUnpin(p) PROVE Serial'
  BY <1>27 DEF FreeUnpin
<1>28. ASSUME NEW p \in Proc, FreePages(p) PROVE Serial'
  BY <1>28 DEF FreePages, PutPages
<1>29. ASSUME NEW p \in Proc, FreeOps(p) PROVE Serial'
  BY <1>29 DEF FreeOps
<1>30. ASSUME NEW p \in Proc, FreeDel(p) PROVE Serial'
  BY <1>30 DEF FreeDel
<1>31. CASE UNCHANGED vars
  BY <1>31 DEF vars, lvars
<1> HIDE Names, <1>0 DEF At, Goto, Serial, FreeLabels, TransitLabels,
   Returns, gvars, refs, gpu, locals
<1> QED
  BY <1>1, <1>2, <1>3, <1>4, <1>5, <1>6, <1>7, <1>8, <1>9, <1>10, <1>11,
     <1>12, <1>13, <1>14, <1>15, <1>16, <1>17, <1>18, <1>19, <1>20, <1>21,
     <1>22, <1>23, <1>24, <1>25, <1>26, <1>27, <1>28, <1>29, <1>30, <1>31
     DEF Next, EnvNext, Step, Stopped, IoNext, CompleteNext, TransitNext,
        FreeNext

(* The subroutines return to the handlers that called them.                *)
LEMMA ReturnsStep ==
  ASSUME TypeOK, Returns, [Next]_vars
  PROVE  Returns'
<1>0. /\ pc \in [Proc -> Labels] /\ ret \in [Proc -> Labels]
      /\ cont \in [Proc -> Labels]
  BY DEF TypeOK
<1> USE Names, <1>0 DEF At, Goto, Returns, FreeLabels, TransitLabels, gvars,
   refs, gpu, locals
<1>1. CASE Mmap
  BY <1>1 DEF Mmap, lvars
<1>2. CASE MapStart \/ VmaClose \/ CbStart
  BY <1>2, StartFrame
<1>3. CASE DmaMap
  BY <1>3 DEF DmaMap, lvars
<1>4. ASSUME NEW t \in Thr, IoStart(t) PROVE Returns'
  BY <1>4 DEF IoStart
<1>5. CASE MapNext
  BY <1>5, MapFrame
<1>6. ASSUME NEW t \in Thr, IoPin(t) PROVE Returns'
  BY <1>6 DEF IoPin
<1>7. ASSUME NEW t \in Thr, IoLookup(t) PROVE Returns'
  BY <1>7 DEF IoLookup
<1>8. ASSUME NEW t \in Thr, IoUndo(t) PROVE Returns'
  BY <1>8 DEF IoUndo, Drop
<1>9. ASSUME NEW t \in Thr, IoProg(t) PROVE Returns'
  BY <1>9 DEF IoProg, Transit
<1>10. ASSUME NEW t \in Thr, IoValid(t) PROVE Returns'
  BY <1>10 DEF IoValid
<1>11. ASSUME NEW t \in Thr, IoUnprog(t) PROVE Returns'
  BY <1>11 DEF IoUnprog, Transit
<1>12. ASSUME NEW t \in Thr, IoLoop(t) PROVE Returns'
  BY <1>12 DEF IoLoop
<1>13. ASSUME NEW t \in Thr, IoTail(t) PROVE Returns'
  BY <1>13 DEF IoTail
<1>14. ASSUME NEW e \in Executors, IoComplete(e) PROVE Returns'
  BY <1>14 DEF IoComplete, Advance
<1>15. ASSUME NEW e \in Executors, IoPut(e) PROVE Returns'
  BY <1>15 DEF IoPut, Drop
<1>16. ASSUME NEW e \in Executors, IoReady(e) PROVE Returns'
  BY <1>16 DEF IoReady, Transit
<1>17. ASSUME NEW e \in Executors, IoFence(e) PROVE Returns'
  BY <1>17 DEF IoFence
<1>18. ASSUME NEW e \in Executors, IoEnd(e) PROVE Returns'
  BY <1>18 DEF IoEnd
<1>19. CASE CloseNext
  BY <1>19, CloseFrame
<1>20. CASE CbNext
  BY <1>20, CbFrame
<1>21. CASE DmaUnmap
  BY <1>21 DEF DmaUnmap, Drop
<1>22. ASSUME NEW p \in Executors \cup {"map"}, TransitClaim(p) PROVE Returns'
  BY <1>22 DEF TransitClaim, CmpXchg
<1>23. ASSUME NEW p \in Executors \cup {"map"}, TransitPut(p) PROVE Returns'
  BY <1>23 DEF TransitPut, DropMap, Drop
<1>24. ASSUME NEW p \in Executors \cup {"map"}, TransitEnd(p) PROVE Returns'
  BY <1>24 DEF TransitEnd, Answer
<1>25. ASSUME NEW p \in Executors \cup {"map"}, TransitLog(p) PROVE Returns'
  BY <1>25 DEF TransitLog
<1>26. ASSUME NEW p \in Proc, FreeState(p) PROVE Returns'
  BY <1>26 DEF FreeState
<1>27. ASSUME NEW p \in Proc, FreeUnpin(p) PROVE Returns'
  BY <1>27 DEF FreeUnpin
<1>28. ASSUME NEW p \in Proc, FreePages(p) PROVE Returns'
  BY <1>28 DEF FreePages, PutPages
<1>29. ASSUME NEW p \in Proc, FreeOps(p) PROVE Returns'
  BY <1>29 DEF FreeOps
<1>30. ASSUME NEW p \in Proc, FreeDel(p) PROVE Returns'
  BY <1>30 DEF FreeDel
<1>31. CASE UNCHANGED vars
  BY <1>31 DEF vars, lvars
<1> HIDE Names, <1>0 DEF At, Goto, Returns, FreeLabels, TransitLabels,
   gvars, refs, gpu, locals
<1> QED
  BY <1>1, <1>2, <1>3, <1>4, <1>5, <1>6, <1>7, <1>8, <1>9, <1>10, <1>11,
     <1>12, <1>13, <1>14, <1>15, <1>16, <1>17, <1>18, <1>19, <1>20, <1>21,
     <1>22, <1>23, <1>24, <1>25, <1>26, <1>27, <1>28, <1>29, <1>30, <1>31
     DEF Next, EnvNext, Step, Stopped, IoNext, CompleteNext, TransitNext,
        FreeNext

(* A request completes only when everything it mapped is unmapped.         *)
LEMMA DmaInFlightStep ==
  ASSUME TypeOK, DmaInFlight, Serial, [Next]_vars
  PROVE  DmaInFlight'
<1>0. pc \in [Proc -> Labels] /\ dma_ref \in Nat
  BY DEF TypeOK
<1> USE Names, <1>0 DEF At, Goto, DmaInFlight, Serial, FreeLabels,
   TransitLabels, gvars, refs, gpu, locals
<1>1. CASE Mmap
  BY <1>1 DEF Mmap, lvars
<1>2. CASE MapStart \/ VmaClose \/ CbStart
  BY <1>2, StartFrame
<1>3. CASE DmaMap
  BY <1>3 DEF DmaMap, lvars
<1>4. ASSUME NEW t \in Thr, IoStart(t) PROVE DmaInFlight'
  BY <1>4 DEF IoStart
<1>5. CASE MapNext
  BY <1>5, MapFrame
<1>6. ASSUME NEW t \in Thr, IoPin(t) PROVE DmaInFlight'
  BY <1>6 DEF IoPin
<1>7. ASSUME NEW t \in Thr, IoLookup(t) PROVE DmaInFlight'
  BY <1>7 DEF IoLookup
<1>8. ASSUME NEW t \in Thr, IoUndo(t) PROVE DmaInFlight'
  BY <1>8 DEF IoUndo, Drop
<1>9. ASSUME NEW t \in Thr, IoProg(t) PROVE DmaInFlight'
  BY <1>9 DEF IoProg, Transit
<1>10. ASSUME NEW t \in Thr, IoValid(t) PROVE DmaInFlight'
  BY <1>10 DEF IoValid
<1>11. ASSUME NEW t \in Thr, IoUnprog(t) PROVE DmaInFlight'
  BY <1>11 DEF IoUnprog, Transit
<1>12. ASSUME NEW t \in Thr, IoLoop(t) PROVE DmaInFlight'
  BY <1>12 DEF IoLoop
<1>13. ASSUME NEW t \in Thr, IoTail(t) PROVE DmaInFlight'
  BY <1>13 DEF IoTail
<1>14. ASSUME NEW e \in Executors, IoComplete(e) PROVE DmaInFlight'
  BY <1>14 DEF IoComplete, Advance
<1>15. ASSUME NEW e \in Executors, IoPut(e) PROVE DmaInFlight'
  BY <1>15 DEF IoPut, Drop
<1>16. ASSUME NEW e \in Executors, IoReady(e) PROVE DmaInFlight'
  BY <1>16 DEF IoReady, Transit
<1>17. ASSUME NEW e \in Executors, IoFence(e) PROVE DmaInFlight'
  BY <1>17 DEF IoFence
<1>18. ASSUME NEW e \in Executors, IoEnd(e) PROVE DmaInFlight'
  BY <1>18 DEF IoEnd
<1>19. CASE CloseNext
  BY <1>19, CloseFrame
<1>20. CASE CbNext
  BY <1>20, CbFrame
<1>21. CASE DmaUnmap
  BY <1>21 DEF DmaUnmap, Drop
<1>22. ASSUME NEW p \in Executors \cup {"map"}, TransitClaim(p) PROVE
      DmaInFlight'
  BY <1>22 DEF TransitClaim, CmpXchg
<1>23. ASSUME NEW p \in Executors \cup {"map"}, TransitPut(p) PROVE
      DmaInFlight'
  BY <1>23 DEF TransitPut, DropMap, Drop
<1>24. ASSUME NEW p \in Executors \cup {"map"}, TransitEnd(p) PROVE
      DmaInFlight'
  BY <1>24 DEF TransitEnd, Answer
<1>25. ASSUME NEW p \in Executors \cup {"map"}, TransitLog(p) PROVE
      DmaInFlight'
  BY <1>25 DEF TransitLog
<1>26. ASSUME NEW p \in Proc, FreeState(p) PROVE DmaInFlight'
  BY <1>26 DEF FreeState
<1>27. ASSUME NEW p \in Proc, FreeUnpin(p) PROVE DmaInFlight'
  BY <1>27 DEF FreeUnpin
<1>28. ASSUME NEW p \in Proc, FreePages(p) PROVE DmaInFlight'
  BY <1>28 DEF FreePages, PutPages
<1>29. ASSUME NEW p \in Proc, FreeOps(p) PROVE DmaInFlight'
  BY <1>29 DEF FreeOps
<1>30. ASSUME NEW p \in Proc, FreeDel(p) PROVE DmaInFlight'
  BY <1>30 DEF FreeDel
<1>31. CASE UNCHANGED vars
  BY <1>31 DEF vars, lvars
<1> HIDE Names, <1>0 DEF At, Goto, DmaInFlight, Serial, FreeLabels,
   TransitLabels, gvars, refs, gpu, locals
<1> QED
  BY <1>1, <1>2, <1>3, <1>4, <1>5, <1>6, <1>7, <1>8, <1>9, <1>10, <1>11,
     <1>12, <1>13, <1>14, <1>15, <1>16, <1>17, <1>18, <1>19, <1>20, <1>21,
     <1>22, <1>23, <1>24, <1>25, <1>26, <1>27, <1>28, <1>29, <1>30, <1>31
     DEF Next, EnvNext, Step, Stopped, IoNext, CompleteNext, TransitNext,
        FreeNext

(* A buffer that munmap frees before nvfs_map() reached it is only ever    *)
(* freed further.                                                          *)
LEMMA AbandonedStep ==
  ASSUME TypeOK, Unborn, Returns, Abandoned, [Next]_vars
  PROVE  Abandoned'
<1>0. pc \in [Proc -> Labels]
  BY DEF TypeOK
<1> USE Names, <1>0 DEF At, Goto, Unborn, Abandoned, Freed, FreeLabels,
   gvars, refs, gpu, locals
<1>1. CASE Mmap
  BY <1>1 DEF Mmap, lvars
<1>2. CASE MapStart \/ VmaClose \/ CbStart
  BY <1>2, StartFrame
<1>3. CASE DmaMap
  BY <1>3 DEF DmaMap, lvars
<1>4. ASSUME NEW t \in Thr, IoStart(t) PROVE Abandoned'
  BY <1>4 DEF IoStart
<1>5. CASE MapNext
  BY <1>5, MapFrame
<1>6. ASSUME NEW t \in Thr, IoPin(t) PROVE Abandoned'
  BY <1>6 DEF IoPin
<1>7. ASSUME NEW t \in Thr, IoLookup(t) PROVE Abandoned'
  BY <1>7 DEF IoLookup
<1>8. ASSUME NEW t \in Thr, IoUndo(t) PROVE Abandoned'
  BY <1>8 DEF IoUndo, Drop
<1>9. ASSUME NEW t \in Thr, IoProg(t) PROVE Abandoned'
  BY <1>9 DEF IoProg, Transit
<1>10. ASSUME NEW t \in Thr, IoValid(t) PROVE Abandoned'
  BY <1>10 DEF IoValid
<1>11. ASSUME NEW t \in Thr, IoUnprog(t) PROVE Abandoned'
  BY <1>11 DEF IoUnprog, Transit
<1>12. ASSUME NEW t \in Thr, IoLoop(t) PROVE Abandoned'
  BY <1>12 DEF IoLoop
<1>13. ASSUME NEW t \in Thr, IoTail(t) PROVE Abandoned'
  BY <1>13 DEF IoTail
<1>14. ASSUME NEW e \in Executors, IoComplete(e) PROVE Abandoned'
  BY <1>14 DEF IoComplete, Advance
<1>15. ASSUME NEW e \in Executors, IoPut(e) PROVE Abandoned'
  BY <1>15 DEF IoPut, Drop
<1>16. ASSUME NEW e \in Executors, IoReady(e) PROVE Abandoned'
  BY <1>16 DEF IoReady, Transit
<1>17. ASSUME NEW e \in Executors, IoFence(e) PROVE Abandoned'
  BY <1>17 DEF IoFence
<1>18. ASSUME NEW e \in Executors, IoEnd(e) PROVE Abandoned'
  BY <1>18 DEF IoEnd
<1>19. CASE CloseNext
  BY <1>19, CloseFrame
<1>20. CASE CbNext
  BY <1>20, CbFrame
<1>21. CASE DmaUnmap
  BY <1>21 DEF DmaUnmap, Drop
<1>22. ASSUME NEW p \in Executors \cup {"map"}, TransitClaim(p) PROVE
      Abandoned'
  BY <1>22 DEF TransitClaim, CmpXchg
<1>23. ASSUME NEW p \in Executors \cup {"map"}, TransitPut(p) PROVE Abandoned'
  BY <1>23 DEF TransitPut, DropMap, Drop
<1>24. ASSUME NEW p \in Executors \cup {"map"}, TransitEnd(p) PROVE Abandoned'
  BY <1>24 DEF TransitEnd, Answer
<1>25. ASSUME NEW p \in Executors \cup {"map"}, TransitLog(p) PROVE Abandoned'
  BY <1>25 DEF TransitLog
<1>26. ASSUME NEW p \in Proc, FreeState(p) PROVE Abandoned'
  BY <1>26 DEF FreeState
<1>27. ASSUME NEW p \in Proc, FreeUnpin(p) PROVE Abandoned'
  BY <1>27 DEF FreeUnpin
<1>28. ASSUME NEW p \in Proc, FreePages(p) PROVE Abandoned'
  BY <1>28 DEF FreePages, PutPages
<1>29. ASSUME NEW p \in Proc, FreeOps(p) PROVE Abandoned'
  BY <1>29 DEF FreeOps
<1>30. ASSUME NEW p \in Proc, FreeDel(p) PROVE Abandoned'
  BY <1>30 DEF FreeDel, Returns
<1>31. CASE UNCHANGED vars
  BY <1>31 DEF vars, lvars
<1> HIDE Names, <1>0 DEF At, Goto, Unborn, Abandoned, Freed, FreeLabels,
   gvars, refs, gpu, locals
<1> QED
  BY <1>1, <1>2, <1>3, <1>4, <1>5, <1>6, <1>7, <1>8, <1>9, <1>10, <1>11,
     <1>12, <1>13, <1>14, <1>15, <1>16, <1>17, <1>18, <1>19, <1>20, <1>21,
     <1>22, <1>23, <1>24, <1>25, <1>26, <1>27, <1>28, <1>29, <1>30, <1>31
     DEF Next, EnvNext, Step, Stopped, IoNext, CompleteNext, TransitNext,
        FreeNext
=============================================================================
