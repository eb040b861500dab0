-------------------------- MODULE NvfsDmaMapProofs --------------------------
(***************************************************************************)
(* Theorems about NvfsDmaMap, for any number of queues and devices, any    *)
(* scatterlists and any failures: nvfs_get_p2p_dma_mapping() creates at    *)
(* most one mapping per device, and a mapping is not freed under a DMA.    *)
(***************************************************************************)
EXTENDS NvfsDmaMap, TLAPS

(* A step to a label keeps the type of pc.                                 *)
LEMMA GotoType ==
  ASSUME pc \in [Queues -> Labels], NEW q \in Queues, NEW l \in Labels,
         Goto(q, l)
  PROVE  pc' \in [Queues -> Labels]
BY DEF Goto

(* Setting dma_mapping of a queue to a Boolean keeps its type.             *)
LEMMA MappingType ==
  ASSUME dma_mapping \in [Queues -> BOOLEAN], NEW q \in Queues,
         NEW b \in BOOLEAN, dma_mapping' = [dma_mapping EXCEPT ![q] = b]
  PROVE  dma_mapping' \in [Queues -> BOOLEAN]
BY Zenon

(* Found() is a Boolean.                                                   *)
LEMMA FoundType ==
  ASSUME NEW q \in Queues
  PROVE  Found(q) \in BOOLEAN /\ Recheck(q) \in BOOLEAN
BY DEF Found, Recheck

(* The initial state has the types of TypeOK.                              *)
LEMMA InitType == Init => TypeOK
<1> SUFFICES ASSUME Init PROVE TypeOK
  OBVIOUS
<1>1. dma_mapping \in [Queues -> BOOLEAN]
  BY Zenon DEF Init
<1>2. io \in BOOLEAN /\ torn \in BOOLEAN
  BY DEF Init
<1>3. pc \in [Queues -> Labels]
  BY DEF Init, Labels
<1>4. unmaps \in BOOLEAN
  BY FlagAssumption DEF Init
<1>. QED
  BY <1>1, <1>2, <1>3, <1>4 DEF Init, TypeOK

(* Every step keeps the types; atomic_dec_if_positive() keeps dma_ref from *)
(* going negative.                                                         *)
LEMMA NextType == TypeOK /\ [Next]_vars => TypeOK'
<1> SUFFICES ASSUME TypeOK, [Next]_vars PROVE TypeOK'
  OBVIOUS
<1> USE DEF TypeOK
<1>1. CASE UNCHANGED vars
  BY <1>1 DEF vars, counts, local
<1>2. CASE IoBegin
  BY <1>2 DEF IoBegin, local
<1>3. CASE IoEnd
  <2>1. io' \in BOOLEAN
    BY <1>3, Zenon DEF IoEnd
  <2>2. ref' = ref - 1
    BY <1>3, Zenon DEF IoEnd
  <2>3. ref' \in Int
    BY <2>2
  <2>4. UNCHANGED <<unmaps, torn, dma_ref, dma_mapping_in_progress, buckets,
                    reqs, pc, nents, pos, dma_mapping>>
    BY <1>3, Zenon DEF IoEnd, local
  <2>. QED
    BY <2>1, <2>3, <2>4
<1>4. CASE Teardown
  BY <1>4 DEF Teardown, counts, local
<1>5. ASSUME NEW q \in Queues, Submit(q) PROVE TypeOK'
  <2>1. pc' \in [Queues -> Labels]
    BY <1>5, GotoType DEF Submit, Labels
  <2>2. PICK n \in 1..MaxNents : nents' = [nents EXCEPT ![q] = n]
    BY <1>5 DEF Submit
  <2>3. n \in Nat
    BY <2>2, BoundAssumption
  <2>4. nents' \in [Queues -> Nat]
    BY <2>2, <2>3
  <2>5. pos' \in [Queues -> Nat] /\ reqs' \in Nat
    BY <1>5 DEF Submit
  <2>. QED
    BY <1>5, <2>1, <2>4, <2>5 DEF Submit, counts
<1>6. ASSUME NEW q \in Queues, Step(q) PROVE TypeOK'
  <2>1. CASE GetPage(q) \/ Wait(q) \/ UnmapPage(q)
    BY <2>1, GotoType DEF GetPage, Wait, UnmapPage, Labels, Looking, counts,
                          local
  <2>2. CASE Lookup(q)
    <3>1. dma_mapping' \in [Queues -> BOOLEAN]
      BY <2>2, MappingType, FoundType, Zenon DEF Lookup
    <3>2. pc' \in [Queues -> Labels]
      BY <2>2, GotoType DEF Lookup, Labels, Looking
    <3>. QED
      BY <2>2, <3>1, <3>2 DEF Lookup, counts
  <2>3. CASE Claim(q)
    <3>1. pc' \in [Queues -> Labels]
      BY <2>3, GotoType DEF Claim, Labels, Looking, Critical
    <3>. QED
      BY <2>3, <3>1 DEF Claim, counts, local
  <2>4. CASE Alloc(q)
    <3>1. dma_mapping' \in [Queues -> BOOLEAN]
      <4>1. CASE UNCHANGED dma_mapping
        BY <4>1
      <4>2. CASE dma_mapping' = [dma_mapping EXCEPT ![q] = Recheck(q)]
        BY <4>2, MappingType, FoundType, Zenon
      <4>. QED
        BY <2>4, <4>1, <4>2 DEF Alloc
    <3>2. pc' \in [Queues -> Labels]
      BY <2>4, GotoType DEF Alloc, Labels, Looking, Critical
    <3>. QED
      BY <2>4, <3>1, <3>2 DEF Alloc, counts
  <2>5. CASE MapPages(q)
    <3>1. pc' \in [Queues -> Labels]
      BY <2>5, GotoType DEF MapPages, Labels, Looking, Critical
    <3>. QED
      BY <2>5, <3>1 DEF MapPages, counts, local
  <2>6. CASE Add(q)
    <3>1. dma_mapping' \in [Queues -> BOOLEAN]
      BY <2>6, MappingType, Zenon DEF Add
    <3>2. pc' \in [Queues -> Labels]
      BY <2>6, GotoType DEF Add, Labels, Looking, Critical
    <3>3. buckets' \in [Peers -> Nat]
      <4>1. PeerOf[q] \in Peers
        BY PeerAssumption
      <4>2. buckets[PeerOf[q]] + 1 \in Nat
        BY <4>1
      <4>3. buckets' = [buckets EXCEPT ![PeerOf[q]] = buckets[PeerOf[q]] + 1]
        BY <2>6 DEF Add
      <4>. QED
        BY <4>2, <4>3
    <3>. QED
      BY <2>6, <3>1, <3>2, <3>3 DEF Add, counts
  <2>7. CASE MapDone(q)
    <3>1. pc' \in [Queues -> Labels]
      BY <2>7, GotoType DEF MapDone, Labels, Looking
    <3>. QED
      BY <2>7, <3>1 DEF MapDone, Clear, counts, local
  <2>8. CASE Use(q)
    <3>1. pc' \in [Queues -> Labels]
      BY <2>8, GotoType DEF Use, Labels
    <3>2. pos' \in [Queues -> Nat]
      BY <2>8 DEF Use
    <3>. QED
      BY <2>8, <3>1, <3>2 DEF Use, Count
  <2>9. CASE Exit(q)
    BY <2>9, GotoType DEF Exit, ExitPut, Labels, local
  <2>10. CASE Finish(q)
    <3>1. pc' \in [Queues -> Labels]
      BY <2>10, GotoType DEF Finish, Labels
    <3>. QED
      BY <2>10, <3>1 DEF Finish, counts
  <2>11. CASE UnmapDec(q)
    <3>1. pc' \in [Queues -> Labels]
      BY <2>11, GotoType DEF UnmapDec, Dec, Labels
    <3>. QED
      BY <2>11, <3>1 DEF UnmapDec, Dec, local
  <2>12. CASE UnmapPut(q)
    <3>1. pc' \in [Queues -> Labels]
      BY <2>12, GotoType DEF UnmapPut, Labels
    <3>2. pos' \in [Queues -> Nat]
      BY <2>12 DEF UnmapPut
    <3>. QED
      BY <2>12, <3>1, <3>2 DEF UnmapPut
  <2>. QED
    BY <1>6, <2>1, <2>2, <2>3, <2>4, <2>5, <2>6, <2>7, <2>8, <2>9, <2>10,
       <2>11, <2>12 DEF Step
<1>. QED
  BY <1>1, <1>2, <1>3, <1>4, <1>5, <1>6 DEF Next, Stopped

(* The variables of nvfs_get_dma() and of the unmapping keep their types;  *)
(* dma_ref never goes negative, also when the driver unmaps scatterlists   *)
(* that were never mapped.                                                 *)
THEOREM TypeCorrect == Spec => []TypeOK
BY InitType, NextType, PTL DEF Spec

-----------------------------------------------------------------------------
(* The part of MapInv that is about the flag: its owner is alone.          *)
Alone ==
  /\ \A q \in Queues : pc[q] \in Critical => dma_mapping_in_progress = 1
  /\ \A q, r \in Queues : pc[q] \in Critical /\ pc[r] \in Critical => q = r

(* The part of MapInv that is about the table.                             *)
Table ==
  /\ OneMapping
  /\ MappingLive
  /\ \A q \in Queues : pc[q] \in {"g_map", "g_add"} => ~Found(q)
  /\ \A q \in Queues : pc[q] \in {"g_flag", "g_alloc", "g_map"}
                         => ~dma_mapping[q]
  /\ \A q \in Queues : pc[q] = "g_done" /\ dma_mapping[q] => Found(q)

(* The parts make MapInv.                                                  *)
LEMMA Parts == MapInv <=> Alone /\ Table /\ (~io => Quiet)
BY DEF MapInv, Alone, Table

(* A step of a queue outside the owner's section leaves the flag's part of *)
(* the invariant: only the owner and the cmpxchg touch the flag.           *)
LEMMA AloneStep ==
  ASSUME TypeOK, Alone, NEW q \in Queues, Step(q)
  PROVE  Alone'
<1> USE DEF TypeOK, Alone, Critical, Goto, At
<1>1. CASE GetPage(q) \/ Lookup(q) \/ Wait(q)
  BY <1>1 DEF GetPage, Lookup, Wait
<1>2. CASE Claim(q)
  BY <1>2 DEF Claim
<1>3. CASE Alloc(q) \/ MapPages(q) \/ Add(q)
  BY <1>3 DEF Alloc, MapPages, Add
<1>4. CASE MapDone(q)
  BY <1>4 DEF MapDone, Clear
<1>5. CASE Use(q) \/ Exit(q) \/ Finish(q)
  BY <1>5 DEF Use, Exit, Finish
<1>6. CASE UnmapPage(q) \/ UnmapDec(q) \/ UnmapPut(q)
  BY <1>6 DEF UnmapPage, UnmapDec, Dec, UnmapPut
<1>. QED
  BY <1>1, <1>2, <1>3, <1>4, <1>5, <1>6 DEF Step

(* A step of a queue leaves the table's part: the owner adds a mapping     *)
(* only where its second lookup found none, and nobody else adds any.      *)
LEMMA TableStep ==
  ASSUME TypeOK, Alone, Table, NEW q \in Queues, Step(q)
  PROVE  Table'
<1> USE DEF TypeOK, Table, OneMapping, MappingLive, Goto, At, Found
<1>1. CASE GetPage(q) \/ Claim(q) \/ Wait(q)
  BY <1>1 DEF GetPage, Claim, Wait, local
<1>2. CASE Lookup(q)
  BY <1>2 DEF Lookup
<1>3. CASE Alloc(q)
  <2>1. CASE UNCHANGED dma_mapping /\ Goto(q, "g_done")
    BY <1>3, <2>1 DEF Alloc
  <2>2. CASE /\ Goto(q, IF Recheck(q) THEN "g_done" ELSE "g_map")
             /\ dma_mapping' = [dma_mapping EXCEPT ![q] = Recheck(q)]
    <3>1. CASE Recheck(q)
      BY <1>3, <2>2, <3>1 DEF Alloc, Recheck
    <3>2. CASE ~Recheck(q)
      BY <1>3, <2>2, <3>2 DEF Alloc, Recheck
    <3>. QED
      BY <3>1, <3>2
  <2>. QED
    BY <1>3, <2>1, <2>2 DEF Alloc
<1>4. CASE MapPages(q)
  BY <1>4 DEF MapPages, local
<1>5. CASE Add(q)
  <2>1. PeerOf \in [Queues -> Peers]
    BY PeerAssumption
  <2>2. pc[q] = "g_add" /\ pc' = [pc EXCEPT ![q] = "g_done"]
    BY <1>5 DEF Add
  <2>3. buckets[PeerOf[q]] = 0
    BY <2>1, <2>2
  <2>4. buckets' = [buckets EXCEPT ![PeerOf[q]] = 1]
    BY <1>5, <2>1, <2>3 DEF Add
  <2>5. OneMapping' /\ MappingLive'
    BY <2>1, <2>2, <2>4
  <2>6. \A r \in Queues \ {q} : pc[r] \notin Critical
    BY <2>2 DEF Alone, Critical
  <2>7. \A r \in Queues : pc'[r] \in {"g_map", "g_add"} => ~Found(r)'
    BY <2>2, <2>6 DEF Critical
  <2>8. \A r \in Queues \ {q} : dma_mapping'[r] = dma_mapping[r]
    BY <1>5, Zenon DEF Add
  <2>9. \A r \in Queues : pc'[r] \in {"g_flag", "g_alloc", "g_map"}
                            => ~dma_mapping'[r]
    BY <2>2, <2>8
  <2>10. \A r \in Queues : pc'[r] = "g_done" => Found(r)'
    BY <2>1, <2>2, <2>4, <2>6 DEF Critical
  <2>. QED
    BY <2>5, <2>7, <2>9, <2>10
<1>6. CASE MapDone(q)
  BY <1>6 DEF MapDone, HasMapping, local
<1>7. CASE Use(q) \/ Exit(q) \/ Finish(q)
  BY <1>7 DEF Use, Exit, Finish, local
<1>8. CASE UnmapPage(q) \/ UnmapDec(q) \/ UnmapPut(q)
  BY <1>8 DEF UnmapPage, UnmapDec, Dec, UnmapPut, local
<1>. QED
  BY <1>1, <1>2, <1>3, <1>4, <1>5, <1>6, <1>7, <1>8 DEF Step

(* MapInv is inductive.                                                    *)
LEMMA NextMapInv == TypeOK /\ MapInv /\ [Next]_vars => MapInv'
<1> SUFFICES ASSUME TypeOK, MapInv, [Next]_vars PROVE MapInv'
  OBVIOUS
<1>1. CASE UNCHANGED vars
  BY <1>1 DEF vars, counts, local, MapInv, OneMapping, MappingLive, Found,
              Quiet, At
<1>2. CASE IoBegin
  BY <1>2 DEF IoBegin, local, MapInv, OneMapping, MappingLive, Found
<1>3. CASE IoEnd
  BY <1>3 DEF IoEnd, local, MapInv, OneMapping, MappingLive, Found, Quiet, At
<1>4. CASE Teardown
  BY <1>4, PeerAssumption
     DEF Teardown, counts, local, TypeOK, MapInv, OneMapping, MappingLive,
         Found, Quiet, At, Critical
<1>5. ASSUME NEW q \in Queues, Submit(q) PROVE MapInv'
  <2>1. io' /\ UNCHANGED <<buckets, dma_mapping, dma_mapping_in_progress>>
    BY <1>5 DEF Submit
  <2>2. pc' = [pc EXCEPT ![q] = "g_page"]
    BY <1>5 DEF Submit, Goto
  <2>3. Alone'
    BY <2>1, <2>2, Parts DEF Alone, Critical, TypeOK
  <2>4. Table'
    BY <2>1, <2>2, Parts DEF Table, OneMapping, MappingLive, Found, TypeOK
  <2>. QED
    BY <2>1, <2>3, <2>4 DEF MapInv, Alone, Table
<1>6. ASSUME NEW q \in Queues, Step(q) PROVE MapInv'
  <2>1. Alone' /\ Table'
    BY <1>6, Parts, AloneStep, TableStep
  <2>2. pc[q] # "idle"
    BY <1>6 DEF Step, GetPage, Lookup, Claim, Wait, Alloc, MapPages, Add,
                MapDone, Use, Exit, Finish, UnmapPage, UnmapDec, UnmapPut, At
  <2>3. io
    BY <2>2 DEF MapInv, Quiet, At
  <2>4. io' = io
    BY <1>6 DEF Step, GetPage, Lookup, Claim, Wait, Alloc, MapPages, Add,
                MapDone, Use, Exit, Finish, UnmapPage, UnmapDec, UnmapPut
  <2>. QED
    BY <2>1, <2>3, <2>4 DEF MapInv, Alone, Table
<1>. QED
  BY <1>1, <1>2, <1>3, <1>4, <1>5, <1>6 DEF Next, Stopped

(* nvfs_get_p2p_dma_mapping() is right for every interleaving of the       *)
(* queues: the owner of the flag is alone and what it found is still so.   *)
THEOREM MapInvariant == Spec => []MapInv
<1>1. Init => MapInv
  BY DEF Init, MapInv, OneMapping, MappingLive, Found, Critical, Quiet, At
<1>. QED
  BY <1>1, NextMapInv, TypeCorrect, PTL DEF Spec

(* A device never gets a second mapping of the GPU memory.                 *)
THEOREM OneMappingHolds == Spec => []OneMapping
<1>1. MapInv => OneMapping
  BY DEF MapInv
<1>. QED
  BY <1>1, MapInvariant, PTL

(* The mapping that a queue was given stays in the table until its request *)
(* is unmapped.                                                            *)
THEOREM MappingStaysLive == Spec => []MappingLive
<1>1. MapInv => MappingLive
  BY DEF MapInv
<1>. QED
  BY <1>1, MapInvariant, PTL
=============================================================================
