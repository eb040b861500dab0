----------------------------- MODULE NvfsDmaMap -----------------------------
(***************************************************************************)
(* Mapping the GPU pages of one mgroup for the devices that serve its I/O. *)
(* Several queues of the storage driver map and unmap scatterlists at the  *)
(* same time.  nvfs_get_dma() keeps one p2p mapping per PCI device in a    *)
(* hash table; gpu_info->dma_mapping_in_progress lets one queue create a   *)
(* mapping while the others wait.  Every mapped entry is counted in        *)
(* nvfs_mgroup->dma_ref and holds a reference on the mgroup, which         *)
(* nvfs_check_gpu_page_and_error() drops when the entry is unmapped.       *)
(***************************************************************************)
EXTENDS Integers, FiniteSetsExt

CONSTANTS
  Queues,      \* hardware queues that map requests concurrently
  Peers,       \* PCI devices
  PeerOf,      \* the device of a queue
  MapFails,    \* kmalloc() or nvidia_p2p_dma_map_pages() may fail
  Gaps,        \* an entry longer than a GPU page may span DMA addresses that
               \* are not contiguous (not NVMe, which passes no length)
  UnmapFailed, \* whether the driver also unmaps a scatterlist that failed
               \* to map: what there is
  MaxNents,    \* bound: entries of a scatterlist
  MaxReqs      \* bound: requests of one I/O

ASSUME PeerAssumption == PeerOf \in [Queues -> Peers]
ASSUME FlagAssumption == /\ MapFails \in BOOLEAN /\ Gaps \in BOOLEAN
                         /\ UnmapFailed \subseteq BOOLEAN
ASSUME BoundAssumption == MaxNents \in Nat \ {0} /\ MaxReqs \in Nat

VARIABLES
  unmaps,      \* what this driver does with a scatterlist that failed to map
  io,          \* an I/O is in flight on the mgroup
  torn,        \* the buffer was torn down
  ref,         \* nvfs_mgroup->ref, the mapping and the I/O included
  dma_ref,     \* nvfs_mgroup->dma_ref
  dma_mapping_in_progress,
  buckets,     \* gpu_info->buckets: the number of mappings per device
  reqs,        \* requests the I/O has issued
  pc,
  nents,       \* entries of the scatterlist of a queue
  pos,         \* entry the queue is at
  dma_mapping  \* what nvfs_get_p2p_dma_mapping() returns: found or NULL

counts == <<ref, dma_ref>>
local == <<nents, pos, dma_mapping>>
vars == <<unmaps, io, torn, counts, dma_mapping_in_progress, buckets, reqs, pc, local>>

(* nvfs_get_p2p_dma_mapping() while it owns dma_mapping_in_progress; and   *)
(* nvfs_get_dma() while it holds the reference of nvfs_mgroup_from_page(). *)
Critical == {"g_alloc", "g_map", "g_add", "g_done"}
Looking == {"g_look", "g_flag", "g_wait", "g_use", "g_exit"} \cup Critical
Labels == {"idle", "g_page", "g_gap", "busy", "failed", "u_page", "u_dec",
           "u_both", "u_put"} \cup Looking

Init ==
  /\ unmaps \in UnmapFailed
  /\ io = FALSE /\ torn = FALSE /\ ref = 1 /\ dma_ref = 0
  /\ dma_mapping_in_progress = 0 /\ reqs = 0
  /\ buckets = [d \in Peers |-> 0]
  /\ pc = [q \in Queues |-> "idle"]
  /\ nents = [q \in Queues |-> 0]
  /\ pos = [q \in Queues |-> 0]
  /\ dma_mapping = [q \in Queues |-> FALSE]

At(q, l) == pc[q] = l
Goto(q, l) == pc' = [pc EXCEPT ![q] = l]
Quiet == \A q \in Queues : At(q, "idle")

-----------------------------------------------------------------------------
(* The I/O around the requests, and the end of the buffer.                 *)
IoBegin ==
  /\ ~io /\ ~torn
  /\ io' = TRUE /\ ref' = ref + 1 /\ reqs' = 0
  /\ UNCHANGED <<unmaps, torn, dma_ref, dma_mapping_in_progress, buckets, pc,
                 local>>

IoEnd ==
  /\ io /\ Quiet
  /\ io' = FALSE /\ ref' = ref - 1
  /\ UNCHANGED <<unmaps, torn, dma_ref, dma_mapping_in_progress, buckets, reqs,
                 pc, local>>

(* nvfs_free_gpu_info() or the free callback: every mapping is freed.      *)
Teardown ==
  /\ ~io /\ ~torn
  /\ torn' = TRUE /\ buckets' = [d \in Peers |-> 0]
  /\ UNCHANGED <<unmaps, io, counts, dma_mapping_in_progress, reqs, pc, local>>

Submit(q) ==
  /\ io /\ At(q, "idle") /\ reqs < MaxReqs
  /\ \E n \in 1..MaxNents : nents' = [nents EXCEPT ![q] = n]
  /\ pos' = [pos EXCEPT ![q] = 1]
  /\ reqs' = reqs + 1
  /\ Goto(q, "g_page")
  /\ UNCHANGED <<unmaps, io, torn, counts, dma_mapping_in_progress, buckets,
                 dma_mapping>>

-----------------------------------------------------------------------------
(* nvfs_get_dma() on one entry: nvfs_mgroup_from_page() ...                *)
GetPage(q) ==
  /\ At(q, "g_page")
  /\ ref' = ref + 1
  /\ Goto(q, "g_look")
  /\ UNCHANGED <<unmaps, io, torn, dma_ref, dma_mapping_in_progress, buckets,
                 reqs, local>>

Found(q) == buckets[PeerOf[q]] > 0

(* ... nvfs_get_p2p_dma_mapping(): use the mapping of this device ...      *)
Lookup(q) ==
  /\ At(q, "g_look")
  /\ dma_mapping' = [dma_mapping EXCEPT ![q] = Found(q)]
  /\ Goto(q, IF Found(q) THEN "g_use" ELSE "g_flag")
  /\ UNCHANGED <<unmaps, io, torn, counts, dma_mapping_in_progress, buckets,
                 reqs, nents, pos>>

(* ... or become the one that creates it, or wait and look again ...       *)
Claim(q) ==
  /\ At(q, "g_flag")
  /\ IF dma_mapping_in_progress = 0
       THEN dma_mapping_in_progress' = 1 /\ Goto(q, "g_alloc")
       ELSE UNCHANGED dma_mapping_in_progress /\ Goto(q, "g_wait")
  /\ UNCHANGED <<unmaps, io, torn, counts, buckets, reqs, local>>

Wait(q) ==
  /\ At(q, "g_wait") /\ dma_mapping_in_progress = 0
  /\ Goto(q, "g_look")
  /\ UNCHANGED <<unmaps, io, torn, counts, dma_mapping_in_progress, buckets,
                 reqs, local>>

(* Mutant: the owner does not look again.                                  *)
RecheckNot(q) == FALSE

(* "Check if we are not racing with someone else".                         *)
Recheck(q) == Found(q)

(* ... the owner looks again, since the mapping may have appeared between  *)
(* its lookup and its claim ...                                            *)
Alloc(q) ==
  /\ At(q, "g_alloc")
  /\ \/ /\ MapFails /\ Goto(q, "g_done")
        /\ UNCHANGED dma_mapping
     \/ /\ Goto(q, IF Recheck(q) THEN "g_done" ELSE "g_map")
        /\ dma_mapping' = [dma_mapping EXCEPT ![q] = Recheck(q)]
  /\ UNCHANGED <<unmaps, io, torn, counts, dma_mapping_in_progress, buckets,
                 reqs, nents, pos>>

(* ... nvfs_get_dma_address(), which may sleep ...                         *)
MapPages(q) ==
  /\ At(q, "g_map")
  /\ \/ Goto(q, "g_add")
     \/ MapFails /\ Goto(q, "g_done")
  /\ UNCHANGED <<unmaps, io, torn, counts, dma_mapping_in_progress, buckets,
                 reqs, local>>

(* ... hash_add_rcu() ...                                                  *)
Add(q) ==
  /\ At(q, "g_add")
  /\ buckets' = [buckets EXCEPT ![PeerOf[q]] = @ + 1]
  /\ dma_mapping' = [dma_mapping EXCEPT ![q] = TRUE]
  /\ Goto(q, "g_done")
  /\ UNCHANGED <<unmaps, io, torn, counts, dma_mapping_in_progress, reqs,
                 nents, pos>>

Clear(q) == dma_mapping_in_progress' = 0

(* Mutant: the caller does not check for NULL.                             *)
AnyMapping(q) == TRUE

HasMapping(q) == dma_mapping[q]

(* Mutant: a mapping that failed is tried again.                           *)
MapDoneRetries(q) ==
  /\ At(q, "g_done")
  /\ Clear(q)
  /\ Goto(q, IF HasMapping(q) THEN "g_use" ELSE "g_look")
  /\ UNCHANGED <<unmaps, io, torn, counts, buckets, reqs, local>>

(* ... and the flag is cleared and the waiters are woken, on every path.   *)
MapDone(q) ==
  /\ At(q, "g_done")
  /\ Clear(q)
  /\ Goto(q, IF HasMapping(q) THEN "g_use" ELSE "g_exit")
  /\ UNCHANGED <<unmaps, io, torn, counts, buckets, reqs, local>>

Count == dma_ref' = dma_ref + 1

(* The entry is counted; then an entry longer than a GPU page is checked   *)
(* against the DMA addresses.                                              *)
Use(q) ==
  /\ At(q, "g_use")
  /\ Count
  /\ \/ /\ Goto(q, IF pos[q] = nents[q] THEN "busy" ELSE "g_page")
        /\ pos' = [pos EXCEPT ![q] = IF @ = nents[q] THEN @ ELSE @ + 1]
     \/ /\ Gaps /\ Goto(q, "g_gap")
        /\ UNCHANGED pos
  /\ UNCHANGED <<unmaps, io, torn, ref, dma_mapping_in_progress, buckets, reqs,
                 nents, dma_mapping>>

(* Mutant: the error exit keeps the reference.                             *)
ExitKeeps == UNCHANGED ref

ExitPut == ref' = ref - 1

(* The exit of nvfs_get_dma() on an error.                                 *)
Exit(q) ==
  /\ pc[q] \in {"g_exit", "g_gap"}
  /\ ExitPut
  /\ Goto(q, "failed")
  /\ UNCHANGED <<unmaps, io, torn, dma_ref, dma_mapping_in_progress, buckets,
                 reqs, local>>

-----------------------------------------------------------------------------
(* The request completes, or the driver gives up a scatterlist that        *)
(* nvfs_dma_map_sg_attrs() failed to map; nvfs_dma_unmap_sg() is called    *)
(* with all its entries.                                                   *)
Finish(q) ==
  /\ \/ At(q, "busy") /\ Goto(q, "u_page")
     \/ At(q, "failed") /\ Goto(q, IF unmaps THEN "u_page" ELSE "idle")
  /\ pos' = [pos EXCEPT ![q] = 1]
  /\ UNCHANGED <<unmaps, io, torn, counts, dma_mapping_in_progress, buckets,
                 reqs, nents, dma_mapping>>

(* nvfs_check_gpu_page_and_error(): take a reference ...                   *)
UnmapPage(q) ==
  /\ At(q, "u_page")
  /\ ref' = ref + 1
  /\ Goto(q, "u_dec")
  /\ UNCHANGED <<unmaps, io, torn, dma_ref, dma_mapping_in_progress, buckets,
                 reqs, local>>

(* atomic_dec_if_positive().                                               *)
Dec(q) == IF dma_ref > 0
            THEN dma_ref' = dma_ref - 1 /\ Goto(q, "u_both")
            ELSE UNCHANGED dma_ref /\ Goto(q, "u_put")

(* ... uncount an entry ...                                                *)
UnmapDec(q) ==
  /\ At(q, "u_dec")
  /\ Dec(q)
  /\ UNCHANGED <<unmaps, io, torn, ref, dma_mapping_in_progress, buckets, reqs,
                 local>>

(* Mutant: the last entry of the scatterlist is left out.                  *)
UnmappedButOne(q) == pos[q] + 1 >= nents[q]

UnmappedAll(q) == pos[q] = nents[q]

(* ... and drop its reference, if there was one, and the own one.  Page    *)
(* lookups do not fail here: what nvfs_dma_unmap_sg() does for a page that *)
(* nvfs_check_gpu_page_and_error() answers with -1, to return at once, is  *)
(* left out.                                                               *)
UnmapPut(q) ==
  /\ ref' = ref - 1
  /\ \/ At(q, "u_both") /\ Goto(q, "u_put") /\ UNCHANGED pos
     \/ /\ At(q, "u_put")
        /\ Goto(q, IF UnmappedAll(q) THEN "idle" ELSE "u_page")
        /\ pos' = [pos EXCEPT ![q] = IF UnmappedAll(q) THEN @ ELSE @ + 1]
  /\ UNCHANGED <<unmaps, io, torn, dma_ref, dma_mapping_in_progress, buckets,
                 reqs, nents, dma_mapping>>

-----------------------------------------------------------------------------
Step(q) == \/ GetPage(q) \/ Lookup(q) \/ Claim(q) \/ Wait(q) \/ Alloc(q)
           \/ MapPages(q) \/ Add(q) \/ MapDone(q) \/ Use(q) \/ Exit(q)
           \/ Finish(q) \/ UnmapPage(q) \/ UnmapDec(q) \/ UnmapPut(q)

Stopped == torn /\ UNCHANGED vars

Next == \/ IoBegin \/ IoEnd \/ Teardown \/ Stopped
        \/ \E q \in Queues : Submit(q) \/ Step(q)

Spec == Init /\ [][Next]_vars

(* A driver that has started to map, serve or unmap a request goes on with *)
(* it.                                                                     *)
FairSpec == Spec /\ \A q \in Queues : WF_vars(Step(q))

-----------------------------------------------------------------------------
(* Types; dma_ref is never negative.                                       *)
TypeOK ==
  /\ unmaps \in BOOLEAN /\ io \in BOOLEAN /\ torn \in BOOLEAN
  /\ ref \in Int /\ dma_ref \in Nat
  /\ dma_mapping_in_progress \in {0, 1}
  /\ buckets \in [Peers -> Nat] /\ reqs \in Nat
  /\ pc \in [Queues -> Labels]
  /\ nents \in [Queues -> Nat] /\ pos \in [Queues -> Nat]
  /\ dma_mapping \in [Queues -> BOOLEAN]

(* A device never gets a second p2p mapping of the same GPU memory, however *)
(* the queues race through the lookup, the claim and the second lookup.    *)
OneMapping == \A d \in Peers : buckets[d] <= 1

(* A queue that was given a mapping finds it in the hash table until its   *)
(* request is unmapped: it is not freed under a DMA.                       *)
MappingLive ==
  \A q \in Queues : pc[q] \in {"g_use", "g_gap", "busy"} => Found(q)

(* Why these two hold.  The owner of dma_mapping_in_progress is alone; the *)
(* device has no mapping from the owner's second lookup to hash_add_rcu(); *)
(* what the owner returns is in the table or NULL; and no queue is at work *)
(* between I/Os, when the table may be emptied.                            *)
MapInv ==
  /\ OneMapping
  /\ MappingLive
  /\ \A q \in Queues : pc[q] \in Critical => dma_mapping_in_progress = 1
  /\ \A q, r \in Queues : pc[q] \in Critical /\ pc[r] \in Critical => q = r
  /\ \A q \in Queues : pc[q] \in {"g_map", "g_add"} => ~Found(q)
  /\ \A q \in Queues : pc[q] \in {"g_flag", "g_alloc", "g_map"}
                         => ~dma_mapping[q]
  /\ \A q \in Queues : pc[q] = "g_done" /\ dma_mapping[q] => Found(q)
  /\ ~io => Quiet

(* The references on the mgroup: one of nvfs_map(), one of the I/O, one    *)
(* for every entry that dma_ref counts, and those of the calls under way.  *)
Held(q) == IF pc[q] \in Looking \cup {"u_dec", "u_put"} THEN 1
           ELSE IF pc[q] = "u_both" THEN 2 ELSE 0

RefBalance == ref = 1 + (IF io THEN 1 ELSE 0) + dma_ref
                    + MapThenSumSet(Held, Queues)

(* Every queue that starts to map a request gets an answer, whether it     *)
(* waits for another queue's mapping or that mapping fails.                *)
MapReturns == \A q \in Queues : At(q, "g_page") ~> pc[q] \in {"busy", "failed"}

(* The entries a queue has mapped for DMA and not unmapped.                *)
InDma(q) == CASE pc[q] \in Looking \cup {"g_page", "g_gap"} -> pos[q] - 1
              [] pc[q] = "busy" -> nents[q]
              [] OTHER -> 0

(* dma_ref counts an entry while it is mapped, so that the mgroup outlasts *)
(* the DMA of every queue, and no longer: when all requests are done none  *)
(* is left.  The first needs drivers that unmap only what was mapped, as   *)
(* unmapping a scatterlist that failed drops the references of another     *)
(* queue's entries; the second holds of those that do not, too.            *)
EntryHeld ==
  /\ ~unmaps => dma_ref >= MapThenSumSet(InDma, Queues)
  /\ unmaps /\ Quiet => dma_ref = 0
=============================================================================
