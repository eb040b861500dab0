------------------------------ MODULE NvfsSgList ------------------------------
(***************************************************************************)
(* How the driver turns one block request into DMA segments (nvfs-dma.c).  *)
(*                                                                         *)
(* Two interfaces do it.  With the older one ("nvme", and "scsi" for other *)
(* drivers) nvfs_blk_rq_map_sg coalesces the request's pages into a        *)
(* scatterlist, by the physical addresses of the GPU pages behind them,    *)
(* and nvfs_dma_map_sg_attrs then gives each entry a DMA address; a driver *)
(* may also build the list itself ("own").  With the newer one ("iter")    *)
(* each call of the block layer's DMA iterator coalesces one segment and   *)
(* maps it at once.                                                        *)
(*                                                                         *)
(* Sizes are in 4K blocks; a shadow page is one block.  A bio_vec is       *)
(* [page, len]; a page is its index in the shadow buffer, or Cpu.          *)
(***************************************************************************)
EXTENDS Integers, FiniteSets, SequencesExt

CONSTANTS GpuBlocks,    \* blocks in a GPU page (16 in the code)
          ContigOf,     \* NVFS_P2P_MAX_CONTIG_GPU_PAGES, in the buffers that
                        \* each interface is used with
          MaxSegs,      \* NVME_MAX_SEGS
          MaxSegBlocks, \* queue_max_segment_size
          Modes,        \* interfaces in use: "nvme", "scsi", "own", "iter"
          Tables,       \* GPU page tables: functions 0 .. n-1 -> page numbers
          Bases,        \* values of nvfsio.cur_gpu_base_index
          RequestsOf,   \* the requests each is used with: sequences of
                        \* bio_vecs, or of entries of the driver's own list
          NrPhys,       \* values of blk_rq_nr_phys_segments
          SmmuOnly,     \* the IOMMU keeps addresses together as Smmu says
          FaultsOf      \* what may fail, for each interface one set for each
                        \* kind of request: "page" for nvfs_mgroup_from_page,
                        \* "state" for nvfs_mgroup_metadata_set_dma_state

Cpu == -1

ASSUME SizeAssumption ==
  /\ GpuBlocks \in Nat \ {0} /\ \A m \in Modes : ContigOf[m] \in Nat \ {0}
  /\ MaxSegs \in Nat \ {0} /\ MaxSegBlocks \in Nat \ {0}
  /\ NrPhys \subseteq Nat \ {0} /\ Bases \subseteq Nat
ASSUME ModeAssumption ==
  /\ Modes \subseteq {"nvme", "scsi", "own", "iter"}
  /\ SmmuOnly \in BOOLEAN
  /\ \A m \in Modes : FaultsOf[m] \subseteq SUBSET {"page", "state"}

VARIABLES
  mode,     \* the interface that handles the request
  table,    \* gpu_info->page_table
  dma,      \* dma_mapping->dma_addresses, as page numbers
  base,     \* nvfsio.cur_gpu_base_index
  req,      \* the request
  nr_phys,  \* blk_rq_nr_phys_segments(req)
  faults,   \* the lookups and state changes that may fail for it
  rest,     \* what the request iterator has not consumed
  pc,       \* where the caller is
  found_cpu_page, found_gpu_page,
  sg,       \* the scatterlist, or the segments handed out: [page, len]
  prev,     \* prev_phys_addr
  addr,     \* their DMA addresses, in blocks
  seg,      \* the segment the DMA iterator is building
  ref,      \* references to the mgroup taken by these calls
  dma_ref,  \* mgroup->dma_ref
  status,   \* iter->status
  ret       \* what the last call returned

vars == <<mode, table, dma, base, req, nr_phys, faults, rest, pc,
          found_cpu_page, found_gpu_page, sg, prev, addr, seg, ref, dma_ref, status, ret>>
config == <<mode, table, dma, base, req, nr_phys, faults>>

PageFails == "page" \in faults
StateFails == "state" \in faults

Contig == ContigOf[mode]
NoSeg == [page |-> Cpu, len |-> 0]
Entries == Cardinality(DOMAIN table)

-----------------------------------------------------------------------------
(* Addresses.                                                              *)

\* nvfs_mgroup_get_gpu_index_and_off, and the address of page p in table t
GpuIndex(p) == base + p \div GpuBlocks
AddrIn(t, p) == t[GpuIndex(p)] * GpuBlocks + (p % GpuBlocks)
PhysAddr(p) == AddrIn(table, p)

\* page i + 1 does not follow page i
Broken(t, i) == t[i] + 1 # t[i + 1]

\* nvfs_pin_gpu_pages: n_phys_chunks, with a forced break every Contig pages
n_phys_chunks ==
  1 + Cardinality({i \in 0 .. Entries - 2 :
                     Broken(table, i) \/ (i > 0 /\ i % Contig = 0)})

\* nvfs_get_dma_address: n_dma_chunks, and whether it accepts the mapping
n_dma_chunks == 1 + Cardinality({i \in 0 .. Entries - 2 : Broken(dma, i)})
ChunksAccepted == n_dma_chunks <= n_phys_chunks

\* An IOMMU that keeps physically consecutive pages consecutive, except where
\* a run of Contig pages of the buffer ends.
Smmu(t, d) ==
  \A i, j \in DOMAIN t :
    t[j] = t[i] + 1 /\ (j # 0 => j % Contig # 0) => d[j] = d[i] + 1

\* nvfs_get_dma on len blocks from page p: the DMA pages must follow each
\* other, but the start compared with them keeps the offset in its GPU page
NoGap(p, len) ==
  LET g == GpuIndex(p)
  IN  n_dma_chunks > 1 =>
        \A k \in 1 .. (len - 1) \div GpuBlocks :
          /\ g + k \in DOMAIN dma
          /\ AddrIn(dma, p) + k * GpuBlocks = dma[g + k] * GpuBlocks

\* The NVMe interface passes -1 for the length, which skips the check.
GetDmaOk(p, len) == ChunksAccepted /\ (mode = "nvme" \/ NoGap(p, len))

Payload(r) == FoldSeq(LAMBDA b, n : b.len + n, 0, r)
\* nvfs_req_payload_supported
PayloadSupported == Payload(req) <= MaxSegs * GpuBlocks

-----------------------------------------------------------------------------
Init ==
  /\ mode \in Modes
  /\ table \in Tables
  /\ dma \in {d \in Tables : DOMAIN d = DOMAIN table
                             /\ (SmmuOnly => Smmu(table, d))}
  /\ base \in Bases
  /\ req \in RequestsOf[mode]
  /\ nr_phys \in IF mode \in {"iter", "own"} THEN {1} ELSE NrPhys
  /\ faults \in FaultsOf[mode]
  /\ rest = IF mode = "own" THEN <<>> ELSE req
  /\ pc = CASE mode = "iter" -> "next" [] mode = "own" -> "map" [] OTHER -> "walk"
  /\ found_cpu_page = FALSE /\ found_gpu_page = FALSE
  /\ sg = (IF mode = "own" THEN req ELSE <<>>) /\ prev = 0 /\ addr = <<>> /\ seg = NoSeg
  /\ ref = 0 /\ dma_ref = 0
  /\ status = "ok" /\ ret = "none"

AdvanceNot(n) == Tail(rest)
\* Consume n blocks of the current bio_vec.
Advance(n) ==
  LET b == Head(rest)
  IN  IF n = b.len THEN Tail(rest)
      ELSE <<[page |-> IF b.page = Cpu THEN Cpu ELSE b.page + n,
              len |-> b.len - n]>> \o Tail(rest)

Page == Head(rest).page
Walking == pc = "walk" /\ rest # <<>>
MapSgReturn(r, next) == ret' = r /\ pc' = next

-----------------------------------------------------------------------------
(* nvfs_blk_rq_map_sg_internal, one turn of its loop at a time.            *)

\* a page of the GPU buffer is in a wrong state
MapSgError ==
  /\ Walking /\ Page # Cpu /\ (PageFails \/ StateFails)
  /\ MapSgReturn("io_err", "done")
  /\ UNCHANGED <<config, rest, found_cpu_page, found_gpu_page, sg, prev, addr,
                 seg, ref, dma_ref, status>>

MixedAdjacent == Page # Cpu /\ found_cpu_page
\* nvfs_is_request_valid: the mix of CPU and GPU pages is refused
Mixed == IF Page = Cpu THEN found_gpu_page ELSE found_cpu_page
MapSgMixed ==
  /\ Walking /\ Mixed
  /\ found_cpu_page' = TRUE /\ found_gpu_page' = TRUE
  /\ sg' = <<>>
  /\ MapSgReturn("io_err", "done")
  /\ UNCHANGED <<config, rest, prev, addr, seg, ref, dma_ref, status>>

MapSgCpu ==
  /\ Walking /\ ~Mixed /\ Page = Cpu
  /\ found_cpu_page' = TRUE
  /\ rest' = Advance(1)
  /\ UNCHANGED <<config, pc, found_gpu_page, sg, prev, addr, seg, ref,
                 dma_ref, status, ret>>

AtBoundary(p) == GpuIndex(p) # 0 /\ GpuIndex(p) % Contig = 0

MergesAtBoundary(p) ==
  /\ sg # <<>>
  /\ mode = "scsi" => Last(sg).len + 1 <= MaxSegBlocks
  /\ prev + 1 = PhysAddr(p)
\* The page continues the last entry: its physical address follows, it is not
\* in a GPU page at the boundary, and the entry has room for it.
Merges(p) ==
  /\ sg # <<>>
  /\ mode = "scsi" => Last(sg).len + 1 <= MaxSegBlocks
  /\ prev + 1 = PhysAddr(p)
  /\ ~AtBoundary(p)

HasRoomAlways(nsegs) == TRUE
\* the scatterlist ends at nr_phys entries; nvfs_extend_sg_markers adds one
\* while there are fewer than MaxSegs
HasRoom(nsegs) == nsegs <= nr_phys \/ nsegs < MaxSegs

MapSgGpu ==
  /\ Walking /\ ~Mixed /\ Page # Cpu
  /\ sg = <<>> => PayloadSupported
  /\ Merges(Page) \/ HasRoom(Len(sg) + 1)
  /\ found_gpu_page' = TRUE
  /\ sg' = IF Merges(Page)
           THEN [sg EXCEPT ![Len(sg)].len = @ + 1]
           ELSE Append(sg, [page |-> Page, len |-> 1])
  /\ prev' = PhysAddr(Page)
  /\ rest' = Advance(1)
  /\ UNCHANGED <<config, pc, found_cpu_page, addr, seg, ref, dma_ref, status,
                 ret>>

\* the payload is too large, or the scatterlist is full
MapSgNoSpace ==
  /\ Walking /\ ~Mixed /\ Page # Cpu
  /\ \/ sg = <<>> /\ ~PayloadSupported
     \/ ~Merges(Page) /\ ~HasRoom(Len(sg) + 1)
  /\ found_gpu_page' = TRUE
  /\ MapSgReturn("io_err", "done")
  /\ UNCHANGED <<config, rest, found_cpu_page, sg, prev, addr, seg, ref,
                 dma_ref, status>>

MapSgEnd ==
  /\ pc = "walk" /\ rest = <<>>
  /\ IF found_gpu_page THEN MapSgReturn("nsegs", "map")
                       ELSE MapSgReturn("zero", "done")
  /\ UNCHANGED <<config, rest, found_cpu_page, found_gpu_page, sg, prev, addr,
                 seg, ref, dma_ref, status>>

-----------------------------------------------------------------------------
(* nvfs_dma_map_sg_attrs_internal, one entry at a time.  addr has the      *)
(* entries done: their DMA addresses, or Cpu.                              *)

Entry == sg[Len(addr) + 1]
nr_cpu_dma == Cardinality({i \in DOMAIN addr : addr[i] = Cpu})
nr_gpu_dma == Len(addr) - nr_cpu_dma
Mapping == pc = "map" /\ Len(addr) < Len(sg)

DmaMapSg ==
  /\ Mapping /\ Entry.page # Cpu /\ nr_cpu_dma = 0
  /\ GetDmaOk(Entry.page, Entry.len)
  /\ addr' = Append(addr, AddrIn(dma, Entry.page))
  /\ ref' = ref + 1 /\ dma_ref' = dma_ref + 1
  /\ UNCHANGED <<config, rest, pc, found_cpu_page, found_gpu_page, sg, prev,
                 seg, status, ret>>

\* nvfs_get_dma returns NVFS_BAD_REQ for a CPU page
DmaMapSgCpu ==
  /\ Mapping /\ Entry.page = Cpu /\ nr_gpu_dma = 0
  /\ addr' = Append(addr, Cpu)
  /\ UNCHANGED <<config, rest, pc, found_cpu_page, found_gpu_page, sg, prev,
                 seg, ref, dma_ref, status, ret>>

\* The mix is refused; a GPU entry after CPU ones keeps what nvfs_get_dma took.
DmaMapSgMixed ==
  /\ Mapping
  /\ \/ /\ Entry.page = Cpu /\ nr_gpu_dma > 0
        /\ UNCHANGED <<ref, dma_ref>>
     \/ /\ Entry.page # Cpu /\ nr_cpu_dma > 0 /\ GetDmaOk(Entry.page, Entry.len)
        /\ ref' = ref + 1 /\ dma_ref' = dma_ref + 1
  /\ MapSgReturn("io_err", "done")
  /\ UNCHANGED <<config, rest, found_cpu_page, found_gpu_page, sg, prev, addr,
                 seg, status>>

\* Without a mapping the reference goes again; with a gap dma_ref stays one
\* too high.  Otherwise, off the NVMe path, the state of the entry's blocks is
\* set once more; when that fails the reference of this lookup goes twice,
\* and with it the one nvfs_get_dma took.
DmaMapSgError ==
  /\ Mapping /\ Entry.page # Cpu
  /\ \/ /\ ~GetDmaOk(Entry.page, Entry.len)
        /\ dma_ref' = IF ChunksAccepted THEN dma_ref + 1 ELSE dma_ref
        /\ UNCHANGED ref
     \/ /\ PageFails
        /\ UNCHANGED <<ref, dma_ref>>
     \/ /\ mode # "nvme" /\ StateFails /\ GetDmaOk(Entry.page, Entry.len)
        /\ dma_ref' = dma_ref + 1
        /\ UNCHANGED ref
  /\ MapSgReturn("io_err", "done")
  /\ UNCHANGED <<config, rest, found_cpu_page, found_gpu_page, sg, prev, addr,
                 seg, status>>

\* a list without GPU pages is handed back
DmaMapSgEnd ==
  /\ pc = "map" /\ Len(addr) = Len(sg)
  /\ MapSgReturn(IF nr_gpu_dma = 0 THEN "bad_req" ELSE "nents", "done")
  /\ UNCHANGED <<config, rest, found_cpu_page, found_gpu_page, sg, prev, addr,
                 seg, ref, dma_ref, status>>

-----------------------------------------------------------------------------
(* nvfs_map_next_gpu_segment, called by nvfs_blk_rq_dma_map_iter_start and *)
(* _next until it returns 0.                                               *)

\* both callers turn an error into 0
IterReturn(r) == ret' = IF r = "one" THEN "one" ELSE "zero"
IterStop(s) == status' = s /\ pc' = "done"

\* nvfs_check_bvec_contiguity: how much of b is physically contiguous
ContigLen(b) ==
  CHOOSE n \in 1 .. b.len :
    /\ \A k \in 1 .. n - 1 : PhysAddr(b.page + k) = PhysAddr(b.page) + k
    /\ n < b.len => PhysAddr(b.page + n) # PhysAddr(b.page) + n

GpuNext == rest # <<>> /\ Page # Cpu

\* no more bio_vecs, or a CPU page
IterEnd ==
  /\ pc = "next" /\ ~GpuNext
  /\ IterReturn("zero") /\ IterStop(status)
  /\ UNCHANGED <<config, rest, found_cpu_page, found_gpu_page, sg, prev, addr,
                 seg, ref, dma_ref>>

\* the lookup fails; the request is not valid; or setting the blocks' state
\* fails, and then the lookup's reference goes twice
IterBegError ==
  /\ pc = "next" /\ GpuNext
  /\ \/ (PageFails \/ ~PayloadSupported) /\ UNCHANGED ref
     \/ StateFails /\ PayloadSupported /\ ref' = ref - 1
  /\ IterReturn("io_err") /\ IterStop("ioerr")
  /\ UNCHANGED <<config, rest, found_cpu_page, found_gpu_page, sg, prev, addr,
                 seg, dma_ref>>

IterBeg ==
  /\ pc = "next" /\ GpuNext /\ PayloadSupported
  /\ seg' = [page |-> Page, len |-> ContigLen(Head(rest))]
  /\ prev' = PhysAddr(Page)
  /\ rest' = Advance(ContigLen(Head(rest)))
  /\ ref' = ref + 1
  /\ pc' = "coalesce"
  /\ UNCHANGED <<config, found_cpu_page, found_gpu_page, sg, addr, dma_ref,
                 status, ret>>

\* nvfs_check_page_coalescible; prev stays at the start of the segment
Coalescible == GpuNext /\ prev + seg.len = PhysAddr(Page) /\ ~AtBoundary(Page)

\* nvfs_coalesce_gpu_pages, one turn of its loop
Coalesce ==
  /\ pc = "coalesce" /\ Coalescible
  /\ seg' = [seg EXCEPT !.len = @ + ContigLen(Head(rest))]
  /\ rest' = Advance(ContigLen(Head(rest)))
  /\ UNCHANGED <<config, pc, found_cpu_page, found_gpu_page, sg, prev, addr,
                 ref, dma_ref, status, ret>>

CoalesceEnd ==
  /\ pc = "coalesce"
  /\ \/ (~Coalescible \/ PageFails) /\ UNCHANGED ref
     \/ StateFails /\ Coalescible /\ ref' = ref - 1
  /\ pc' = "getdma"
  /\ UNCHANGED <<config, rest, found_cpu_page, found_gpu_page, sg, prev, addr,
                 seg, dma_ref, status, ret>>

\* the lookup's reference goes, the one of nvfs_get_dma stays
IterMap ==
  /\ pc = "getdma" /\ GetDmaOk(seg.page, seg.len)
  /\ sg' = Append(sg, seg)
  /\ addr' = Append(addr, AddrIn(dma, seg.page))
  /\ dma_ref' = dma_ref + 1
  /\ seg' = NoSeg
  /\ status' = "ok" /\ IterReturn("one") /\ pc' = "next"
  /\ UNCHANGED <<config, rest, found_cpu_page, found_gpu_page, prev, ref>>

IterMapError ==
  /\ pc = "getdma"
  /\ \/ /\ ~GetDmaOk(seg.page, seg.len)
        /\ dma_ref' = IF ChunksAccepted THEN dma_ref + 1 ELSE dma_ref
     \/ PageFails /\ UNCHANGED dma_ref
  /\ ref' = ref - 1
  /\ seg' = NoSeg
  /\ IterReturn("io_err") /\ IterStop("ioerr")
  /\ UNCHANGED <<config, rest, found_cpu_page, found_gpu_page, sg, prev,
                 addr>>

UnmapKeeps == ref
\* nvfs_dma_unmap_page, by the driver for each segment it was given
UnmapPut == ref - 1
UnmapPage ==
  /\ mode = "iter" /\ pc \in {"done", "unmap"} /\ sg # <<>>
  /\ sg' = Front(sg) /\ addr' = Front(addr)
  /\ ref' = UnmapPut
  /\ pc' = "unmap"
  /\ UNCHANGED <<config, rest, found_cpu_page, found_gpu_page, prev, seg,
                 dma_ref, status, ret>>

-----------------------------------------------------------------------------
Finished == pc \in {"done", "unmap"} /\ (mode = "iter" => sg = <<>>)
Stopped == Finished /\ UNCHANGED vars

Next ==
  \/ MapSgError \/ MapSgMixed \/ MapSgCpu \/ MapSgGpu \/ MapSgNoSpace
  \/ MapSgEnd \/ DmaMapSg \/ DmaMapSgCpu \/ DmaMapSgMixed \/ DmaMapSgError \/ DmaMapSgEnd
  \/ IterEnd \/ IterBegError \/ IterBeg \/ Coalesce \/ CoalesceEnd
  \/ IterMap \/ IterMapError \/ UnmapPage \/ Stopped

Spec == Init /\ [][Next]_vars

-----------------------------------------------------------------------------
(* Properties.                                                             *)

ReqPages == FlattenSeq([i \in DOMAIN req |->
  [k \in 1 .. req[i].len |->
     IF req[i].page = Cpu THEN Cpu ELSE req[i].page + k - 1]])
AllGpu == \A i \in DOMAIN ReqPages : ReqPages[i] # Cpu
AllCpu == \A i \in DOMAIN ReqPages : ReqPages[i] = Cpu

\* The addresses the device is given, block by block, and the ones that the
\* request's pages have.
DeviceAddrs == FlattenSeq([i \in DOMAIN addr |->
  [k \in 1 .. sg[i].len |-> IF addr[i] = Cpu THEN Cpu ELSE addr[i] + k - 1]])
PageAddrs == [i \in DOMAIN ReqPages |->
  IF ReqPages[i] = Cpu THEN Cpu ELSE AddrIn(dma, ReqPages[i])]

Succeeded == pc = "done" /\ status = "ok"
             /\ ret \in (IF mode = "iter" THEN {"zero"} ELSE {"nents"})

\* The state's shape.  A scatterlist has no more entries than were allocated,
\* an entry that is not for NVMe respects the queue's segment size, and the
\* iterator's segment is empty outside a call.
TypeOK ==
  /\ pc \in {"walk", "map", "next", "coalesce", "getdma", "done", "unmap"}
  /\ ret \in {"none", "io_err", "nsegs", "nents", "bad_req", "one", "zero"}
  /\ status \in {"ok", "ioerr"}
  /\ ref \in Int /\ dma_ref \in Nat /\ prev \in Nat
  /\ \A i \in DOMAIN sg :
       /\ sg[i].page \in Nat \/ (mode = "own" /\ sg[i].page = Cpu)
       /\ sg[i].len \in Nat \ {0}
  /\ Len(addr) <= Len(sg)
  /\ mode \in {"nvme", "scsi"} => Len(sg) <= nr_phys \/ Len(sg) <= MaxSegs
  /\ mode = "scsi" => \A i \in DOMAIN sg : sg[i].len <= MaxSegBlocks
  /\ pc \notin {"coalesce", "getdma"} => seg = NoSeg

\* Whatever the coalescing did, the device addresses handed out are those of
\* the request's pages, one block after the other from its start
\* (nvfs_blk_rq_map_sg, nvfs_map_next_gpu_segment).
GpuAddresses == IsPrefix(DeviceAddrs, PageAddrs)

\* A request of GPU pages that was mapped without an error was mapped to its
\* last block.
AllMapped == Succeeded /\ AllGpu => Len(DeviceAddrs) = Payload(req)

\* nvfs_blk_rq_map_sg returns 0, which hands the request back to the kernel,
\* only when all its pages are CPU pages; a mixed one is an error.  So does
\* nvfs_dma_map_sg_attrs with NVFS_BAD_REQ for a list the driver built itself.
MixedRefused ==
  pc \in {"map", "done"} /\ mode # "iter" =>
    /\ ret \in {"zero", "bad_req"} => AllCpu
    /\ ret \in {"nsegs", "nents"} => AllGpu

\* The calls hold one reference to the mgroup for each segment the device
\* has, and the iterator one more while it builds a segment; failed lookups
\* do not change that, and failed changes of a block's state leak none.  A
\* list of the driver's own that is refused at its first GPU entry, after CPU
\* ones, keeps the reference of that entry.
RefHeld ==
  LET held == nr_gpu_dma + IF pc \in {"coalesce", "getdma"} THEN 1 ELSE 0
      kept == IF ret = "io_err" /\ nr_cpu_dma > 0 THEN 1 ELSE 0
  IN  ref <= held + kept /\ (~StateFails => ref >= held)

-----------------------------------------------------------------------------
(* What a comment of the code says of it.                                  *)

\* nvfs-dma.c:1105: the mgroup handed out as a cookie has a reference for
\* every segment the driver was given.
CookieHeld == addr # <<>> => ref >= Len(addr)
===============================================================================
