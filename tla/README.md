# Formal model of nvidia-fs

nvidia-fs is the kernel driver of GPUDirect Storage. A process maps a *shadow
buffer* from `/dev/nvidia-fs`, tells the driver which GPU memory stands behind
it, and reads and writes files with the shadow buffer as the target. When the
storage stack maps the pages of a request for DMA, the driver recognises shadow
pages and puts the addresses of GPU pages in their place, so that the data
never touches the CPU's memory.

This directory holds TLA+ models of the driver (`src/src/`), TLC
configurations that check them on small instances, and TLAPS proofs.

## The system

| Part | Source | State | Operations |
|---|---|---|---|
| Buffer life cycle | nvfs-core.c, nvfs-mmap.c | `io_state`, `ref`, `dma_ref`, `page_table`, `end_fence_page` of an mgroup, the operation count | mmap, `nvfs_map`, read/write ioctl, completion, `nvfs_vma_close`, `nvfs_get_pages_free_callback`, `nvfs_mgroup_free` |
| Blocks and pieces of an I/O | nvfs-core.c, nvfs-mmap.c | the state of each 4K block, `nvfsio`, the metapage with its table of holes | `nvfs_io_init`, `flush_dirty_pages`, the loop of `nvfs_io_start_op`, `nvfs_mgroup_fill_mpages`, marking for DMA, `nvfs_io_complete`, `nvfs_mgroup_check_and_set` |
| DMA mapping cache | nvfs-core.c, nvfs-dma.c | one p2p mapping per device, `dma_mapping_in_progress`, `dma_ref`, `ref` | `nvfs_get_dma`, `nvfs_get_p2p_dma_mapping`, `nvfs_dma_unmap_sg` |
| Scatterlist and DMA iterator | nvfs-dma.c, nvfs-core.c | the list under construction, the segment under construction | `nvfs_blk_rq_map_sg`, `nvfs_dma_map_sg_attrs`, `nvfs_blk_rq_dma_map_iter_start/_next`, `nvfs_dma_unmap_page` |
| Registration, open, close, unload | nvfs-mod.c, nvfs-dma.h, nvfs-core.c | `modules_list`, the per-CPU operation count, `nvfs_module_mutex` | `probe_module_list`, `cleanup_module_list`, `nvfs_open`, `nvfs_close`, `nvfs_free_gpu_info`, `nvfs_exit` |
| Batch | nvfs-batch.c, nvfs-core.c | the I/Os of a batch, the operations in progress | `nvfs_io_batch_init`, `nvfs_io_batch_submit` |
| RDMA information | nvfs-rdma.c, nvfs-dma.c | `rdma_info` of an mgroup | set, get, clear, lookup by scatterlist |
| PCI distance | nvfs-pci.c | index tables, paths, rank matrix, usage counts | fill once, lookup, rank, count, reset, show |
| Statistics, procfs, fault injection | nvfs-stat.c, nvfs-proc.c, nvfs-fault.c | counters | add, show, reset |

The parts meet in the mgroup. An I/O takes a reference and moves `io_state` to
IN_PROGRESS; below it the file system calls back into the scatterlist code,
which uses the block states and the mapping cache; munmap and the NVIDIA
driver's free callback may end the buffer at any moment and have to agree with
the I/O on who frees what. What is hard about the driver:

- three parties tear a buffer down without a common lock, by compare-and-exchange
  on `io_state` and by one reference count;
- the callback must not return while a device may still use the GPU pages, and
  `nvidia_p2p_put_pages` waits for a callback that has begun;
- queues on several CPUs create the p2p mapping of a device on demand;
- sparse files: a block the file system never mapped is a hole for a read and
  an error for a write;
- segments are merged by physical addresses and used by DMA addresses;
- operations are counted per CPU, summed without a lock, and begun and ended by
  different parties on different CPUs, while the unloading waits for the sum.

`PROJECT.json` lists the hazards line by line, and which property looks at each.

## Modules

| Module | Models |
|---|---|
| `NvfsMgroup` | the life of one mgroup, one atomic operation of the code per step |
| `NvfsMgroupInv` | the inductive invariant of `NvfsMgroup`, and one claim of a comment |
| `NvfsMgroupBasics` | proofs: types, frames of the parties, a teardown is final |
| `NvfsMgroupSteps` | proofs: where processes are and return to, DMA in flight |
| `NvfsMgroupLedger` | proofs: the references stay accounted for |
| `NvfsMgroupProofs` | proofs: the inductive invariant and what follows from it |
| `NvfsBuffer` | abstract: what a GPU buffer promises, with each operation at once |
| `NvfsMgroupPromise` | the refinement mapping from `NvfsMgroup` to `NvfsBuffer` |
| `NvfsBlocks` | one I/O after another on a shadow buffer: pieces, the flush of the page cache, block states, holes, RDMA, results |
| `NvfsDmaMap` | queues that map and unmap scatterlists of one mgroup at the same time |
| `NvfsDmaMapProofs` | theorems about `NvfsDmaMap` |
| `NvfsSgList` | one request through either interface, from its pages to DMA segments |
| `NvfsDriver` | processes, interrupts and callbacks on several CPUs, the operation count, storage modules, unloading |
| `NvfsBatch` | batches and single I/Os on shared buffers, and the counters of operations in progress |
| `NvfsPci` | the scan of the buses, distances and ranks, usage counters |
| `MCNvfs...` | instances for TLC: label sets, lengths, page tables, requests |

### NvfsMgroup

The processes are the threads that issue I/O (`Thr`), the ioctl that maps
(`map`), munmap (`close`), the free callback (`cb`), the completion interrupt of
asynchronous I/O (`irq`) and the storage stack (`blk`). A process is at a label
`pc[p]`; labels `m_` are in `nvfs_map`, `io_` in an I/O, `x_` in
`nvfs_transit_state`, `t_` and `c_` in munmap and the termination request, `b_`
in the callback, `f_` in `nvfs_mgroup_free`. `nvfs_transit_state` and
`nvfs_mgroup_put` are shared, so the label they return to is kept in `cont` and
`ret`. `mapRef` is a ghost: the references that belong to `nvfs_map`.

Four constants say what user space and the NVIDIA driver do: at which labels of
an I/O another I/O (`IoOverlap`), munmap (`CloseOverlap`) and the callback
(`CbOverlap`) may start, and whether munmap and callback may run at once
(`BothTear`). Assumed: files have `read_iter` and `write_iter`; an asynchronous
I/O has one piece and is not empty (the `BUG_ON` in `nvfs_io_start_op`);
`nvfs_map` is not called again for a buffer that is mapped; put_pages is called
within the delay of the callback that the comment in `nvfs_free_gpu_info` relies
on; unmapping DMA succeeds. A page that fails with a DMA error keeps its
reference (`DmaUnmap`), as in the code.

### NvfsBuffer and NvfsMgroupPromise

`NvfsBuffer` has three variables: the phase of the buffer, its GPU pages, and
whether the storage stack may transfer. Its operations are instantaneous and know
nothing of references, threads or labels. `NvfsMgroupPromise` maps `io_state` and
`life` to the phase and `dma_ref > 0` to the transfer; `KeepsPromise` says that
every step of `NvfsMgroup` is one of these operations or changes none of them.
What it leaves out on purpose is who drops which reference, which is the subject
of `RefCounted` and `NoUseAfterFree`.

### NvfsBlocks

`IoInit`, `Flush`, `LoopIssue`, `MapBlock`, `Complete` and their refusals follow
one I/O through its pieces; the next I/O finds the blocks as this one left them.
Offsets are in blocks and byte counts in fractions of a block (`Unit`), so that a
file may end inside one. The file system (`Returned`) maps any subset of the blocks
it was given and returns any count or error. A write first flushes the page cache,
one attempt and one wait per step, so that a loop without end would be a behaviour
of the model. An RDMA I/O (`use_rkeys`) is cut at segments of the GPU buffer and
described as a whole (`GetRdmaInfo`); the registration is set and cleared at any
moment. Its address is always that of the buffer, as in the code. Assumed: 4K
pages; user space clears the metapage before each I/O; an asynchronous I/O fits
its first piece. `LoopRefuse` stands for a teardown that ends the loop.

### NvfsDmaMap

Each queue runs `nvfs_get_dma` per entry, is then `busy` with the request, and
unmaps it. `UnmapFailed` says whether the driver also unmaps lists that failed to
map (a comment in `nvfs_dma_unmap_sg` says that some do); `Gaps` whether the
contiguity check may fail, which it cannot for NVMe. The buffer is torn down only
between I/Os: that this is so is what `PagesOutliveDma` shows of `NvfsMgroup`.
Page lookups do not fail, as the pages of an I/O in flight are in the states they
look for; so the -1 of `nvfs_check_gpu_page_and_error` (nvfs-mmap.c:1352) and the
early return of `nvfs_dma_unmap_sg` on it (nvfs-dma.c:1417), after which the rest of a
list stays mapped, are left out. The second lookup on the path of other drivers than
NVMe takes and drops a reference of its own, and is left out.

### NvfsSgList

A request is a sequence of bio_vecs of whole blocks, in the shadow buffer or in
CPU memory. `mode` picks the interface. The page table and the DMA mapping are
functions from GPU page index to page number. With `SmmuOnly` the IOMMU keeps
physically consecutive pages consecutive except after `Contig` pages, which is
what the comment on the (4G - 64K) boundary says. `ContigOf` and `FaultsOf` give the
boundary and the possible failures for each interface. `faults` says which lookups may
fail. `own` is a scatterlist that a driver built itself and hands to
`nvfs_dma_map_sg_attrs`, with CPU pages, GPU pages or a mix; assumed of it: an entry
that is no longer than a GPU page lies in one. Left out: integrity data and drain
buffers, requests over two mgroups, kernels before 4.18, the test-only code under
`#ifdef`.

### NvfsDriver

The agents are the thread of each process in open, ioctl and close, the one in
munmap, the free callback, and `nvfs_exit`; the interrupts that end asynchronous
I/O are only counted (`ending`). Every operation that is counted on or off names
its CPU, and `nvfs_count_ops` reads one CPU per step (`ReadCpu`). Walks over
`modules_list` take one entry per step under `nvfs_module_mutex`. Storage modules
are loaded, refuse registration and are unloaded by others (`Insmod`, `Probed`,
`Rmmod`, external). A buffer is that of `NvfsMgroup` reduced to the names of its
references and the states on which dropping one depends. Its callback comes after
`nvfs_map` has made it ready; one that comes earlier, between get_pages and the
transition to READY (nvfs-core.c:1316-1535), is left out, as in `mgroup_orderly`: there
the count is lowered twice (nvfs-core.c:1456 and 1553). The kernel's references
to the driver are in the guards of `Open` and `ExitBegin`: no open after the
unloading has begun, and no unloading under an open file or a mapping of it.

### NvfsBatch

A thread in an ioctl claims its buffers one by one, starts them in order, and
after a failure frees slot by slot. The `nvfsio` of an I/O is part of its buffer,
so that a second I/O overwrites the flag that says whether the first was counted.
An entry has data, is empty, or is on a file without `read_iter` and `write_iter`; an
asynchronous one of the last two kinds returns without being issued or freed
(`StartEmpty`, `StartNoIter`). `claimed`, `stuck`, `late` and `reset` are ghosts. A
refused `nvfs_io_init` may end a buffer that is not ready, as `nvfs_transit_state` does.

### NvfsPci

The scan lists the devices of a class in any order, and a hash is any slot, which
covers every hash function and all collisions. Distances are computed from the
paths as in `__nvfs_get_gpu2peer_distance`; `Hops` defines them again from the sets
of bridges above two devices. A rank is the pair of halves of its word. `count++`
is a read and a write. The example in docs/analyse/nvfs-pci.h.md:469 gives two devices
under different root ports, each behind a root port and a switch, the distance base + 3;
by the code, which counts the bridges on both sides, and by `RankExact` it is base + 5.

## Runs

All runs are `tlc -config MC_<run>.cfg <module>`, in this directory.

| Run | Instance | Distinct states |
|---|---|---|
| `mgroup_orderly` | one thread, sync and async I/O of two pieces, munmap between I/Os, callback anywhere in an I/O, failing and repeated `nvfs_map`, fair | 17,772 |
| `mgroup_any_teardown` | two threads, one I/O at a time, munmap and callback at any label | 891,238 |
| `blocks` | 6 blocks, GPU pages of 3, 2 holes, a GPU buffer of 10 blocks that begins inside a GPU page, with and without RDMA, 2 attempts to flush, -ERESTARTSYS, files without `read_iter`, fair | 357,667 |
| `dma` | 3 queues on 2 devices, lists of up to 2, 3 requests per I/O, drivers that unmap failed lists and drivers that do not, fair | 401,998 |
| `sg` | NVMe and other drivers, and lists they build, with the boundary after 2 pages, and the iterator, with the boundary out of reach; 2 bio_vecs of up to 4 blocks, 4 GPU pages in 7 arrangements, failures | 568,795 |
| `pci` | one GPU, 3 peers for a table of 2, every forest of four bridges, paths of at most 3, ACS everywhere or nowhere, 2 users | 221,400 |
| `driver` | 2 processes, 2 CPUs, one storage module, 3 opens, one `nvfs_map`, 2 pieces, fair | 377,201 |
| `batch` | 2 threads, 2 buffers, 2 ioctls of one or two entries, with data, empty or without `read_iter`, 2 switches or resets, threads symmetric | 2,518,568 |
| `claim_map_ref`, `claim_lost_error`, `claim_holes`, `claim_cookie` | expected to fail, see Findings | |

What the passing runs show:

- `mgroup_orderly`: nobody touches a freed mgroup (`NoUseAfterFree`); `ref` is the
  number of owners (`RefCounted`); a page table is handed back once
  (`ReleasedOnce`); the end fence is written to a pinned page (`FencePinned`); the
  operation count covers pinned pages and running requests (`OpsCoverWork`). An
  unmapped buffer is freed (`Reclaimed`) and a callback returns once munmap has begun
  (`CbReturns`), unless a failed `nvfs_map` has leaked its reference; a callback that
  waits for an I/O is answered by it (`CbAnswered`), and I/O returns (`IoReturns`).
  `KeepsPromise`: the mgroup implements `NvfsBuffer`, its fairness included.
- `mgroup_any_teardown`: whenever teardown comes, GPU pages stay pinned until the
  DMA that uses them is over (`PagesOutliveDma`), teardown is final
  (`NoIoAfterTeardown`), and the inductive invariant `SerialInv` holds. Deadlock is
  not checked here, because of the waits described under Limits.
- `blocks`: every block goes to its own place in GPU memory over all pieces
  (`GpuTarget`); a write counts no byte that did not come from the GPU
  (`WriteChecked`), a read none that is neither in GPU memory nor in a reported
  hole (`ReadAccounted`); the holes reported are the runs of missing blocks, each
  exactly, as long as the table has room, and otherwise the first of them, with a read
  that is cut before the next and a last hole that may be too long (`HolesExact`, and
  Findings); blocks are ready for the next I/O (`BlocksReusable`); pieces are not refused half way
  (`PiecesFit`) and what is handed to the file system can be mapped (`NoDmaError`);
  `nvfs_io_free` is called once (`FreedOnce`); every I/O ends, however often the
  flush fails (`IoEnds`).
- `dma`: one mapping per device (`OneMapping`), present while used (`MappingLive`), by
  the inductive invariant `MapInv`; references balance (`RefBalance`); entries in use
  are counted, for drivers that unmap only what was mapped, and none is left when the
  requests are done (`EntryHeld`); waiting queues get on (`MapReturns`).
- `sg`: the device gets the addresses of the request's pages, in order
  (`GpuAddresses`), all of them unless an error is returned (`AllMapped`); a mix of
  CPU and GPU pages is refused by the scatterlist interface, when it builds the list
  and when a driver did (`MixedRefused`); references match the segments handed out, but
  for the one that a refused mix keeps (`RefHeld`); no list outgrows its table
  (`TypeOK`).
- `pci`: a device and a GPU get the rank of this pair or none (`RankExact`); every
  transfer that is counted is shown once, and the two files that show the share of
  cross-root-port transfers agree (`UsageShown`).
- `driver`: the driver holds the symbols of exactly the modules that hold its
  operations (`RegistrationPaired`); when the unloading ends, no I/O is in flight, no
  interrupt has still to count and no GPU page is pinned (`UnloadSafe`); an unloading
  that has begun ends (`UnloadEnds`).
- `batch`: every I/O that was begun belongs to one ioctl or to the storage, so that it
  is freed once, unless it is asynchronous and was not issued (`ClaimsEnd`); the
  operations shown as in progress are those begun and not freed (`OpsShown`). Both
  exclude a start that fails after another entry of the batch was started, see Limits.

Deadlock is checked in `mgroup_orderly`, `blocks`, `dma`, `sg` and `pci`; in `driver` and
`batch` the system may stop when user space does nothing more.

### Bounds

Threads, munmap, callback, interrupt and storage stack are all the parties the
teardown protocol tells apart. One I/O runs at a time, so `mgroup_orderly` has one
thread; the same instance with two was checked once, with all ten properties, and
passes (177,162 states, six minutes). `MaxChunks` 2 has a first and a last piece,
`MaxMaps` 2 a failed and a repeated `nvfs_map`, `MaxDma` 1 a mapped and an unmapped
state. I/O larger than a shadow buffer of six blocks needs a second piece, and an
offset of 1 in a GPU page of 3 makes pieces end inside GPU pages; with 2 slots in
the table of holes both overflow and exact fit happen; `MaxRetry` 2 has an attempt
that is repeated and a last one. Three queues give a race for one device beside a
second device. Sizes in the code (16 blocks per GPU page, 127 segments, 65535 pages)
are scaled to 2, 3 and 2 so that every limit is reached; the iterator takes 9 for
the last, beyond the buffer, for the reason given under Limits.

Two CPUs are the least on which a sum can miss an operation. `driver` has one storage
module: the entries of the list do not depend on each other. Its single `nvfs_map`
may fail or succeed; a buffer mapped again by the same process is not reached.
Three peers for two slots make the table overflow, and forests of four bridges have
paths longer than the array of three. The table of GPUs has one slot, so collisions
happen among peers only; both tables use the same code. Two ioctls in `batch` are two
batches at once, or a batch beside a single I/O.

### Fairness

`NvfsMgroup` assumes weak fairness of the next step of every process: a kernel
thread, a callback or an interrupt that can go on does. Nothing is assumed of user
space: no mmap, I/O, munmap or callback has to begin. The completion of a request
(`IoComplete`) has strong fairness, since the storage stack may map and unmap pages
several times before it completes a request, which turns completion off and on.
`NvfsDmaMap` assumes weak fairness of each queue; the number of requests of an I/O is
bounded by `MaxReqs`, so no queue is overtaken for ever.

`NvfsBlocks` assumes weak fairness of the ioctl's thread and of the file system that
ends its request (`Work`); nothing makes it map a block. `NvfsDriver` assumes it of
interrupts, of the unloading, and of the callback of each process: storage completes
what it was given, and the NVIDIA driver calls back for pages that were not put, at
the latest when the process is gone. This is so for the default allocation; persistent
pages (nvfs-core.c:1334) have no callback, and `UnloadEnds` says nothing of them.
`NvfsBuffer` promises that DMA ends and,
with strong fairness, that an I/O that was asked to end answers; `KeepsPromise`
derives both from the fairness of `NvfsMgroup`. `batch`, `sg` and `pci` check
safety only.

## Proofs

Checked by TLAPS for every value of the constants that satisfies the named
assumptions (types of the constants, positive bounds, thread names that differ from
the fixed processes).

`NvfsMgroupBasics`, for any use of the buffer:

- `TypeCorrect`: Spec => []TypeOK.
- `TeardownIsFinal`: `NoIoAfterTeardown`, with no assumption on user space.

`NvfsMgroupProofs`, on the lemmas of `NvfsMgroupSteps` and `NvfsMgroupLedger`:

- `SerialInvariant`: if `IoOverlap = {}`, SerialInv holds throughout, for any number
  of threads and any timing of munmap and callback.
- `PagesOutlive`: if `IoOverlap = {}`, `PagesOutliveDma` holds throughout.

`PagesOutliveDma` is not inductive: it says nothing of the I/O that has not reached
the storage stack, or of the thread about to free. `SerialInv` adds what the code
relies on at each label. `Serial`: one I/O at a time. `Returns`: where shared
subroutines go back to. `Knows`: an I/O between its transition to IN_PROGRESS and
its end finds `io_state` IN_PROGRESS or a request to end; whoever frees finds it
terminal. `Ledger`: until `io_state` is terminal every reference has an owner, so the
count cannot reach zero under an I/O, or else munmap abandons a buffer that was never
mapped. `DmaInFlight`: DMA belongs to a request in flight. Each conjunct has a lemma
that goes through the actions one by one; where a party (nvfs_map, munmap, the
callback) cannot disturb a conjunct, the frame lemma of that party covers all its
actions. `Ledger` has one lemma per party. `PagesOutlive` then follows: an I/O in flight keeps
`io_state` non-terminal, there the pages of a mapped buffer are pinned, and only a
process that found it terminal releases them.

`NvfsDmaMapProofs`:

- `TypeCorrect`: in particular `dma_ref` stays non-negative.
- `MapInvariant`: MapInv holds throughout. It adds to the two properties below that the
  owner of `dma_mapping_in_progress` is alone, that its device has no mapping from its
  second lookup to the insertion, and that no queue is at work between I/Os.
- `OneMappingHolds`, `MappingStaysLive`.

Only model-checked: all liveness (the prover has no ENABLED) and with it the
refinement of `NvfsBuffer`, the counts in `RefCounted`, `RefBalance` and `EntryHeld`
(sums over sets), `NvfsBlocks`, `NvfsSgList` and `NvfsPci`, whose arguments are
inductions over sequences, and so far `NvfsDriver` and `NvfsBatch`.

## Findings

Four runs check what a comment says of the code and find it violated.

- `claim_map_ref` (`MapRefDroppedOnce`): munmap asks a synchronous I/O to end and reads
  `io_state` again. If the I/O has answered IO_TERMINATED in between, both drop the
  reference of `nvfs_map` (nvfs-mmap.c:540; the comment above it: "free the memory
  only if sucessfully terminated by vma_close").
- `claim_lost_error` (`ErrorReported`): `nvfs_io_ret` returns `PTR_ERR(req->private)` after
  it has set `req->private` to NULL, so that an error found in the block states is
  returned as 0 (nvfs-core.c:896). The trace: a write whose request returns a positive
  count with no block mapped; `nvfs_mgroup_check_and_set` stores -EIO in `nvfsio->ret`,
  and the ioctl returns 0. The run has no I/O of length zero, which also returns 0 and
  leaves the initial -EINVAL.
- `claim_holes` (`HolesStop`): when the table of holes is full, a further hole sets the
  limit at which the read is cut, and "we stop further hole processing"
  (nvfs-mmap.c:912). But the block is remembered as the last one missing, so that an
  adjacent one lengthens the last hole in the table (nvfs-mmap.c:929). With two slots
  and blocks 0, 2, 4 and 5 missing the read reports four blocks with the holes (0, 1)
  and (2, 2); block 3 was transferred.
- `claim_cookie` (`CookieHeld`): when `nvfs_mgroup_metadata_set_dma_state` fails it has put
  the mgroup, and the iterator puts it once more, so that a segment is handed out
  without a reference (nvfs-dma.c:901; nvfs-dma.c:1105 says that one is held).

## Limits: where the assumptions are needed

The passing runs state what they assume. Each assumption is needed: with the change in
the second column TLC reports the property in the third.

| Run | Change | Violated | What happens |
|---|---|---|---|
| `mgroup_any_teardown` | `IoOverlap <- Anywhere` | `PagesOutliveDma` | a second I/O that fails to begin stores IO_CALLBACK_END, which a waiting callback takes for the end of the first (nvfs-core.c:194) |
| `mgroup_orderly` | `CloseOverlap <- AllIo` | `RefCounted`, `NoUseAfterFree` | munmap and the end of an I/O both drop the reference of `nvfs_map`; `nvfs_transit_state` reads `io_state` after its own put freed the mgroup (nvfs-core.c:198) |
| `mgroup_orderly` | the same, `Sync = {FALSE}` | `FencePinned` | the end fence is written after the put and the transition to READY; munmap may free in between (nvfs-core.c:793) |
| `mgroup_orderly` | `CbOverlap <- Anywhere` | `OpsCoverWork` | a callback during `nvfs_map` makes two paths lower the operation count (nvfs-core.c:1535) |
| `mgroup_orderly` | without `[]~Leaked` | `Reclaimed`, `CbReturns` | the reference of a failed `nvfs_map` is never dropped, and a callback waits for it (nvfs-core.c:1553) |
| `mgroup_orderly` | `CloseOverlap <- AllIo`, `Sync = {FALSE}`, `Legacy = FALSE` | `Reclaimed` | the end of the I/O stores IO_CALLBACK_END and leaves the reference of `nvfs_map` to a callback that does not exist |
| `mgroup_orderly` | `CloseOverlap <- AllIo` | `CbReturns` | the callback waits for IO_TERMINATED, which has passed, and put_pages for the callback (nvfs-core.c:267) |
| `dma` | `EntryHeld` without `~unmaps` | `EntryHeld` | unmapping a list that failed takes the count of another queue's entry (nvfs-mmap.c:1355) |
| `dma` | `Gaps = TRUE` | `RefBalance` | a failed contiguity check drops the reference and leaves `dma_ref` raised (nvfs-core.c:706) |
| `blocks` | without `~abandoned` | `BlocksReusable` | blocks of an interrupted I/O, or of one on a file without `read_iter`, stay queued, and the next I/O meets the `BUG_ON` (nvfs-mmap.c:1008) |
| `blocks` | without `~NotIssued` | `FreedOnce` | an asynchronous I/O of length zero, or on a file without `read_iter`, never reaches `nvfs_io_free` (nvfs-core.c:2049) |
| `sg` | `SmmuOnly = FALSE`, boundary 9 | `GpuAddresses` | only the numbers of physical and DMA chunks are compared, not their places (nvfs-core.c:459) |
| `sg` | boundary 2 for the iterator | `GpuAddresses` | inside a bio_vec the iterator does not look at the boundary (nvfs-dma.c:773) |
| `sg` | `own` lists with entries of at most a GPU page that cross into the next | `GpuAddresses` | only entries longer than a GPU page are checked for gaps (nvfs-core.c:664) |
| `sg` | `RefHeld` without `kept` | `RefHeld` | a GPU entry after CPU ones is refused after `nvfs_get_dma` has taken its references (nvfs-dma.c:1323) |
| `pci` | without `Fits` | `RankExact` | the path of a peer that fills its array has depth 0 for a GPU under another root port, and longer paths are cut (nvfs-pci.c:552) |
| `batch` | `stuck = {}` | `ClaimsEnd` | an asynchronous entry that is empty is started and never freed (nvfs-core.c:2183); one on a file without `read_iter` fails with -EINVAL, is not freed, and the batch empties its slot (nvfs-batch.c:156); the buffer stays busy |
| `batch` | without `~late` | `ClaimsEnd` | an entry that fails to start after others were started has these freed under the storage; the comment says "XXX: wait for the ongoing ops, or cancel them" (nvfs-batch.c:172) |
| `batch` | `nvfs_n_op.batch >= 0` | that | a reset clears the batches in progress, which are then counted off; the comment of `nvfs_stats_reset` says that self managed counters are not reset (nvfs-stat.c:364) |
| `driver` | no module unregistered while a process is in open, `nvfs_map` or I/O, or has a buffer | that | `nvfs_count_ops` adds up counters that change: an operation that begins on a CPU already read and ends on one not yet read makes the sum 0 under an open device, although docs/analyse/nvfs-mod.c.md:232 says that modules are unregistered when there is no active operation (nvfs-core.c:116). With `Cpus = 1` it holds; the next open registers again, and `RegistrationPaired` is not affected |
| `driver` | no module registered once unloaded | that | an interrupt counts its I/O off after munmap and close have summed, so that nobody unregisters (nvfs-core.c:864) |
| `driver` | callbacks idle once unloaded | that | the callback that frees a buffer counts it off and goes on in the driver, for which `nvfs_exit` does not wait (nvfs-core.c:1456) |

With `Legacy = FALSE` alone (persistent p2p pages, no callback) `mgroup_orderly` still shows
`Reclaimed`. `KeepsPromise` holds with `CloseOverlap <- AllIo` as well (131,089 states): what
goes wrong there is the bookkeeping of references, not the order of I/O, DMA and release.

The mutants say how far a property reaches. `NoDmaError` and `PiecesFit` depend on where
a piece of an RDMA I/O is cut. `GpuTarget` does not depend on the segment offset: with that
always zero all of `blocks` still holds, as the address comes from the GPU page alone.

Other behaviour that the models contain and no property speaks of: the callback can miss
an I/O that goes back to READY between two of its attempts and then spins until munmap
(nvfs-core.c:316); the submitting thread reads `nvfsio->sync` after the completion of its
asynchronous I/O (nvfs-core.c:2184, `IoTail`); a lookup takes a reference on a buffer in
teardown (nvfs-mmap.c:107); a supported request that does not begin at a
GPU page can need one segment more than there is room for (nvfs-dma.c:477, `HasRoom`);
`n_phys_chunks` counts the forced break one page late (nvfs-core.c:1358); the contiguity
check fails for long segments that begin inside a GPU page (nvfs-core.c:682, `NoGap`);
the iterator's calls return 0 on an error (nvfs-dma.c:1165, `IterReturn`); and
`nvfs_dma_unmap_page` leaves `dma_ref` raised (nvfs-dma.c:1237, `UnmapPage`).

## Not modelled

- Several mgroups in a process and the base-index hash of mmap; a second `nvfs_map` of a
  mapped buffer.
- Pages larger than 4K, for which nvfs-mmap.c:1298 indexes in pages.
- `nvfs_init` and its error paths; the branch of `nvfs_free_gpu_info` for a last reference
  that a DMA unmap drops (nvfs-core.c:1466): an I/O holds a reference of its own meanwhile.
- RDMA: `nvfs_get_rdma_reg_info_from_mgroup`, which copies the registration to user space;
  scatterlists of a part of a piece; a reader that sees a registration half written.
- Integrity and drain buffers, requests over two mgroups, kernels before 4.18.
- The second lookup of the mapping at nvfs-dma.c:1288, and lookups that fail while a list
  is unmapped (nvfs-dma.c:1417).
- A callback during `nvfs_map` in `NvfsDriver`; `NvfsMgroup` has it.
- Throughput, latency and cumulative counters, and the GPU statistics table with its maximum
  of pinned memory (nvfs-stat.c:449): nothing reads them but their display.
- procfs and debugfs registration; fault injection other than as the failures it causes;
  version and p2p headers.

## Plan

Theorems, in this order: `NoUseAfterFree` and `RefCounted` under the contract of
`mgroup_orderly`; that the steps of `NvfsMgroup` are steps of `NvfsBuffer`;
`RegistrationPaired` of `NvfsDriver` and `ClaimsEnd` of `NvfsBatch`; `RefBalance` of
`NvfsDmaMap`; `GpuTarget` and `BlocksReusable` of `NvfsBlocks`.
