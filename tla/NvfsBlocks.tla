----------------------------- MODULE NvfsBlocks -----------------------------
(***************************************************************************)
(* The shadow buffer as bookkeeping of one I/O.  Every 4K block of the     *)
(* buffer carries a state (nvfs_metadata[i].nvfs_state).                   *)
(* nvfs_io_start_op() cuts an I/O into pieces of the size of the buffer,   *)
(* nvfs_mgroup_fill_mpages() queues the blocks of a piece, the storage     *)
(* stack marks the blocks it maps for DMA, and nvfs_io_complete() compares *)
(* the marks with the number of bytes done: a block of a READ that was     *)
(* never mapped is a hole of the file, which is reported to user space in  *)
(* the metapage; a block of a WRITE that was never mapped is an error.     *)
(*                                                                         *)
(* Offsets and lengths are counted in blocks, byte counts in units of a    *)
(* fraction of a block, so that a file may end inside a block.  A page is  *)
(* one block (4K pages).                                                   *)
(*                                                                         *)
(* File systems on RDMA do not map blocks: they ask for the address of the *)
(* whole piece in the GPU's memory (nvfs_get_gpu_sglist_rdma_info), which  *)
(* user space registered before.  Such an I/O is cut at multiples of the   *)
(* shadow buffer size in the GPU buffer.                                   *)
(***************************************************************************)
EXTENDS Integers, Sequences, FiniteSets

CONSTANTS
  NBlocks,   \* nvfs_blocks_count: blocks of the shadow buffer
  GpuBlocks, \* blocks of a GPU page (16 in the code)
  MaxHoles,  \* NVFS_MAX_HOLE_REGIONS
  Unit,      \* units of a block; a file may end at any unit
  VaBase,    \* offset of gpuvaddr in its GPU page, in blocks
  BufBlocks, \* gpu_buf_len in blocks
  Lengths,   \* the lengths of I/O that user space asks for, in blocks
  Iter,      \* whether files have read_iter and write_iter
  Rkeys,     \* whether I/Os use RDMA keys
  MaxRetry,  \* MAX_IO_RETRY
  Restarts   \* the file system may return -ERESTARTSYS

ASSUME SizeAssumption ==
  /\ NBlocks \in Nat \ {0} /\ GpuBlocks \in Nat \ {0}
  /\ MaxHoles \in Nat \ {0} /\ Unit \in Nat \ {0}
  /\ VaBase \in 0..(GpuBlocks - 1) /\ BufBlocks \in Nat
  /\ Lengths \subseteq Nat
ASSUME FaultAssumption ==
  /\ Iter \subseteq BOOLEAN /\ Rkeys \subseteq BOOLEAN /\ Restarts \in BOOLEAN
  /\ MaxRetry \in Nat \ {0}

VARIABLES
  pc,         \* "alloc", "idle", "init", "start", "flush", "dirty", "loop", "flight",
              \* or "bug" (a BUG_ON)
  state,      \* nvfs_metadata[i].nvfs_state
  nvfsio,     \* nvfs_mgroup->nvfsio
  bytes_done, bytes_left,
  rdma_info,  \* the registration of the buffer; version 0 is none
  metapage,   \* the page shared with user space
  result,     \* what the ioctl or the end fence reports
  frees,      \* ghost: calls of nvfs_io_free() for this I/O
  va,         \* ghost: GPU block of the first byte of this I/O
  served,     \* ghost: what the storage stack returned for the last piece
  mapped,     \* ghost: <<block of the I/O, GPU block>> mapped for DMA
  abandoned   \* ghost: some I/O left its blocks queued

ghosts == <<frees, va, served, mapped, abandoned>>
vars == <<pc, state, nvfsio, bytes_done, bytes_left, rdma_info, metapage,
          result, ghosts>>

Blocks == 0..(NBlocks - 1)
EIO == -5
EINVAL == -22
ERESTARTSYS == -512

BlockState == {"ALLOC", "INIT", "QUEUED", "DMA_START", "DONE", "DMA_ERROR"}

ZeroIo ==
  [sync |-> TRUE, op |-> "READ", iter |-> TRUE, failed |-> "no",
   use_rkeys |-> FALSE, rdma_seg_offset |-> 0, retrycnt |-> 0,
   start |-> 0, end |-> 0, cpuvaddr |-> 0, gpu_page_offset |-> 0,
   cur_gpu_base_index |-> 0, check_sparse |-> FALSE, fd_offset |-> 0,
   state |-> "CLEAN", ret |-> 0]

NoRdmaInfo == [version |-> 0, rem_vaddr |-> 0]

CleanPage == [state |-> "CLEAN", holes |-> <<>>, start_fd_offset |-> 0]

Init ==
  /\ pc = "alloc" /\ state = [i \in Blocks |-> "ALLOC"]
  /\ nvfsio = ZeroIo
  /\ bytes_done = 0 /\ bytes_left = 0 /\ metapage = CleanPage /\ result = 0
  /\ rdma_info = NoRdmaInfo
  /\ frees = 1 /\ va = 0 /\ served = 0 /\ mapped = {} /\ abandoned = FALSE

DivRoundUp(n, d) == (n + d - 1) \div d

Active == nvfsio.start..nvfsio.end

(* nvfs_mgroup_pin_shadow_pages(): all blocks become usable.               *)
PinShadowPages ==
  /\ pc = "alloc" /\ pc' = "idle"
  /\ state' = [i \in Blocks |-> "INIT"]
  /\ UNCHANGED <<nvfsio, bytes_done, bytes_left, rdma_info, metapage, result,
                 ghosts>>

-----------------------------------------------------------------------------
(* The ioctls that register, replace and clear the RDMA information, at    *)
(* any time and also under an I/O.  A registration that is refused clears  *)
(* the one before.                                                         *)
SetRdmaRegInfo ==
  /\ pc \notin {"alloc", "bug"} /\ TRUE \in Rkeys
  /\ rdma_info' \in {NoRdmaInfo, [version |-> 1, rem_vaddr |-> VaBase]}
  /\ UNCHANGED <<pc, state, nvfsio, bytes_done, bytes_left, metapage, result,
                 ghosts>>

ClearRdmaRegInfo ==
  /\ pc \notin {"alloc", "bug"} /\ TRUE \in Rkeys
  /\ rdma_info' = NoRdmaInfo
  /\ UNCHANGED <<pc, state, nvfsio, bytes_done, bytes_left, metapage, result,
                 ghosts>>

-----------------------------------------------------------------------------
(* Mutant: an I/O inside a GPU page may run into the next one.             *)
AcceptsAcross(v, n) == n <= BufBlocks /\ v - VaBase <= BufBlocks - n

(* nvfs_io_init(): an I/O of n blocks at GPU block v that passes the       *)
(* checks.  One that starts inside a GPU page may not leave that page.     *)
Accepts(v, n) ==
  /\ n <= BufBlocks /\ v - VaBase <= BufBlocks - n
  /\ v % GpuBlocks # 0 => n <= GpuBlocks - (v % GpuBlocks)

(* Where in a shadow buffer sized segment of the GPU buffer an RDMA I/O    *)
(* starts.                                                                 *)
SegOffset(v, rkeys) == IF rkeys THEN v % NBlocks ELSE 0

(* Mutant: nvfs_io_free() is left out on the error path.                   *)
FreeNot(r) == pc' = "idle" /\ result' = r /\ UNCHANGED frees

(* nvfs_io_free() and the return to user space, or the end fence.          *)
Free(r) == pc' = "idle" /\ result' = r /\ frees' = frees + 1

(* User space clears the metapage and calls the ioctl; nvfs_io_init()      *)
(* finds the mgroup, makes it busy and zeroes nvfsio.                      *)
IoBegin ==
  /\ pc = "idle" /\ pc' = "init"
  /\ nvfsio' = ZeroIo /\ metapage' = CleanPage /\ result' = 0
  /\ bytes_done' = 0 /\ bytes_left' = 0
  /\ frees' = 0 /\ va' = 0 /\ served' = 0 /\ mapped' = {}
  /\ UNCHANGED <<state, rdma_info, abandoned>>

(* The arguments that are refused, which ends the I/O, and those that are  *)
(* accepted.  An async I/O has one piece (BUG_ON(!nvfsio->sync)).          *)
IoRefused ==
  /\ pc = "init" /\ Free(EINVAL)
  /\ UNCHANGED <<state, nvfsio, bytes_done, bytes_left, rdma_info, metapage, va,
                 served, mapped, abandoned>>

IoInit ==
  /\ pc = "init" /\ pc' = "start"
  /\ \E n \in Lengths, v \in VaBase..(VaBase + BufBlocks), s \in BOOLEAN,
        o \in {"READ", "WRITE"}, it \in Iter, rk \in Rkeys :
       /\ Accepts(v, n) /\ (s \/ n <= NBlocks - SegOffset(v, rk))
       /\ nvfsio' = [nvfsio EXCEPT !.sync = s, !.op = o, !.iter = it,
                       !.use_rkeys = rk, !.rdma_seg_offset = SegOffset(v, rk),
                       !.gpu_page_offset = v % GpuBlocks,
                       !.cur_gpu_base_index = v \div GpuBlocks, !.ret = EINVAL]
       /\ bytes_left' = n * Unit /\ va' = v
  /\ UNCHANGED <<state, bytes_done, rdma_info, metapage, result, frees, served,
                 mapped, abandoned>>

-----------------------------------------------------------------------------
(* The head of nvfs_io_start_op().  A read goes on at once ...             *)
StartRead ==
  /\ pc = "start" /\ nvfsio.op = "READ" /\ pc' = "loop"
  /\ UNCHANGED <<state, nvfsio, bytes_done, bytes_left, rdma_info, metapage,
                 result, ghosts>>

(* ... a write first allocates the file, which may fail ...                *)
StartWrite ==
  /\ pc = "start" /\ nvfsio.op = "WRITE"
  /\ \/ Free(EIO)
     \/ pc' = "flush" /\ UNCHANGED <<result, frees>>
  /\ UNCHANGED <<state, nvfsio, bytes_done, bytes_left, rdma_info, metapage, va,
                 served, mapped, abandoned>>

(* ... and then flush_dirty_pages() empties the page cache of the range:   *)
(* it holds nothing, or its pages were written back and invalidated, or it *)
(* still holds some and the driver waits a little ...                      *)
Flush ==
  /\ pc = "flush" /\ pc' \in {"loop", "dirty"}
  /\ UNCHANGED <<state, nvfsio, bytes_done, bytes_left, rdma_info, metapage,
                 result, ghosts>>

(* Mutant: an attempt that fails is not counted.                           *)
RetryUncounted(io) == io

Retry(io) == [io EXCEPT !.retrycnt = @ + 1]

(* ... before it tries again, a limited number of times.                   *)
FlushAgain ==
  /\ pc = "dirty"
  /\ nvfsio' = Retry(nvfsio)
  /\ IF nvfsio'.retrycnt < MaxRetry THEN pc' = "flush" /\ UNCHANGED <<result, frees>>
       ELSE Free(EIO)
  /\ UNCHANGED <<state, bytes_done, bytes_left, rdma_info, metapage, va, served,
                 mapped, abandoned>>

-----------------------------------------------------------------------------
(* Mutant: a piece may be as large as the shadow buffer in any segment.    *)
NrBlocksWhole ==
  IF bytes_left < NBlocks * Unit THEN bytes_left \div Unit ELSE NBlocks

(* The blocks of the next piece.                                           *)
NrBlocks ==
  LET room == NBlocks - nvfsio.rdma_seg_offset
  IN IF bytes_left < room * Unit THEN bytes_left \div Unit ELSE room

(* nvfs_mgroup_fill_mpages().                                              *)

(* The checks that return -EIO ...                                         *)
FillOk(nr) ==
  LET off == nvfsio.gpu_page_offset IN
    off # 0 => off + nr <= GpuBlocks /\ off + nr <= NBlocks

(* ... the BUG_ON in nvfs_mgroup_fill_mpage() ...                          *)
Reusable(i) == state[i] \in {"INIT", "DONE"}

(* ... the states after it: the piece is queued, the rest is cleared ...   *)
Fill(first, nr) ==
  [i \in Blocks |-> IF i \in first..(first + nr - 1) THEN "QUEUED" ELSE "INIT"]

(* ... and nvfsio->cpuvaddr, which is advanced to the first block.         *)
CpuAddr(first) == nvfsio.cpuvaddr + first

(* One turn of the loop of nvfs_io_start_op() up to nvfs_direct_io(): the  *)
(* I/O is over, a teardown asked for its end, the piece does not fit, or   *)
(* it is issued.  Whether the file is sparse is up to the file.            *)
LoopEnd ==
  /\ pc = "loop" /\ bytes_left = 0
  /\ IF nvfsio.sync THEN Free(bytes_done)
       ELSE pc' = "idle" /\ result' = bytes_done /\ UNCHANGED frees
  /\ UNCHANGED <<state, nvfsio, bytes_done, bytes_left, rdma_info, metapage, va,
                 served, mapped, abandoned>>

LoopRefuse ==
  /\ pc = "loop" /\ bytes_left > 0
  /\ Free(EIO)
  /\ UNCHANGED <<state, nvfsio, bytes_done, bytes_left, rdma_info, metapage, va,
                 served, mapped, abandoned>>

LoopIssue ==
  /\ pc = "loop" /\ bytes_left > 0 /\ FillOk(NrBlocks)
  /\ LET first == nvfsio.gpu_page_offset
         last == first + NrBlocks - 1
     IN /\ state' = Fill(first, NrBlocks)
        /\ \E sparse \in IF nvfsio.op = "READ" THEN BOOLEAN ELSE {FALSE} :
             nvfsio' = [nvfsio EXCEPT !.start = first, !.end = last,
                          !.cpuvaddr = CpuAddr(first), !.failed = "no",
                          !.state = "CLEAN", !.ret = EINVAL,
                          !.check_sparse = sparse]
        /\ IF \E i \in first..last : ~Reusable(i)
             THEN pc' = "bug" /\ UNCHANGED <<result, frees>>
           ELSE IF nvfsio.iter
             THEN pc' = "flight" /\ UNCHANGED <<result, frees>>
           ELSE IF nvfsio.sync THEN Free(EINVAL)
             ELSE pc' = "idle" /\ result' = EINVAL /\ UNCHANGED frees
  /\ abandoned' = (abandoned \/ ~nvfsio.iter)
  /\ UNCHANGED <<bytes_done, bytes_left, rdma_info, metapage, va, served, mapped>>

-----------------------------------------------------------------------------
(* nvfs_mgroup_get_gpu_index_and_off(): where a block's data goes.         *)
GpuIndexAndOff(i) ==
  (nvfsio.cur_gpu_base_index + i \div GpuBlocks) * GpuBlocks + (i % GpuBlocks)

(* nvfs_mgroup_from_page() and nvfs_mgroup_metadata_set_dma_state(): the   *)
(* storage stack maps block k of the piece, perhaps again.  A block        *)
(* outside the active range, or in another state, fails the request.       *)
MapBlock ==
  /\ pc = "flight" /\ ~nvfsio.use_rkeys
  /\ \E k \in 0..(nvfsio.end - nvfsio.start) :
       LET i == nvfsio.cpuvaddr + k IN
       IF i \notin Active
         THEN nvfsio' = [nvfsio EXCEPT !.failed = "dma"] /\ UNCHANGED <<state, mapped>>
       ELSE IF state[i] \in {"QUEUED", "DMA_START"}
         THEN /\ state' = [state EXCEPT ![i] = "DMA_START"]
              /\ mapped' = mapped \cup
                           {<<bytes_done \div Unit + k, GpuIndexAndOff(i)>>}
              /\ UNCHANGED nvfsio
       ELSE /\ state' = [state EXCEPT ![i] = "DMA_ERROR"]
            /\ nvfsio' = [nvfsio EXCEPT !.failed = "dma"]
            /\ UNCHANGED mapped
  /\ UNCHANGED <<pc, bytes_done, bytes_left, rdma_info, metapage, result, frees,
                 va, served, abandoned>>

(* nvfs_get_gpu_sglist_rdma_info() for a list of all pages of the piece:   *)
(* the GPU address of its first block, from the base of the GPU page that  *)
(* the registered address is in, and nvfs_mgroup_from_page_range(), which  *)
(* marks the blocks.                                                       *)
RdmaVaddr ==
  rdma_info.rem_vaddr - (rdma_info.rem_vaddr % GpuBlocks)
    + nvfsio.cur_gpu_base_index * GpuBlocks + nvfsio.gpu_page_offset

RdmaSizeOk ==
  nvfsio.end - nvfsio.start + 1 <= NBlocks - nvfsio.rdma_seg_offset

GetRdmaInfo ==
  /\ pc = "flight" /\ nvfsio.use_rkeys
  /\ IF rdma_info.version = 0
       THEN nvfsio' = [nvfsio EXCEPT !.failed = "info"] /\ UNCHANGED <<state, mapped>>
     ELSE IF RdmaSizeOk /\ \A i \in Active : state[i] \in {"QUEUED", "DMA_START"}
       THEN /\ state' = [i \in Blocks |-> IF i \in Active THEN "DMA_START" ELSE state[i]]
            /\ mapped' = mapped \cup
                 {<<bytes_done \div Unit + k, RdmaVaddr + k>> :
                    k \in 0..(nvfsio.end - nvfsio.start)}
            /\ UNCHANGED nvfsio
     ELSE nvfsio' = [nvfsio EXCEPT !.failed = "dma"] /\ UNCHANGED <<state, mapped>>
  /\ UNCHANGED <<pc, bytes_done, bytes_left, rdma_info, metapage, result, frees,
                 va, served, abandoned>>

-----------------------------------------------------------------------------
(* nvfs_mgroup_check_and_set(NVFS_IO_DONE).  The last block that the       *)
(* returned byte count covers ...                                          *)
LastDone(res) ==
  LET done == DivRoundUp(res, Unit) IN
    IF done < nvfsio.end - nvfsio.start + 1 THEN nvfsio.start + done - 1
                                            ELSE nvfsio.end

(* Mutant: the block in which the file ends is not looked at.              *)
MissingBeforeLast(i, last) == i < last /\ state[i] # "DMA_START"

(* ... a block before it that was not mapped ...                           *)
Missing(i, last) == i <= last /\ state[i] # "DMA_START"

(* ... the error that the walk over the blocks detects ...                 *)
Detects(last) ==
  \E i \in Active : \/ i > last /\ state[i] \notin {"DMA_START", "QUEUED"}
                    \/ Missing(i, last) /\ nvfsio.op = "WRITE"

(* Mutant: a hole is extended without looking whether it is adjacent.      *)
ContinuesAny(walk, i) == walk.last >= 0

Continues(walk, i) == walk.last >= 0 /\ walk.last + 1 = i

(* ... and the holes it records.  Once hole[] is full, a further region    *)
(* sets the limit at which the read is cut; a block that continues it is   *)
(* added to the last hole recorded.                                        *)
Record(walk, i) ==
  LET start == i - nvfsio.start
      n == Len(walk.holes)
      seen == [walk EXCEPT !.last = i]
  IN IF Continues(walk, i) THEN [seen EXCEPT !.holes[n].npages = @ + 1]
     ELSE IF walk.limit # 0 THEN seen
     ELSE IF n >= MaxHoles THEN [seen EXCEPT !.limit = start * Unit]
     ELSE [seen EXCEPT !.holes = Append(@, [start |-> start, npages |-> 1])]

Walk(last) ==
  LET walk[i \in (nvfsio.start - 1)..nvfsio.end] ==
        IF i < nvfsio.start THEN [holes |-> <<>>, last |-> -1, limit |-> 0]
        ELSE IF Missing(i, last) THEN Record(walk[i - 1], i)
        ELSE walk[i - 1]
  IN walk[nvfsio.end]

(* What nvfsio->ret becomes.                                               *)
CheckedRet(res, walk) ==
  IF res < 0 THEN res
  ELSE IF Detects(LastDone(res)) THEN EIO
  ELSE IF nvfsio.op = "READ" /\ walk.limit > 0 THEN walk.limit
  ELSE res

(* Mutant: the blocks of a failed I/O keep their state.                    *)
AfterDoneOnlyGood(res) ==
  IF res < 0 THEN state
    ELSE [i \in Blocks |-> IF i \in Active THEN "DONE" ELSE state[i]]

AfterDone(res) ==
  IF res = ERESTARTSYS THEN state
    ELSE [i \in Blocks |-> IF i \in Active THEN "DONE" ELSE state[i]]

(* nvfs_io_ret(): an error that only nvfsio->ret holds is replaced by      *)
(* PTR_ERR(req->private), which was set to NULL before.                    *)
IoRet(res, ret) == IF res # ret /\ ret < 0 THEN 0 ELSE ret

(* Mutant: the GPU page does not advance with the offset in it.            *)
AdvanceOffsetOnly(io, nr) ==
  [io EXCEPT !.gpu_page_offset = (@ + nr) % GpuBlocks, !.rdma_seg_offset = 0]

(* The GPU offsets of the next piece.                                      *)
AdvanceGpu(io, nr) ==
  [io EXCEPT !.gpu_page_offset = (@ + nr) % GpuBlocks, !.rdma_seg_offset = 0,
             !.cur_gpu_base_index = @ + (io.gpu_page_offset + nr) \div GpuBlocks]

(* Mutant: a sparse piece does not end the I/O.                            *)
GoesOnSparse(io, ret, left) == ret = NrBlocks * Unit /\ left > 0 /\ io.sync

(* The loop goes on after a full piece without holes.                      *)
GoesOn(io, ret, left) ==
  ret = NrBlocks * Unit /\ left > 0 /\ io.sync /\ io.state = "CLEAN"

(* What the storage stack may return: an error, or any number of units.    *)
Returned ==
  {EIO} \cup (IF Restarts THEN {ERESTARTSYS} ELSE {})
        \cup (IF nvfsio.failed # "no" THEN {} ELSE 0..(NrBlocks * Unit))

(* nvfs_io_complete(), and the rest of the turn in nvfs_io_start_op().     *)
Complete ==
  /\ pc = "flight"
  /\ \E res \in Returned :
       LET last == LastDone(res)
           walk == Walk(last)
           nret == CheckedRet(res, walk)
           sparse == /\ nvfsio.op = "READ" /\ res >= 0
                     /\ nvfsio.check_sparse \/ \E i \in Active : Missing(i, last)
           meta == IF sparse /\ walk.holes # <<>> THEN "SPARSE" ELSE nvfsio.state
           ret == IF nvfsio.sync THEN IoRet(res, nret) ELSE nret
           gained == IF ret > 0 THEN ret ELSE 0
           range == IF res = ERESTARTSYS THEN <<nvfsio.start, nvfsio.end>> ELSE <<0, 0>>
           io == [nvfsio EXCEPT !.ret = nret, !.state = meta,
                    !.start = range[1], !.end = range[2],
                    !.fd_offset = @ + gained]
       IN /\ state' = AfterDone(res)
          /\ metapage' = IF sparse
                           THEN [state |-> meta, holes |-> walk.holes,
                                 start_fd_offset |-> nvfsio.fd_offset]
                           ELSE metapage
          /\ bytes_done' = bytes_done + gained
          /\ bytes_left' = bytes_left - gained
          /\ served' = res
          /\ IF GoesOn(io, ret, bytes_left - gained)
               THEN /\ nvfsio' = AdvanceGpu(io, NrBlocks)
                    /\ pc' = "loop" /\ UNCHANGED <<result, frees>>
               ELSE /\ nvfsio' = io
                    /\ Free(IF ret < 0 THEN ret ELSE bytes_done + gained)
          /\ abandoned' = (abandoned \/ res = ERESTARTSYS)
  /\ UNCHANGED <<rdma_info, va, mapped>>

(* A BUG_ON stops the machine.                                             *)
Bug == pc = "bug" /\ UNCHANGED vars

(* What goes on by itself once an ioctl has begun.                         *)
Work == IoRefused \/ IoInit \/ StartRead \/ StartWrite \/ Flush \/ FlushAgain
          \/ LoopEnd \/ LoopRefuse \/ LoopIssue \/ Complete

Next == \/ PinShadowPages \/ SetRdmaRegInfo \/ ClearRdmaRegInfo \/ IoBegin
        \/ Work \/ MapBlock \/ GetRdmaInfo \/ Bug

Spec == Init /\ [][Next]_vars

(* The thread of the ioctl goes on, and the file system ends each request. *)
FairSpec == Spec /\ WF_vars(Work)
-----------------------------------------------------------------------------
(* The type of every field; a BUG_ON is a state of its own.                *)
TypeOK ==
  /\ pc \in {"alloc", "idle", "init", "start", "flush", "dirty", "loop", "flight", "bug"}
  /\ state \in [Blocks -> BlockState]
  /\ nvfsio.start \in Nat /\ nvfsio.end \in Nat /\ nvfsio.cpuvaddr \in Nat
  /\ nvfsio.gpu_page_offset \in 0..(GpuBlocks - 1)
  /\ nvfsio.rdma_seg_offset \in Blocks /\ nvfsio.retrycnt \in 0..MaxRetry
  /\ nvfsio.cur_gpu_base_index \in Nat /\ nvfsio.fd_offset \in Nat
  /\ nvfsio.ret \in Int /\ result \in Int /\ frees \in Nat
  /\ bytes_done \in Nat /\ bytes_left \in Nat
  /\ metapage.state \in {"CLEAN", "SPARSE"} /\ Len(metapage.holes) <= MaxHoles

(* The blocks of the I/O that were mapped for DMA, those that the holes in *)
(* the metapage name, and those that a byte count covers.                  *)
Transferred == {m[1] : m \in mapped}

Reported ==
  UNION {LET first == metapage.start_fd_offset \div Unit + metapage.holes[j].start
         IN first..(first + metapage.holes[j].npages - 1) :
           j \in 1..Len(metapage.holes)}

Covered(bytes) == 0..(DivRoundUp(bytes, Unit) - 1)

(* Every block that is mapped goes to the GPU address of its place in the  *)
(* I/O, also in later pieces, and that address is inside the buffer.       *)
GpuTarget == \A m \in mapped :
               m[2] = va + m[1] /\ m[2] \in VaBase..(VaBase + BufBlocks - 1)

(* A write reports only bytes whose blocks were all mapped to GPU memory:  *)
(* data of the shadow buffer itself never passes for data of the GPU.      *)
WriteChecked == pc = "idle" /\ nvfsio.op = "WRITE" /\ result > 0
                   => Covered(result) \subseteq Transferred

(* A read reports only bytes that arrived in GPU memory or that lie in a   *)
(* hole of the metapage, also when hole[] overflows and the read is cut.   *)
ReadAccounted == pc = "idle" /\ nvfsio.op = "READ" /\ result > 0
                    => Covered(result) \subseteq Transferred \cup Reported

(* The maximal runs of blocks of the last piece that were not mapped.      *)
LastPiece ==
  LET n == DivRoundUp(served, Unit)
      first == metapage.start_fd_offset \div Unit
  IN {k \in 0..(n - 1) : first + k \notin Transferred}

Regions(S) ==
  {r \in S \X (1..NBlocks) :
     /\ r[1]..(r[1] + r[2] - 1) \subseteq S
     /\ r[1] - 1 \notin S /\ r[1] + r[2] \notin S}

(* Those that hole[] has slots for.                                        *)
Slotted(R) == {r \in R : Cardinality({q \in R : q[1] < r[1]}) < MaxHoles}

FoundHoles == pc = "idle" /\ nvfsio.op = "READ" /\ result >= 0 /\ metapage.state = "SPARSE"

(* After a read that found holes, hole[] lists in order the maximal runs   *)
(* of blocks that were not transferred, each exactly.  If there are more   *)
(* than it has slots, the read ends where the first one without a slot     *)
(* begins; hole[] has the ones before it, of which only the last may be    *)
(* too long: a run without a slot goes on to extend it (HolesStop).        *)
HolesExact ==
  FoundHoles =>
    LET H == metapage.holes
        R == Regions(LastPiece)
        full == Cardinality(R) > MaxHoles
    IN /\ Len(H) = Cardinality(Slotted(R))
       /\ \A j, k \in 1..Len(H) : j < k => H[j].start < H[k].start
       /\ \A j \in 1..Len(H) : \E r \in Slotted(R) :
            /\ H[j].start = r[1]
            /\ \/ H[j].npages = r[2]
               \/ full /\ j = MaxHoles /\ H[j].npages > r[2]
       /\ full => \E r \in R \ Slotted(R) :
                    /\ \A q \in R \ Slotted(R) : r[1] <= q[1]
                    /\ result = metapage.start_fd_offset + r[1] * Unit

(* No block is left queued or in DMA when its I/O is over, so the BUG_ON   *)
(* in nvfs_mgroup_fill_mpage() cannot fire for a later piece or I/O,       *)
(* unless an I/O was interrupted or met a file without read_iter, which    *)
(* leaves its blocks as they are.                                          *)
BlocksReusable == pc \in {"idle", "init", "start", "flush", "dirty", "loop"} /\ ~abandoned
                    => \A i \in Blocks : Reusable(i)

(* The pages that the file system is given are the active blocks, and the  *)
(* piece of an RDMA I/O stays in its segment: no mapping of them fails.    *)
NoDmaError == nvfsio.failed # "dma" /\ \A i \in Blocks : state[i] # "DMA_ERROR"

(* An I/O that nvfs_io_init() accepted is never refused half way, when the *)
(* shadow buffer is a whole number of GPU pages.                           *)
PiecesFit == pc = "loop" /\ bytes_left > 0 /\ NBlocks % GpuBlocks = 0
                => FillOk(NrBlocks)

(* An async I/O that returns from the ioctl without having been issued: it *)
(* is empty, or the file has no read_iter or write_iter.                   *)
NotIssued == ~nvfsio.sync /\ (~nvfsio.iter \/ bytes_done + bytes_left = 0)

(* When an I/O is over, nvfs_io_free() was called for it exactly once,     *)
(* also when it failed half way or was refused; an async I/O that was      *)
(* never issued is the exception.                                          *)
FreedOnce == /\ frees <= 1
             /\ pc \notin {"alloc", "idle"} => frees = 0
             /\ pc = "idle" /\ ~NotIssued => frees = 1

(* Every I/O ends, also when the page cache stays dirty, pieces are short  *)
(* or the file ends: neither the flush nor the loop over pieces goes on    *)
(* for ever.                                                               *)
IoEnds == pc \in {"init", "start", "flush", "dirty", "loop", "flight"} ~> pc \in {"idle", "bug"}

-----------------------------------------------------------------------------
(* What a comment of the code says.                                        *)

(* nvfs_mgroup_check_and_set(): a "detected error" that was put into       *)
(* nvfsio->ret is what user space gets to see, as an error.  -EIO is there *)
(* only from the end of a piece: until then it is the -EINVAL with which   *)
(* nvfs_io_init() and the loop begin.                                      *)
ErrorReported == pc = "idle" /\ nvfsio.ret = EIO => result < 0

(* nvfs_mgroup_check_and_set(): when hole[] is full "we stop further hole  *)
(* processing", so that it lists the first runs of blocks that were not    *)
(* transferred and nothing else.                                           *)
HolesStop ==
  FoundHoles =>
    LET H == metapage.holes
    IN {<<H[j].start, H[j].npages>> : j \in 1..Len(H)} = Slotted(Regions(LastPiece))
=============================================================================
