----------------------------- MODULE NvfsBatch -----------------------------
(***************************************************************************)
(* nvfs-batch.c and the I/O ioctls of nvfs-core.c: a batch claims all its  *)
(* buffers, starts its entries in order and gives back what it cannot      *)
(* start, while the statistics count the operations in progress.  The      *)
(* nvfsio of an I/O is part of its buffer, so a second I/O overwrites it.  *)
(***************************************************************************)
EXTENDS Integers, Sequences, FiniteSets

CONSTANTS
  Threads,   \* threads in an ioctl
  Buffers,   \* mapped buffers
  Requests,  \* the sequences of entries [buf, op, kind, sync] user space
             \* submits; kind is "data", "empty", or "no_iter" for a file
             \* without read_iter and write_iter
  MaxIoctls, \* bound: ioctls
  MaxAdmin   \* bound: writes to a module parameter or to the statistics file

Null == [null |-> TRUE]  \* an empty slot of nvfs_batch->nvfsio

VARIABLES
  buf,                    \* state and nvfsio of each buffer
  thr,                    \* the threads
  flight,                 \* buffers whose async I/O the storage has
  nvfs_rw_stats_enabled,
  nvfs_n_op,              \* operations in progress: read, write, batch
  claimed,                \* ghost: buffers with an I/O that was begun and not freed
  stuck,                  \* ghost: those whose async I/O ended its ioctl without
                          \* being issued or freed
  late, reset,            \* ghost: a late start failed; the counters were reset
  left                    \* bounds that are left

ghosts == <<claimed, stuck, late, reset, left>>
vars == <<buf, thr, flight, nvfs_rw_stats_enabled, nvfs_n_op, ghosts>>

Idle == [pc |-> "idle", batch |-> FALSE, stats |-> FALSE, rw_stats |-> FALSE,
         entries |-> <<>>, nvfsio |-> <<>>, i |-> 1]

Init ==
  /\ buf = [b \in Buffers |-> [state |-> "ready", op |-> "read", kind |-> "data",
                                    sync |-> TRUE, stats |-> FALSE]]
  /\ thr = [t \in Threads |-> Idle]
  /\ flight = {}
  /\ nvfs_rw_stats_enabled = TRUE
  /\ nvfs_n_op = [read |-> 0, write |-> 0, batch |-> 0]
  /\ claimed = {} /\ stuck = {} /\ late = FALSE /\ reset = FALSE
  /\ left = [ioctls |-> MaxIoctls, admin |-> MaxAdmin]

Spend(what) == left[what] > 0 /\ left' = [left EXCEPT ![what] = @ - 1]
One(b) == IF b THEN 1 ELSE 0
Entry(t) == thr[t].entries[thr[t].i]
Slot(t) == thr[t].nvfsio[thr[t].i]
AtLast(t) == thr[t].i = Len(thr[t].entries)

(* nvfs_ioctl(), up to nvfs_io_init() or nvfs_io_batch_init(), which reads *)
(* the module parameter once more.  A single I/O is counted before it is   *)
(* claimed.                                                                *)
Ioctl(t) ==
  /\ thr[t].pc = "idle"
  /\ Spend("ioctls")
  /\ \E r \in Requests, batch \in BOOLEAN :
       /\ batch \/ Len(r) = 1
       /\ thr' = [thr EXCEPT ![t] = [Idle EXCEPT !.pc = IF batch THEN "batch_init" ELSE "init",
                                       !.batch = batch, !.stats = nvfs_rw_stats_enabled,
                                       !.rw_stats = nvfs_rw_stats_enabled, !.entries = r]]
       /\ nvfs_n_op' = [nvfs_n_op EXCEPT ![IF batch THEN "batch" ELSE r[1].op] =
                          @ + One(nvfs_rw_stats_enabled)]
  /\ UNCHANGED <<buf, flight, nvfs_rw_stats_enabled, claimed, stuck, late, reset>>

BatchInit(t) ==
  /\ thr[t].pc = "batch_init"
  /\ thr' = [thr EXCEPT ![t].pc = "init", ![t].rw_stats = nvfs_rw_stats_enabled]
  /\ UNCHANGED <<buf, flight, nvfs_rw_stats_enabled, nvfs_n_op, ghosts>>

(* nvfs_io_init() of an entry that claims its buffer.                      *)
InitEntry(t) ==
  LET e == Entry(t) IN
  /\ thr[t].pc = "init" /\ buf[e.buf].state = "ready"
  /\ buf' = [buf EXCEPT ![e.buf] = [state |-> "busy", op |-> e.op, kind |-> e.kind,
                                    sync |-> e.sync, stats |-> thr[t].rw_stats]]
  /\ claimed' = claimed \cup {e.buf}
  /\ nvfs_n_op' = [nvfs_n_op EXCEPT ![e.op] = @ + One(thr[t].batch /\ thr[t].rw_stats)]
  /\ thr' = [thr EXCEPT ![t].nvfsio = Append(@, e.buf),
                        ![t].pc = IF AtLast(t) THEN "start" ELSE @,
                        ![t].i = IF AtLast(t) THEN 1 ELSE @ + 1]
  /\ UNCHANGED <<flight, nvfs_rw_stats_enabled, stuck, late, reset, left>>

(* nvfs_io_init() of an entry that is refused: for its arguments, which    *)
(* leaves a ready buffer as it was, or because the buffer is not ready,    *)
(* which ends it (nvfs_transit_state() stores IO_CALLBACK_END).            *)
InitRefused(t) ==
  /\ thr[t].pc = "init"
  /\ \/ UNCHANGED buf
     \/ /\ buf[Entry(t).buf].state # "ready"
        /\ buf' = [buf EXCEPT ![Entry(t).buf].state = "ended"]
  /\ nvfs_n_op' = IF thr[t].batch THEN nvfs_n_op
                  ELSE [nvfs_n_op EXCEPT ![Entry(t).op] = @ - One(thr[t].stats)]
  /\ thr' = [thr EXCEPT ![t] = IF thr[t].batch THEN [@ EXCEPT !.pc = "undo", !.i = 1] ELSE Idle]
  /\ UNCHANGED <<flight, nvfs_rw_stats_enabled, ghosts>>

-----------------------------------------------------------------------------
(* nvfs_io_free(): counts the I/O off as its nvfsio says and makes the     *)
(* buffer ready, unless it was ended meanwhile.                            *)
(* Mutant: it asks the module parameter instead.                           *)
StatsNow(b) == nvfs_rw_stats_enabled
StatsOf(b) == buf[b].stats

nvfs_io_free(b) ==
  /\ nvfs_n_op' = [nvfs_n_op EXCEPT ![buf[b].op] = @ - One(StatsOf(b))]
  /\ buf' = [buf EXCEPT ![b].state = IF @ = "busy" THEN "ready" ELSE "ended"]
  /\ claimed' = claimed \ {b}
  /\ stuck' = stuck \ {b}

(* nvfs_io_start_op() of a sync entry: the thread waits for it ...         *)
StartSync(t) ==
  LET b == Slot(t) IN
  /\ thr[t].pc = "start" /\ buf[b].kind = "data" /\ buf[b].state = "busy"
  /\ buf[b].sync
  /\ thr' = [thr EXCEPT ![t].pc = "wait"]
  /\ UNCHANGED <<buf, flight, nvfs_rw_stats_enabled, nvfs_n_op, ghosts>>

(* What follows an entry that was started: the next one, or the end of the *)
(* ioctl, which counts a batch off.                                        *)
Started(t) ==
  thr' = [thr EXCEPT ![t] = IF ~AtLast(t) THEN [@ EXCEPT !.pc = "start", !.i = @ + 1]
                            ELSE IF thr[t].batch THEN [@ EXCEPT !.pc = "batch_end"]
                            ELSE Idle]

SyncDone(t) ==
  /\ thr[t].pc = "wait"
  /\ nvfs_io_free(Slot(t))
  /\ Started(t)
  /\ UNCHANGED <<flight, nvfs_rw_stats_enabled, late, reset, left>>

(* ... and of an async one, which the storage has queued.                  *)
StartAsync(t) ==
  LET b == Slot(t) IN
  /\ thr[t].pc = "start" /\ buf[b].kind = "data" /\ buf[b].state = "busy"
  /\ ~buf[b].sync
  /\ flight' = flight \cup {b}
  /\ Started(t)
  /\ UNCHANGED <<buf, nvfs_rw_stats_enabled, nvfs_n_op, ghosts>>

(* An empty one skips the loop, whatever the buffer's state; only a sync   *)
(* one is freed at the end of nvfs_io_start_op().                          *)
StartEmpty(t) ==
  LET b == Slot(t) IN
  /\ thr[t].pc = "start" /\ buf[b].kind = "empty"
  /\ IF buf[b].sync THEN nvfs_io_free(b)
     ELSE stuck' = stuck \cup {b} /\ UNCHANGED <<buf, nvfs_n_op, claimed>>
  /\ Started(t)
  /\ UNCHANGED <<flight, nvfs_rw_stats_enabled, late, reset, left>>

(* What follows one that failed: in a batch its slot is emptied and the    *)
(* other entries are freed, whether they were started or not.              *)
(* Mutant: the slot is kept.                                               *)
EmptiedNot(slots, i) == slots
Emptied(slots, i) == [slots EXCEPT ![i] = Null]

Failed(t) ==
  /\ thr' = [thr EXCEPT ![t] = IF thr[t].batch
                               THEN [@ EXCEPT !.pc = "undo", !.i = 1,
                                              !.nvfsio = Emptied(@, thr[t].i)]
                               ELSE Idle]
  /\ late' = (late \/ thr[t].i > 1)

(* It has freed itself: before the loop (fallocate, the flush), in it, or  *)
(* at its end.  A read that is empty meets none of these ...               *)
StartFails(t) ==
  /\ thr[t].pc \in {"start", "wait"}
  /\ buf[Slot(t)].kind = "empty" => buf[Slot(t)].op = "write"
  /\ nvfs_io_free(Slot(t))
  /\ Failed(t)
  /\ UNCHANGED <<flight, nvfs_rw_stats_enabled, reset, left>>

(* ... and an async one on a file without read_iter and write_iter fails   *)
(* in the loop with -EINVAL, after which only a sync one is freed.         *)
StartNoIter(t) ==
  LET b == Slot(t) IN
  /\ thr[t].pc = "start" /\ buf[b].kind = "no_iter" /\ buf[b].state = "busy"
  /\ ~buf[b].sync
  /\ stuck' = stuck \cup {b}
  /\ Failed(t)
  /\ UNCHANGED <<buf, flight, nvfs_rw_stats_enabled, nvfs_n_op, claimed, reset, left>>

(* nvfs_io_complete() of an async I/O.                                     *)
Complete(b) ==
  /\ b \in flight
  /\ flight' = flight \ {b}
  /\ nvfs_io_free(b)
  /\ UNCHANGED <<thr, nvfs_rw_stats_enabled, late, reset, left>>

-----------------------------------------------------------------------------
(* The cleanup of nvfs_io_batch_init() and of nvfs_io_batch_submit(): one  *)
(* slot at a time.                                                         *)
UndoEntry(t) ==
  LET slot == Slot(t) IN
  /\ thr[t].pc = "undo" /\ thr[t].i <= Len(thr[t].nvfsio)
  /\ IF slot = Null THEN UNCHANGED <<buf, nvfs_n_op, claimed, stuck>> ELSE nvfs_io_free(slot)
  /\ thr' = [thr EXCEPT ![t].i = @ + 1]
  /\ UNCHANGED <<flight, nvfs_rw_stats_enabled, late, reset, left>>

UndoDone(t) ==
  /\ thr[t].pc = "undo" /\ thr[t].i > Len(thr[t].nvfsio)
  /\ thr' = [thr EXCEPT ![t].pc = "batch_end"]
  /\ UNCHANGED <<buf, flight, nvfs_rw_stats_enabled, nvfs_n_op, ghosts>>

(* The end of a batch ioctl, after an error as after a success.            *)
BatchEnd(t) ==
  /\ thr[t].pc = "batch_end"
  /\ nvfs_n_op' = [nvfs_n_op EXCEPT !.batch = @ - One(thr[t].stats)]
  /\ thr' = [thr EXCEPT ![t] = Idle]
  /\ UNCHANGED <<buf, flight, nvfs_rw_stats_enabled, ghosts>>

(* The administrator switches the statistics on or off, at any moment ...  *)
SetStats ==
  /\ Spend("admin")
  /\ nvfs_rw_stats_enabled' = ~nvfs_rw_stats_enabled
  /\ UNCHANGED <<buf, thr, flight, nvfs_n_op, claimed, stuck, late, reset>>

(* ... or resets them: nvfs_stats_reset() leaves nvfs_n_op_reads and       *)
(* nvfs_n_op_writes alone and clears nvfs_n_op_batches.                    *)
Cleared(n) == [n EXCEPT !.batch = 0]

Reset ==
  /\ Spend("admin")
  /\ nvfs_n_op' = Cleared(nvfs_n_op)
  /\ reset' = TRUE
  /\ UNCHANGED <<buf, thr, flight, nvfs_rw_stats_enabled, claimed, stuck, late>>

Next ==
  \/ \E t \in Threads :
       \/ Ioctl(t) \/ BatchInit(t) \/ InitEntry(t) \/ InitRefused(t)
       \/ StartSync(t) \/ SyncDone(t) \/ StartAsync(t) \/ StartEmpty(t)
       \/ StartFails(t) \/ StartNoIter(t)
       \/ UndoEntry(t) \/ UndoDone(t) \/ BatchEnd(t)
  \/ \E b \in Buffers : Complete(b)
  \/ SetStats \/ Reset

Spec == Init /\ [][Next]_vars

-----------------------------------------------------------------------------
(* The ioctls that an I/O belongs to until it is started: those with its   *)
(* buffer in a slot they have not come to.                                 *)
Holds(t, b) ==
  \E i \in DOMAIN thr[t].nvfsio :
    /\ thr[t].nvfsio[i] = b
    /\ \/ thr[t].pc = "init"
       \/ thr[t].pc \in {"start", "wait", "undo"} /\ i >= thr[t].i

(* nvfs_io_batch_init(), nvfs_io_batch_submit(): every I/O that was begun  *)
(* is at any moment the business of exactly one ioctl or of the storage,   *)
(* so it is freed, and once.  Two exceptions: an async I/O that was not    *)
(* issued, because it is empty or its file has no read_iter (stuck), is    *)
(* nobody's, and its buffer stays busy; and nothing is said any more once  *)
(* a start has failed after another entry was started ("XXX: wait for the  *)
(* ongoing ops, or cancel them").                                          *)
ClaimsEnd ==
  ~late => \A b \in Buffers :
             /\ Cardinality({t \in Threads : Holds(t, b)}) + One(b \in flight)
                  + One(b \in stuck) = One(b \in claimed)
             /\ b \in stuck => ~buf[b].sync /\ buf[b].kind # "data"

(* nvfs_stats_show(): the operations in progress it prints are those in    *)
(* progress, although the statistics are switched on and off and reset     *)
(* under them.  "self managed counters are not reset", but for BatchIO.    *)
OpsShown ==
  ~late =>
    /\ \A op \in {"read", "write"} :
         nvfs_n_op[op] = Cardinality({b \in claimed : buf[b].op = op /\ buf[b].stats})
                         + Cardinality({t \in Threads :
                             /\ thr[t].pc = "init" /\ ~thr[t].batch
                             /\ thr[t].stats /\ thr[t].entries[1].op = op})
    /\ ~reset => nvfs_n_op.batch =
         Cardinality({t \in Threads : thr[t].batch /\ thr[t].stats})
=============================================================================
