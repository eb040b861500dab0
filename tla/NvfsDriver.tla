----------------------------- MODULE NvfsDriver -----------------------------
(***************************************************************************)
(* The driver as a whole: the operations it counts on each CPU, the        *)
(* storage modules it registers with while it has any, and its unloading.  *)
(* A process opens the device, maps one buffer at a time, does I/O on it,  *)
(* unmaps it and closes the device; block-device interrupts and the        *)
(* callback of the NVIDIA driver end what the process leaves behind.  A    *)
(* buffer is the one of NvfsMgroup with its references by name and only    *)
(* the io_state that the drop of a reference depends on.                   *)
(***************************************************************************)
EXTENDS Integers, FiniteSets

CONSTANTS
  Procs,     \* processes that use the driver
  Cpus,      \* the number of possible CPUs
  Modules,   \* the length of modules_list: the entries with symbols
  MaxOpens, MaxMaps, MaxPieces,  \* bounds: opens, nvfs_map()s, pieces of I/O
  NoAgent    \* nobody holds the mutex

user(p) == <<"user", p>>  \* the thread in open, ioctl and close
mm(p) == <<"mm", p>>      \* the thread in munmap
cb(p) == <<"cb", p>>      \* nvfs_get_pages_free_callback()
Exit == <<"exit">>        \* nvfs_exit()
Agents == {user(p) : p \in Procs} \cup {mm(p) : p \in Procs}
            \cup {cb(p) : p \in Procs} \cup {Exit}

VARIABLES
  nvfs_n_ops,        \* the counters of operations, one per CPU
  nvfs_module_mutex, \* its holder
  found,             \* modules_list[m].found; its function pointers go with it
  storage,           \* external: each storage module
  buf,               \* each process's buffer
  pc,                \* where each agent is
  cur, sum,          \* the index and the sum of its loop over CPUs or entries
  ending,            \* interrupts that have ended an I/O and not yet counted it off
  left               \* bounds that are left

counters == <<cur, sum>>
vars == <<nvfs_n_ops, nvfs_module_mutex, found, storage, buf, pc, counters, ending, left>>

NoBuffer == [state |-> "none", refs |-> {}, sync |-> FALSE, flight |-> FALSE]

Init ==
  /\ nvfs_n_ops = [c \in 1 .. Cpus |-> 0]
  /\ nvfs_module_mutex = NoAgent
  /\ found = [m \in 1 .. Modules |-> FALSE]
  /\ storage \in [1 .. Modules -> {[loaded |-> b, users |-> 0, ops |-> FALSE] : b \in BOOLEAN}]
  /\ buf = [p \in Procs |-> NoBuffer]
  /\ pc = [a \in Agents |-> IF a \in {user(p) : p \in Procs} THEN "out" ELSE "idle"]
  /\ cur = [a \in Agents |-> 1]
  /\ sum = [a \in Agents |-> 0]
  /\ left = [opens |-> MaxOpens, maps |-> MaxMaps, pieces |-> MaxPieces]
  /\ ending = 0

Goto(a, l) == pc' = [pc EXCEPT ![a] = l]
nvfs_get_ops(c) == nvfs_n_ops' = [nvfs_n_ops EXCEPT ![c] = @ + 1]
nvfs_put_ops(c) == nvfs_n_ops' = [nvfs_n_ops EXCEPT ![c] = @ - 1]
Lock(a) == nvfs_module_mutex = NoAgent /\ nvfs_module_mutex' = a
Unlock == nvfs_module_mutex' = NoAgent
Enter(a) == cur' = [cur EXCEPT ![a] = 1] /\ sum' = [sum EXCEPT ![a] = 0]
Spend(what) == left[what] > 0 /\ left' = [left EXCEPT ![what] = @ - 1]

-----------------------------------------------------------------------------
(* nvfs_count_ops(): the counters are read one after the other, while      *)
(* other CPUs go on counting.  The caller acts on the sum at the last one. *)
ReadCpu(a) ==
  /\ pc[a] \in {"close_count", "free_count", "free_recount", "exit_count"}
  /\ cur[a] < Cpus
  /\ sum' = [sum EXCEPT ![a] = @ + nvfs_n_ops[cur[a]]]
  /\ cur' = [cur EXCEPT ![a] = @ + 1]
  /\ UNCHANGED <<nvfs_n_ops, nvfs_module_mutex, found, storage, buf, pc, left, ending>>

Counted(a, l) == pc[a] = l /\ cur[a] = Cpus
CountsZero(a) == sum[a] + nvfs_n_ops[cur[a]] <= 0

(* The storage modules are loaded and unloaded by others; one whose        *)
(* symbols are in use cannot be.                                           *)
Insmod(m) ==
  /\ ~storage[m].loaded
  /\ storage' = [storage EXCEPT ![m].loaded = TRUE]
  /\ UNCHANGED <<nvfs_n_ops, nvfs_module_mutex, found, buf, pc, counters, left, ending>>

Rmmod(m) ==
  /\ storage[m].loaded /\ storage[m].users = 0
  /\ storage' = [storage EXCEPT ![m].loaded = FALSE]
  /\ UNCHANGED <<nvfs_n_ops, nvfs_module_mutex, found, buf, pc, counters, left, ending>>

(* What probe_module_list() makes of an entry: nothing if it is registered *)
(* or its module is absent; no change if the module exports half of the    *)
(* pair or refuses the registration, as the symbols taken are put back.    *)
Registered(s) == [s EXCEPT !.users = @ + 2, !.ops = TRUE]
(* Mutant: the symbol of the deregister function is not put back.          *)
RefusedKeeps(s) == [s EXCEPT !.users = @ + 1]
Refused(s) == s

Probed(m) == IF found[m] \/ ~storage[m].loaded THEN {<<found[m], storage[m]>>}
             ELSE {<<TRUE, Registered(storage[m])>>, <<FALSE, Refused(storage[m])>>}

(* What cleanup_module_list() leaves of an entry.                          *)
Deregistered(s) == [s EXCEPT !.users = @ - 2, !.ops = FALSE]
Cleaned(m) == IF found[m] THEN <<FALSE, Deregistered(storage[m])>>
              ELSE <<FALSE, storage[m]>>

(* One entry of a walk over the list; after the last the mutex is given up *)
(* and the agent goes on at next.                                          *)
SetEntry(m, e) ==
  found' = [found EXCEPT ![m] = e[1]] /\ storage' = [storage EXCEPT ![m] = e[2]]
NextEntry(a, next) ==
  /\ cur' = [cur EXCEPT ![a] = (@ % Modules) + 1]
  /\ IF cur[a] < Modules THEN UNCHANGED <<pc, nvfs_module_mutex>>
     ELSE Goto(a, next) /\ Unlock
  /\ UNCHANGED <<nvfs_n_ops, buf, sum, left, ending>>

-----------------------------------------------------------------------------
(* nvfs_open().  The kernel takes a reference to the driver before it      *)
(* calls it, which it refuses once nvfs_exit() has begun, so nvfs_shutdown *)
(* is clear.                                                               *)
Open(p, c) ==
  /\ pc[user(p)] = "out" /\ pc[Exit] = "idle"
  /\ Spend("opens")
  /\ Lock(user(p))
  /\ nvfs_get_ops(c)
  /\ Goto(user(p), "probe")
  /\ Enter(user(p))
  /\ UNCHANGED <<found, storage, buf, ending>>

Probe(p) ==
  /\ pc[user(p)] = "probe"
  /\ \E e \in Probed(cur[user(p)]) : SetEntry(cur[user(p)], e)
  /\ NextEntry(user(p), "open")

(* A mapping of the device keeps it open, until munmap has returned.       *)
Vma(p) == "mmap" \in buf[p].refs \/ pc[mm(p)] # "idle"

(* nvfs_close()                                                            *)
Close(p, c) ==
  /\ pc[user(p)] = "open" /\ ~Vma(p)
  /\ Lock(user(p))
  /\ nvfs_put_ops(c)
  /\ Goto(user(p), "close_count")
  /\ Enter(user(p))
  /\ UNCHANGED <<found, storage, buf, left, ending>>

CloseCounted(p) ==
  /\ Counted(user(p), "close_count")
  /\ IF CountsZero(user(p)) THEN Goto(user(p), "close_clean") /\ UNCHANGED nvfs_module_mutex
     ELSE Goto(user(p), "out") /\ Unlock
  /\ Enter(user(p))
  /\ UNCHANGED <<nvfs_n_ops, found, storage, buf, left, ending>>

Clean(a, l, next) ==
  /\ pc[a] = l
  /\ SetEntry(cur[a], Cleaned(cur[a]))
  /\ NextEntry(a, next)

CloseClean(p) == Clean(user(p), "close_clean", "out")

-----------------------------------------------------------------------------
(* nvfs_map() of a buffer that mmap has made.  One that fails leaves no    *)
(* operation; what becomes of its buffer is in NvfsMgroup.                 *)
Map(p, c) ==
  /\ pc[user(p)] = "open" /\ buf[p].state = "none" /\ ~Vma(p)
  /\ pc[cb(p)] = "idle"
  /\ Spend("maps")
  /\ nvfs_get_ops(c)
  /\ Goto(user(p), "map")
  /\ UNCHANGED <<nvfs_module_mutex, found, storage, buf, counters, ending>>

MapReady(p) ==
  /\ pc[user(p)] = "map"
  /\ buf' = [buf EXCEPT ![p] = [NoBuffer EXCEPT !.state = "ready", !.refs = {"mmap", "map"}]]
  /\ Goto(user(p), "open")
  /\ UNCHANGED <<nvfs_n_ops, nvfs_module_mutex, found, storage, counters, left, ending>>

(* Mutant: the operation of a map that failed is not given back.           *)
MapFailsKeeps(p, c) ==
  /\ pc[user(p)] = "map"
  /\ Goto(user(p), "open")
  /\ UNCHANGED <<nvfs_n_ops, nvfs_module_mutex, found, storage, buf, counters, left, ending>>

MapFails(p, c) ==
  /\ pc[user(p)] = "map"
  /\ nvfs_put_ops(c)
  /\ Goto(user(p), "open")
  /\ UNCHANGED <<nvfs_module_mutex, found, storage, buf, counters, left, ending>>

-----------------------------------------------------------------------------
(* nvfs_io_init() claims the buffer; nvfs_io_start_op() counts each piece. *)
IoBegin(p, sync) ==
  /\ pc[user(p)] = "open" /\ buf[p].state = "ready"
  /\ buf' = [buf EXCEPT ![p].state = "busy", ![p].refs = @ \cup {"io"}, ![p].sync = sync]
  /\ Goto(user(p), "io")
  /\ UNCHANGED <<nvfs_n_ops, nvfs_module_mutex, found, storage, counters, left, ending>>

(* Mutant: only the pieces of a sync I/O are counted.                      *)
IoPieceUncounted(p, c) ==
  /\ pc[user(p)] = "io" /\ buf[p].state = "busy"
  /\ Spend("pieces")
  /\ IF buf[p].sync THEN nvfs_get_ops(c) ELSE UNCHANGED nvfs_n_ops
  /\ buf' = [buf EXCEPT ![p].flight = ~buf[p].sync]
  /\ Goto(user(p), IF buf[p].sync THEN "io_wait" ELSE "open")
  /\ UNCHANGED <<nvfs_module_mutex, found, storage, counters, ending>>

IoPiece(p, c) ==
  /\ pc[user(p)] = "io" /\ buf[p].state = "busy"
  /\ Spend("pieces")
  /\ nvfs_get_ops(c)
  /\ buf' = [buf EXCEPT ![p].flight = ~buf[p].sync]
  /\ Goto(user(p), IF buf[p].sync THEN "io_wait" ELSE "open")
  /\ UNCHANGED <<nvfs_module_mutex, found, storage, counters, ending>>

(* nvfs_io_complete() of a sync piece, called by nvfs_io_ret().            *)
IoPieceDone(p, c) ==
  /\ pc[user(p)] = "io_wait"
  /\ nvfs_put_ops(c)
  /\ Goto(user(p), "io")
  /\ UNCHANGED <<nvfs_module_mutex, found, storage, buf, counters, left, ending>>

(* nvfs_io_free(): drops the reference of the I/O and makes the buffer     *)
(* ready.  If that was asked to end, a sync I/O drops the reference of     *)
(* nvfs_map() too, and otherwise the callback will.                        *)
Ended(b) ==
  CASE b.state = "busy" -> [b EXCEPT !.state = "ready", !.refs = @ \ {"io"}, !.flight = FALSE]
    [] b.state = "terminate_req" /\ b.sync ->
         [b EXCEPT !.state = "terminated", !.refs = @ \ {"io", "map"}, !.flight = FALSE]
    [] OTHER -> [b EXCEPT !.state = "callback_end", !.refs = @ \ {"io"}, !.flight = FALSE]

(* After the last reference nvfs_mgroup_free() runs in its holder.         *)
Resume(a, b, next) == Goto(a, IF b.refs = {} THEN "free" ELSE next)

(* The end of a sync I/O, or of an async one that was not issued.          *)
IoEnd(p) ==
  /\ pc[user(p)] = "io"
  /\ buf' = [buf EXCEPT ![p] = Ended(@)]
  /\ Resume(user(p), Ended(buf[p]), "open")
  /\ UNCHANGED <<nvfs_n_ops, nvfs_module_mutex, found, storage, counters, left, ending>>

(* nvfs_io_complete() of an async I/O, in an interrupt: first the buffer,  *)
(* then the count, on whatever CPU the interrupt is.                       *)
IrqEnd(p) ==
  /\ buf[p].flight
  /\ buf' = [buf EXCEPT ![p] = Ended(@)]
  /\ ending' = ending + 1
  /\ UNCHANGED <<nvfs_n_ops, nvfs_module_mutex, found, storage, pc, counters, left>>

IrqPut(c) ==
  /\ ending > 0 /\ ending' = ending - 1
  /\ nvfs_put_ops(c)
  /\ UNCHANGED <<nvfs_module_mutex, found, storage, buf, pc, counters, left>>

-----------------------------------------------------------------------------
(* nvfs_vma_close(): ends an idle buffer at once and asks a busy one to    *)
(* end, without waiting for it.                                            *)
Unmapped(b) ==
  CASE b.state = "ready" -> [b EXCEPT !.state = "terminated", !.refs = @ \ {"map", "mmap"}]
    [] b.state = "busy" -> [b EXCEPT !.state = "terminate_req", !.refs = @ \ {"mmap"}]
    [] OTHER -> [b EXCEPT !.refs = @ \ {"mmap"}]

Munmap(p) ==
  /\ "mmap" \in buf[p].refs
  /\ buf' = [buf EXCEPT ![p] = Unmapped(@)]
  /\ Resume(mm(p), Unmapped(buf[p]), "idle")
  /\ UNCHANGED <<nvfs_n_ops, nvfs_module_mutex, found, storage, counters, left, ending>>

(* nvfs_get_pages_free_callback() ends an idle buffer, or takes over from  *)
(* munmap and waits for the I/O.  One that finds the buffer terminated     *)
(* only waits for the free: see NvfsMgroup.  It comes after nvfs_map() has *)
(* made the buffer ready: one that comes before, for pages already pinned, *)
(* is left out.                                                            *)
Callback(p) ==
  /\ pc[cb(p)] = "idle" /\ "map" \in buf[p].refs
  /\ buf' = [buf EXCEPT ![p].state =
               CASE @ = "ready" -> "callback_end"
                 [] @ \in {"busy", "terminate_req"} -> "callback_req"
                 [] OTHER -> @]
  /\ Goto(cb(p), "wait")
  /\ UNCHANGED <<nvfs_n_ops, nvfs_module_mutex, found, storage, counters, left, ending>>

CallbackPut(p) ==
  /\ pc[cb(p)] = "wait" /\ buf[p].state = "callback_end"
  /\ buf' = [buf EXCEPT ![p].refs = @ \ {"map"}]
  /\ Resume(cb(p), buf'[p], "idle")
  /\ UNCHANGED <<nvfs_n_ops, nvfs_module_mutex, found, storage, counters, left, ending>>

-----------------------------------------------------------------------------
(* nvfs_free_gpu_info(), from nvfs_mgroup_free(): the pages are released   *)
(* and the operation is given back; if it was the last, twice counted, the *)
(* storage modules are released.                                           *)
FreePut(a, c) ==
  /\ pc[a] = "free"
  /\ buf' = [buf EXCEPT ![a[2]] = NoBuffer]
  /\ nvfs_put_ops(c)
  /\ Goto(a, "free_count")
  /\ Enter(a)
  /\ UNCHANGED <<nvfs_module_mutex, found, storage, left, ending>>

(* Where the agent goes on after the free.                                 *)
After(a) == IF a[1] = "user" THEN "open" ELSE "idle"

FreeCounted(a) ==
  /\ Counted(a, "free_count")
  /\ Goto(a, IF CountsZero(a) THEN "free_lock" ELSE After(a))
  /\ Enter(a)
  /\ UNCHANGED <<nvfs_n_ops, nvfs_module_mutex, found, storage, buf, left, ending>>

FreeLock(a) ==
  /\ pc[a] = "free_lock"
  /\ Lock(a)
  /\ Goto(a, "free_recount")
  /\ Enter(a)
  /\ UNCHANGED <<nvfs_n_ops, found, storage, buf, left, ending>>

FreeRecounted(a) ==
  /\ Counted(a, "free_recount")
  /\ IF CountsZero(a) THEN Goto(a, "free_clean") /\ UNCHANGED nvfs_module_mutex
     ELSE Goto(a, After(a)) /\ Unlock
  /\ Enter(a)
  /\ UNCHANGED <<nvfs_n_ops, found, storage, buf, left, ending>>

FreeClean(a) == Clean(a, "free_clean", After(a))

-----------------------------------------------------------------------------
(* nvfs_exit(): allowed when no file is open; polls until nothing counts.  *)
ExitBegin ==
  /\ pc[Exit] = "idle"
  /\ \A p \in Procs : pc[user(p)] = "out"
  /\ Goto(Exit, "exit_count")
  /\ Enter(Exit)
  /\ UNCHANGED <<nvfs_n_ops, nvfs_module_mutex, found, storage, buf, left, ending>>

ExitCounted ==
  /\ Counted(Exit, "exit_count")
  /\ IF CountsZero(Exit) THEN Goto(Exit, "unloaded") ELSE UNCHANGED pc
  /\ Enter(Exit)
  /\ UNCHANGED <<nvfs_n_ops, nvfs_module_mutex, found, storage, buf, left, ending>>

-----------------------------------------------------------------------------
FreeStep(a) == \/ \E c \in 1 .. Cpus : FreePut(a, c)
               \/ FreeCounted(a) \/ FreeLock(a) \/ FreeRecounted(a) \/ FreeClean(a)

Process(p) ==
  \/ \E c \in 1 .. Cpus :
       \/ Open(p, c) \/ Close(p, c) \/ Map(p, c) \/ MapFails(p, c)
       \/ IoPiece(p, c) \/ IoPieceDone(p, c)
  \/ Probe(p) \/ CloseCounted(p) \/ CloseClean(p)
  \/ MapReady(p) \/ IoEnd(p) \/ Munmap(p)
  \/ \E sync \in BOOLEAN : IoBegin(p, sync)

CallbackStep(p) == Callback(p) \/ CallbackPut(p) \/ ReadCpu(cb(p)) \/ FreeStep(cb(p))
IrqStep == (\E p \in Procs : IrqEnd(p)) \/ (\E c \in 1 .. Cpus : IrqPut(c))
ExitStep == ReadCpu(Exit) \/ ExitCounted

Next ==
  \/ \E p \in Procs :
       \/ Process(p)
       \/ \E a \in {user(p), mm(p)} : ReadCpu(a) \/ FreeStep(a)
       \/ CallbackStep(p)
  \/ IrqStep
  \/ ExitBegin \/ ExitStep
  \/ \E m \in 1 .. Modules : Insmod(m) \/ Rmmod(m)

Spec == Init /\ [][Next]_vars

(* Storage completes every request, the NVIDIA driver calls back for pages *)
(* that were not put, at the latest when the process is gone, and the      *)
(* scheduler runs a thread that can run.                                   *)
FairSpec ==
  /\ Spec
  /\ WF_vars(IrqStep) /\ WF_vars(ExitStep)
  /\ \A p \in Procs : WF_vars(CallbackStep(p))

-----------------------------------------------------------------------------
(* probe_module_list(), cleanup_module_list(): "We must have complete      *)
(* pairs": whatever opens, closes and loads in between, the driver holds   *)
(* the symbols of exactly the loaded modules that hold its operations, so  *)
(* no storage module goes away with them and none is kept for nothing.     *)
RegistrationPaired ==
  \A m \in 1 .. Modules :
    storage[m] = IF found[m] THEN [loaded |-> TRUE, users |-> 2, ops |-> TRUE]
                 ELSE [storage[m] EXCEPT !.users = 0, !.ops = FALSE]

(* nvfs_exit(): the sum it waits for is zero only when no I/O is in flight *)
(* or has still to be counted off, and no GPU page is pinned with the      *)
(* callback into the driver.                                               *)
UnloadSafe ==
  pc[Exit] = "unloaded" =>
    /\ ending = 0
    /\ \A p \in Procs : buf[p] = NoBuffer /\ pc[user(p)] = "out" /\ pc[mm(p)] = "idle"

(* nvfs_exit(): every operation is counted off, on whatever CPU, so an     *)
(* unloading that has begun ends.                                          *)
UnloadEnds == (pc[Exit] = "exit_count") ~> (pc[Exit] = "unloaded")
=============================================================================
