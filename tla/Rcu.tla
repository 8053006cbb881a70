---------------------------------- MODULE Rcu ----------------------------------
(* Timestamp-based read-copy-update of kernel/lock/rcu.c, with the parts of the *)
(* scheduler it hangs on.                                                       *)
(*                                                                              *)
(* A CPU runs one of its tasks or its callback kthread (named by the CPU).      *)
(* The kernel is not preempted: a thread leaves its CPU where it yields, sleeps  *)
(* or runs in user mode, and never in a section of rcu_read_lock(), which is    *)
(* push_off(). switch_to() stores the jiffies count, a number far  *)
(* below any r_time(), in rcu_timestamp; the r_time() of the quiescent state is *)
(* stored only at the end of scheduler_yield(): SwitchBegin and SwitchEnd.      *)
(* The clock is r_time(): it ticks by itself, and any number of steps of any    *)
(* number of CPUs may fall into one tick.                                       *)
(*                                                                              *)
(* Tasks stay on their CPU: scheduler_yield() puts the running thread back on   *)
(* the same run queue, and no routine of rcu.c sleeps except the kthread, whose *)
(* affinity is its CPU. The callback lists are sets: their order matters to     *)
(* nobody. The gp_* and lazy_* counters are left out, as no callback and no     *)
(* synchronize_rcu() reads them; synchronize_rcu_expedited() is not modelled.   *)
EXTENDS Integers, FiniteSets

CONSTANTS
    CPUs,       \* the CPUs; also the names of their callback kthreads
    Tasks,      \* the other threads that use RCU
    cpuid,      \* the CPU each task runs on
    Callbacks,  \* the rcu_heads passed to call_rcu(), each of them once
    Ops,        \* what each task calls: "read", "call", "nomem", "sync", "barrier"
    Kthreads,   \* the CPUs for which rcu_kthread_start_cpu() created a kthread
    Booting,    \* the CPUs that have not context-switched yet
    MaxTime,    \* bound: the last value of the clock
    MaxWait     \* bound: max_wait, 100000 in the code

None == "none"

ASSUME CpuAssumption ==
    /\ cpuid \in [Tasks -> CPUs]
    /\ CPUs \cap Tasks = {} /\ Callbacks \cap Tasks = {} /\ None \notin Callbacks
    /\ Ops \in [Tasks -> SUBSET {"read", "call", "nomem", "sync", "barrier"}]
    /\ Kthreads \subseteq CPUs /\ Booting \subseteq CPUs
ASSUME BoundAssumption == MaxTime \in Nat /\ MaxTime >= 2 /\ MaxWait \in Nat

VARIABLES
    now,            \* r_time()
    rcu_timestamp,  \* cpu_local.rcu_timestamp of each CPU
    run,            \* the thread each CPU runs
    switching,      \* the CPUs between switch_to() and rcu_check_callbacks()
    reading,        \* the tasks in a read-side critical section
    since,          \* ghost: the tick in which a task's section began
    pending,        \* pending_head .. pending_tail of each CPU
    pc,             \* where each thread stands in rcu.c
    cont,           \* what synchronize_rcu() returns to
    head,           \* the callback a task is registering or falls back on
    left,           \* CPUs rcu_get_min_other_cpu_timestamp() has still to read
    min,            \* min_ts
    ready,          \* ready_head list
    notready,       \* notready_head list
    wait,           \* wait_count of synchronize_rcu()
    round,          \* wait_count of rcu_barrier()
    stamp,          \* head->timestamp; sync_timestamp of a task
    barrier_timestamp,
    invoked,        \* the callbacks whose function has been called
    must,           \* ghost: readers older than a callback or a synchronize_rcu()
    owed            \* ghost: callbacks registered before a task's rcu_barrier()

cpuVars == <<rcu_timestamp, run, switching>>
readVars == <<reading, since>>
scanVars == <<left, min>>
listVars == <<pending, ready, notready, invoked>>
syncVars == <<cont, head, wait, round, stamp, barrier_timestamp>>
ghostVars == <<must, owed>>
vars == <<now, cpuVars, readVars, pc, scanVars, listVars, syncVars, ghostVars>>

Threads == CPUs \cup Tasks
CpuOf(p) == IF p \in CPUs THEN p ELSE cpuid[p]
Jiffs == 1                          \* get_jiffs(): below every r_time()
RCU_UINT64_MAX == MaxTime + 1

\* The thread that executes on its CPU now.
Running(p) == run[CpuOf(p)] = p /\ CpuOf(p) \notin switching
At(p, where) == Running(p) /\ pc[p] = where
Goto(p, where) == pc' = [pc EXCEPT ![p] = where]

--------------------------------------------------------------------------------
\* The clock and the scheduler.

Tick ==
    /\ now < MaxTime
    /\ now' = now + 1
    /\ UNCHANGED <<cpuVars, readVars, pc, scanVars, listVars, syncVars, ghostVars>>

\* No thread leaves its CPU while it reads (the assertion on noff).
MayYield(p) == Running(p) /\ p \notin reading

Runnable(p) == pc[p] # "sleep"

\* switch_to(): the old thread leaves, the jiffies overwrite the timestamp.
SwitchTo(c, p) ==
    /\ p # run[c] /\ CpuOf(p) = c /\ Runnable(p)
    /\ run' = [run EXCEPT ![c] = p]
    /\ rcu_timestamp' = [rcu_timestamp EXCEPT ![c] = Jiffs]
    /\ switching' = switching \cup {c}

\* rcu_note_context_switch(): this moment is a quiescent state of the CPU.
rcu_note_context_switch(c) ==
    /\ rcu_timestamp' = [rcu_timestamp EXCEPT ![c] = now]
    /\ UNCHANGED run

\* scheduler_yield() up to the switch, or all of it when nothing else runs.
scheduler_yield(c) ==
    /\ MayYield(run[c])
    /\ \/ \E p \in Threads : SwitchTo(c, p)
       \/ /\ Runnable(run[c])
          /\ rcu_note_context_switch(c)
          /\ UNCHANGED switching

\* A thread yields outside rcu.c, in the function of a callback, or to sleep.
Yield(c) ==
    /\ pc[run[c]] \in {"idle", "invoke", "sleep"}
    /\ scheduler_yield(c)
    /\ UNCHANGED <<now, readVars, pc, scanVars, listVars, syncVars, ghostVars>>

\* The incoming thread ends its scheduler_yield() with rcu_check_callbacks().
SwitchEnd(c) ==
    /\ c \in switching
    /\ rcu_note_context_switch(c)
    /\ switching' = switching \ {c}
    /\ UNCHANGED <<now, readVars, pc, scanVars, listVars, syncVars, ghostVars>>

--------------------------------------------------------------------------------
\* Read-side critical sections; nested ones only count in between.

rcu_read_lock(t) ==
    /\ At(t, "idle")
    /\ t \notin reading
    /\ reading' = reading \cup {t}
    /\ since' = [since EXCEPT ![t] = now]
    /\ UNCHANGED <<now, cpuVars, pc, scanVars, listVars, syncVars, ghostVars>>

rcu_read_unlock(t) ==
    /\ At(t, "idle")
    /\ t \in reading
    /\ reading' = reading \ {t}
    /\ since' = [since EXCEPT ![t] = 0]
    /\ must' = [x \in DOMAIN must |-> must[x] \ {t}]
    /\ UNCHANGED <<now, cpuVars, pc, scanVars, listVars, syncVars, owed>>

--------------------------------------------------------------------------------
\* call_rcu()

Registered == {b \in Callbacks : stamp[b] # 0} \cup invoked

\* func(data) is called, and the rcu_head is gone.
Invoke(b) ==
    /\ invoked' = invoked \cup {b}
    /\ stamp' = [stamp EXCEPT ![b] = 0]
    /\ must' = [must EXCEPT ![b] = {}]

\* The timestamp is taken first; the clock and the other CPUs run on.
call_rcu(t, b) ==
    /\ At(t, "idle")
    /\ b \notin Registered
    /\ stamp' = [stamp EXCEPT ![b] = now]
    /\ must' = [must EXCEPT ![b] = reading]
    /\ head' = [head EXCEPT ![t] = b]
    /\ Goto(t, "enqueue")
    /\ UNCHANGED <<now, cpuVars, readVars, scanVars, listVars, cont, wait, round,
                   barrier_timestamp, owed>>

rcu_cblist_enqueue(t) ==
    pending' = [pending EXCEPT ![cpuid[t]] = @ \cup {head[t]}]

call_rcu_enqueue(t) ==
    /\ At(t, "enqueue")
    /\ rcu_cblist_enqueue(t)
    /\ head' = [head EXCEPT ![t] = None]
    /\ Goto(t, "idle")
    /\ UNCHANGED <<now, cpuVars, readVars, scanVars, ready, notready, invoked,
                   cont, wait, round, stamp, barrier_timestamp, ghostVars>>

--------------------------------------------------------------------------------
\* synchronize_rcu(), as called for `then`

\* sync_timestamp is read first; xs is what waits for the readers there are.
SyncStart(t, then, xs) ==
    /\ stamp' = [x \in DOMAIN stamp |-> IF x \in xs THEN now ELSE stamp[x]]
    /\ must' = [x \in DOMAIN must |-> IF x \in xs THEN reading ELSE must[x]]
    /\ cont' = [cont EXCEPT ![t] = then]
    /\ wait' = [wait EXCEPT ![t] = 0]
    /\ Goto(t, "note")

synchronize_rcu(t) ==
    /\ At(t, "idle")
    /\ t \notin reading
    /\ SyncStart(t, "idle", {t})
    /\ UNCHANGED <<now, cpuVars, readVars, scanVars, listVars, head, round,
                   barrier_timestamp, owed>>

\* call_rcu(NULL, ...) when slab_alloc() fails: wait here, then call func(data).
call_rcu_nomem(t, b) ==
    /\ At(t, "idle")
    /\ t \notin reading
    /\ b \notin Registered
    /\ SyncStart(t, "func", {t, b})
    /\ head' = [head EXCEPT ![t] = b]
    /\ UNCHANGED <<now, cpuVars, readVars, scanVars, listVars, round,
                   barrier_timestamp, owed>>

call_rcu_func(t) ==
    /\ At(t, "func")
    /\ Invoke(head[t])
    /\ head' = [head EXCEPT ![t] = None]
    /\ Goto(t, "idle")
    /\ UNCHANGED <<now, cpuVars, readVars, scanVars, pending, ready, notready,
                   cont, wait, round, barrier_timestamp, owed>>

\* rcu_get_min_other_cpu_timestamp(): every CPU but the caller's, one at a time.
ScanStart(p) ==
    /\ left' = [left EXCEPT ![p] = CPUs \ {CpuOf(p)}]
    /\ min' = [min EXCEPT ![p] = RCU_UINT64_MAX]

\* A timestamp of 0 is a CPU that has never switched, and is skipped.
ScanCpu(p, d) ==
    min' = [min EXCEPT ![p] =
        IF rcu_timestamp[d] # 0 /\ rcu_timestamp[d] < @
        THEN rcu_timestamp[d] ELSE @]

rcu_get_min_other_cpu_timestamp(p) ==
    /\ Running(p)
    /\ \E d \in left[p] :
          /\ ScanCpu(p, d)
          /\ left' = [left EXCEPT ![p] = @ \ {d}]
    /\ UNCHANGED <<now, cpuVars, readVars, pc, listVars, syncVars, ghostVars>>

sync_note(t) ==
    /\ At(t, "note")
    /\ rcu_note_context_switch(cpuid[t])
    /\ ScanStart(t)
    /\ Goto(t, "sync")
    /\ UNCHANGED <<now, switching, readVars, listVars, syncVars, ghostVars>>

\* The scan's result goes out of scope.
ScanEnd(p) ==
    /\ left' = [left EXCEPT ![p] = {}]
    /\ min' = [min EXCEPT ![p] = 0]

\* rcu_barrier() goes on with rcu_process_callbacks(), which scans again.
SyncReturn(t) ==
    /\ Goto(t, cont[t])
    /\ IF cont[t] = "process" THEN ScanStart(t) ELSE ScanEnd(t)
    /\ cont' = [cont EXCEPT ![t] = "idle"]
    /\ wait' = [wait EXCEPT ![t] = 0]
    /\ stamp' = [stamp EXCEPT ![t] = 0]
    /\ must' = [must EXCEPT ![t] = {}]

SyncDone(t) == min[t] >= stamp[t]

sync_return(t) ==
    /\ At(t, "sync")
    /\ left[t] = {}
    /\ SyncDone(t)
    /\ SyncReturn(t)
    /\ UNCHANGED <<now, cpuVars, readVars, listVars, head, round,
                   barrier_timestamp, owed>>

MayWait(t) == wait[t] < MaxWait

\* Not all have switched: yield and scan again.
sync_yield(t) ==
    /\ At(t, "sync")
    /\ left[t] = {}
    /\ ~SyncDone(t)
    /\ MayWait(t)
    /\ wait' = [wait EXCEPT ![t] = @ + 1]
    /\ scheduler_yield(cpuid[t])
    /\ ScanStart(t)
    /\ UNCHANGED <<now, readVars, pc, listVars, cont, head, round, stamp,
                   barrier_timestamp, ghostVars>>

\* After max_wait rounds the code prints a warning and returns all the same.
sync_give_up(t) ==
    /\ At(t, "sync")
    /\ left[t] = {}
    /\ ~SyncDone(t)
    /\ ~MayWait(t)
    /\ SyncReturn(t)
    /\ UNCHANGED <<now, cpuVars, readVars, listVars, head, round,
                   barrier_timestamp, owed>>

--------------------------------------------------------------------------------
\* The kthread's round, and rcu_process_callbacks() of rcu_barrier().

\* Bug: only a callback of a later tick than every switch has to wait.
CallbackReadyLate(p, b) == stamp[b] <= min[p] + 1

CallbackReady(p, b) == stamp[b] <= min[p]

\* Take the whole pending list and split it.
take_pending(p) ==
    /\ At(p, "process")
    /\ left[p] = {}
    /\ pending' = [pending EXCEPT ![CpuOf(p)] = {}]
    /\ ready' = [ready EXCEPT ![p] = {b \in pending[CpuOf(p)] : CallbackReady(p, b)}]
    /\ notready' = [notready EXCEPT ![p] =
                       {b \in pending[CpuOf(p)] : ~CallbackReady(p, b)}]
    /\ ScanEnd(p)
    /\ Goto(p, "invoke")
    /\ UNCHANGED <<now, cpuVars, readVars, invoked, syncVars, ghostVars>>

rcu_invoke_callbacks(p) ==
    /\ At(p, "invoke")
    /\ \E b \in ready[p] :
          /\ Invoke(b)
          /\ ready' = [ready EXCEPT ![p] = @ \ {b}]
    /\ UNCHANGED <<now, cpuVars, readVars, pc, scanVars, pending, notready,
                   cont, head, wait, round, barrier_timestamp, owed>>

\* Bug: what arrived since the list was taken is overwritten.
PutBackOverwrites(p) ==
    pending' = [pending EXCEPT ![CpuOf(p)] = notready[p]]

PutBack(p) ==
    pending' = [pending EXCEPT ![CpuOf(p)] = notready[p] \cup @]

\* The kthread then sleeps; the barrier goes on to look at the lists.
put_back(p) ==
    /\ At(p, "invoke")
    /\ ready[p] = {}
    /\ PutBack(p)
    /\ notready' = [notready EXCEPT ![p] = {}]
    /\ Goto(p, IF p \in CPUs THEN "sleep" ELSE "check")
    /\ UNCHANGED <<now, cpuVars, readVars, scanVars, ready, invoked, syncVars, ghostVars>>

\* sleep_ms() ends, or rcu_kthread_wakeup() ends it.
kthread_wakeup(c) ==
    /\ c \in Kthreads
    /\ pc[c] = "sleep"
    /\ Goto(c, "process")
    /\ ScanStart(c)
    /\ UNCHANGED <<now, cpuVars, readVars, listVars, syncVars, ghostVars>>

--------------------------------------------------------------------------------
\* rcu_barrier()

Queued ==
    {b \in Callbacks : \/ \E c \in CPUs : b \in pending[c]
                       \/ \E p \in Threads : b \in ready[p] \cup notready[p]}

rcu_barrier(t) ==
    /\ At(t, "idle")
    /\ t \notin reading
    /\ barrier_timestamp' = [barrier_timestamp EXCEPT ![t] = now]
    /\ round' = [round EXCEPT ![t] = 0]
    /\ owed' = [owed EXCEPT ![t] = Queued]
    /\ SyncStart(t, "process", {t})
    /\ UNCHANGED <<now, cpuVars, readVars, scanVars, listVars, head>>

\* all_done: no pending list holds a callback as old as the barrier.
AllDone(t) == \A c \in CPUs : \A b \in pending[c] : stamp[b] > barrier_timestamp[t]

\* Synchronize, for another round or, all done or out of rounds, a last time.
barrier_check(t) ==
    /\ At(t, "check")
    /\ IF AllDone(t) \/ round[t] = MaxWait
       THEN SyncStart(t, "returned", {t}) /\ UNCHANGED round
       ELSE /\ SyncStart(t, "again", {t})
            /\ round' = [round EXCEPT ![t] = @ + 1]
    /\ UNCHANGED <<now, cpuVars, readVars, scanVars, listVars, head,
                   barrier_timestamp, owed>>

\* The scheduler_yield() between two rounds.
barrier_again(t) ==
    /\ At(t, "again")
    /\ scheduler_yield(cpuid[t])
    /\ ScanStart(t)
    /\ Goto(t, "process")
    /\ UNCHANGED <<now, readVars, listVars, syncVars, ghostVars>>

barrier_return(t) ==
    /\ At(t, "returned")
    /\ owed' = [owed EXCEPT ![t] = {}]
    /\ round' = [round EXCEPT ![t] = 0]
    /\ barrier_timestamp' = [barrier_timestamp EXCEPT ![t] = 0]
    /\ Goto(t, "idle")
    /\ UNCHANGED <<now, cpuVars, readVars, scanVars, listVars, cont, head, wait,
                   stamp, must>>

--------------------------------------------------------------------------------
Init ==
    /\ now = 2
    /\ rcu_timestamp = [c \in CPUs |-> IF c \in Booting THEN 0 ELSE Jiffs]
    /\ run \in {r \in [CPUs -> Tasks] : \A c \in CPUs : cpuid[r[c]] = c}
    /\ switching = {}
    /\ reading = {} /\ since = [t \in Tasks |-> 0]
    /\ pc = [p \in Threads |-> IF p \in CPUs THEN "sleep" ELSE "idle"]
    /\ left = [p \in Threads |-> {}] /\ min = [p \in Threads |-> 0]
    /\ pending = [c \in CPUs |-> {}]
    /\ ready = [p \in Threads |-> {}] /\ notready = [p \in Threads |-> {}]
    /\ invoked = {}
    /\ cont = [t \in Tasks |-> "idle"] /\ head = [t \in Tasks |-> None]
    /\ wait = [t \in Tasks |-> 0] /\ round = [t \in Tasks |-> 0]
    /\ stamp = [x \in Callbacks \cup Tasks |-> 0]
    /\ barrier_timestamp = [t \in Tasks |-> 0]
    /\ must = [x \in Callbacks \cup Tasks |-> {}]
    /\ owed = [t \in Tasks |-> {}]

\* What a task starts of its own will, and what it has to go on with.
Start(t) ==
    \/ "read" \in Ops[t] /\ rcu_read_lock(t)
    \/ "call" \in Ops[t] /\ \E b \in Callbacks : call_rcu(t, b)
    \/ "nomem" \in Ops[t] /\ \E b \in Callbacks : call_rcu_nomem(t, b)
    \/ "sync" \in Ops[t] /\ synchronize_rcu(t)
    \/ "barrier" \in Ops[t] /\ rcu_barrier(t)

Process(p) ==
    rcu_get_min_other_cpu_timestamp(p) \/ take_pending(p)
    \/ rcu_invoke_callbacks(p) \/ put_back(p)

Continue(t) ==
    \/ rcu_read_unlock(t)
    \/ call_rcu_enqueue(t) \/ call_rcu_func(t)
    \/ sync_note(t) \/ sync_return(t) \/ sync_yield(t) \/ sync_give_up(t)
    \/ barrier_check(t) \/ barrier_again(t) \/ barrier_return(t)

Next ==
    \/ Tick
    \/ \E c \in CPUs : Yield(c) \/ SwitchEnd(c) \/ kthread_wakeup(c)
    \/ \E p \in Threads : Process(p)
    \/ \E t \in Tasks : Start(t) \/ Continue(t)

Spec == Init /\ [][Next]_vars

--------------------------------------------------------------------------------
\* Properties

Times == 0 .. MaxTime
Conts == {"idle", "func", "process", "again", "returned"}
\* Every variable keeps its type.
TypeOK ==
    /\ now \in Times
    /\ rcu_timestamp \in [CPUs -> Times]
    /\ run \in [CPUs -> Threads]
    /\ switching \subseteq CPUs
    /\ reading \subseteq Tasks
    /\ since \in [Tasks -> Times]
    /\ pending \in [CPUs -> SUBSET Callbacks]
    /\ pc \in [Threads -> {"idle", "enqueue", "note", "sync", "func", "process",
                           "invoke", "check", "again", "returned", "sleep"}]
    /\ cont \in [Tasks -> Conts]
    /\ head \in [Tasks -> Callbacks \cup {None}]
    /\ left \in [Threads -> SUBSET CPUs]
    /\ min \in [Threads -> 0 .. RCU_UINT64_MAX]
    /\ ready \in [Threads -> SUBSET Callbacks]
    /\ notready \in [Threads -> SUBSET Callbacks]
    /\ invoked \subseteq Callbacks
    /\ wait \in [Tasks -> 0 .. MaxWait]
    /\ round \in [Tasks -> 0 .. MaxWait]
    /\ stamp \in [Callbacks \cup Tasks -> Times]
    /\ barrier_timestamp \in [Tasks -> Times]
    /\ must \in [Callbacks \cup Tasks -> SUBSET Tasks]
    /\ owed \in [Tasks -> SUBSET Callbacks]

\* No reader that entered in a tick before x was registered still reads.
OldReadersGone(x) == \A u \in must[x] : since[u] >= stamp[x]

\* A callback that has been found ready, and is about to be called from a list
\* that no lock protects any more, has no reader left that entered its section
\* in an earlier tick than the call_rcu(): the test of one timestamp per CPU,
\* read at different moments and overwritten by every switch, is enough.
GracePeriod == \A p \in Threads : \A b \in ready[p] : OldReadersGone(b)

\* When synchronize_rcu() finds its loop condition met, the readers it has to
\* wait for are gone, on its own CPU too, which it does not look at.
SyncGracePeriod ==
    \A t \in Tasks :
        pc[t] = "sync" /\ left[t] = {} /\ SyncDone(t) => OldReadersGone(t)

\* The places a callback can be in.
Holders(b) ==
    {<<"pending", c>> : c \in {c \in CPUs : b \in pending[c]}}
    \cup {<<"ready", p>> : p \in {p \in Threads : b \in ready[p]}}
    \cup {<<"notready", p>> : p \in {p \in Threads : b \in notready[p]}}
    \cup {<<"head", t>> : t \in {t \in Tasks : head[t] = b}}
    \cup {<<"invoked", i>> : i \in {b} \cap invoked}

\* A registered callback is in exactly one list or has been called: the kthread,
\* rcu_barrier() and call_rcu() take, split and put back the list of one CPU
\* without losing a callback and without calling one twice.
CallbackInOnePlace ==
    \A b \in Callbacks : Cardinality(Holders(b)) = IF b \in Registered THEN 1 ELSE 0

\* rcu_barrier() returns when every callback registered before it was called.
BarrierWaits == \A t \in Tasks : pc[t] = "returned" => owed[t] \subseteq invoked

================================================================================
