------------------------------- MODULE Timers -------------------------------
(***************************************************************************)
(* Workqueues (kernel/proc/workqueue.c): a list of pending works, worker   *)
(* threads that take them, and a manager thread that creates workers and   *)
(* wakes idle ones.  Everything between taking and releasing wq->lock is   *)
(* one step.  A work is a number; its function runs outside the lock.      *)
(***************************************************************************)
EXTENDS Integers, Sequences, FiniteSets, SequencesExt

CONSTANTS Workers,           \* thread identities for workers
          MaxActive          \* the argument of workqueue_create

VARIABLES workList,          \* the pending works, oldest first
          worker,            \* what each worker does; "none": not created
          idleQueue,         \* the idle workers, oldest first
          manager            \* "asleep" or "ready"
wqVars == <<workList, worker, idleQueue, manager>>

DEFAULT_MIN_ACTIVE == 2
minActive == IF MaxActive < DEFAULT_MIN_ACTIVE THEN DEFAULT_MIN_ACTIVE ELSE MaxActive

Created == {k \in Workers : worker[k].st # "none"}
nrWorkers == Cardinality(Created)
Doing(st) == [st |-> st, work |-> 0]

\* workqueue_create: the manager is created and woken.
WqInit ==
    /\ workList = <<>> /\ idleQueue = <<>> /\ manager = "ready"
    /\ worker = [k \in Workers |-> Doing("none")]

\* queue_work; the caller adds the rest of its step.
QueueWorks(ws) ==
    /\ workList' = workList \o ws
    /\ manager' = IF ws = <<>> THEN manager ELSE "ready"
    /\ UNCHANGED <<worker, idleQueue>>

\* The workers the manager creates: up to min_active, and then one for each
\* pending work up to max_active.
ToCreate == Max({nrWorkers, minActive, Min({Len(workList), MaxActive})}) - nrWorkers

\* Bug: an idle worker is woken only when more works wait than workers exist.
ToWakeLate(nr) == IF Len(workList) > nr THEN Len(idleQueue) ELSE 0

\* It wakes idle workers until as many are busy as works are pending.
ToWake(nr) ==
    LET busy == nr - Len(idleQueue)
        short == Len(workList) - busy
    IN IF short <= 0 THEN 0 ELSE IF short > Len(idleQueue) THEN Len(idleQueue) ELSE short

\* One turn of __manager_routine, then it sleeps until queue_work wakes it.
ManagerTurn ==
    /\ manager = "ready"
    /\ \E new \in SUBSET (Workers \ Created) :
         /\ Cardinality(new) = ToCreate
         /\ LET woken == {idleQueue[i] : i \in 1..ToWake(nrWorkers + ToCreate)}
            IN worker' = [k \in Workers |-> IF k \in new \cup woken THEN Doing("loop") ELSE worker[k]]
         /\ idleQueue' = SubSeq(idleQueue, ToWake(nrWorkers + ToCreate) + 1, Len(idleQueue))
    /\ manager' = "asleep"
    /\ UNCHANGED workList

\* A worker takes the oldest work, or becomes idle.
WorkerTakes(k) ==
    /\ worker[k].st = "loop"
    /\ \/ /\ workList # <<>>
          /\ worker' = [worker EXCEPT ![k] = [st |-> "run", work |-> Head(workList)]]
          /\ workList' = Tail(workList)
          /\ UNCHANGED idleQueue
       \/ /\ workList = <<>>
          /\ worker' = [worker EXCEPT ![k] = Doing("idle")]
          /\ idleQueue' = Append(idleQueue, k)
          /\ UNCHANGED workList
    /\ UNCHANGED manager

\* The work's function returns.
WorkerDone(k) ==
    /\ worker[k].st = "run"
    /\ worker' = [worker EXCEPT ![k] = Doing("loop")]
    /\ UNCHANGED <<workList, idleQueue, manager>>

(***************************************************************************)
(* Timers (kernel/timer/timer.c, sched_timer.c) over the workqueue that    *)
(* runs their callbacks.  A timer node is in a red-black tree, which gives *)
(* its place, and in a list, which the tick walks; a sleeping thread's     *)
(* node lies on its stack, a deferred callback's node is on the heap.      *)
(* A critical section of timer->lock is one step.                          *)
(***************************************************************************)
CONSTANTS NSleepers,         \* threads that call sleep_ms
          NDeadlines,        \* callbacks of sched_timer_add
          MaxTick,           \* jiffies until the end of the run
          LoneRemove         \* no tick comes between the test and the lock of
                             \* timer_remove
ASSUME TimerShape == /\ NSleepers \in Nat /\ NDeadlines \in Nat /\ MaxTick \in Nat
                     /\ LoneRemove \in BOOLEAN

VARIABLES jiffs, tickClear,  \* ticks, __sched_tick_clear (FALSE: a tick is due)
          currentTick, nextTick,
          timerList,         \* timer->list_head
          timerTree,         \* the nodes in timer->root
          expires,           \* node->expires
          looksTop,          \* removed as the last node: its parent is still NULL
          sleeper,           \* what each sleeping thread does
          defer,             \* the life of each deferred callback
          ran                \* how often each deferred callback has run
tmVars == <<jiffs, tickClear, currentTick, nextTick, timerList, timerTree, expires,
            looksTop, sleeper, defer, ran>>

Sleepers == 1..NSleepers
Deadlines == NSleepers + 1..NSleepers + NDeadlines
TimerNodes == Sleepers \cup Deadlines

Before(m, n) == expires[m] < expires[n] \/ (expires[m] = expires[n] /\ m < n)
Armed(n) == n \in ToSet(timerList)

UpdateNextTick(l) == IF l = <<>> THEN 0 ELSE expires[Head(l)]

\* timer_add: the node goes behind its predecessor in the tree.
CanAdd(n) == currentTick < expires[n]

\* Bug: next_tick is set only for the first timer.
TimerAddLate(n) ==
    LET earlier == {m \in timerTree : Before(m, n)}
        at == IF earlier = {} THEN 0
              ELSE CHOOSE i \in DOMAIN timerList :
                     timerList[i] \in earlier /\ \A m \in earlier : m = timerList[i] \/ Before(m, timerList[i])
    IN /\ timerList' = SubSeq(timerList, 1, at) \o <<n>> \o SubSeq(timerList, at + 1, Len(timerList))
       /\ timerTree' = timerTree \cup {n}
       /\ nextTick' = IF timerList = <<>> THEN expires[n] ELSE nextTick

TimerAdd(n) ==
    LET earlier == {m \in timerTree : Before(m, n)}
        at == IF earlier = {} THEN 0
              ELSE CHOOSE i \in DOMAIN timerList :
                     timerList[i] \in earlier /\ \A m \in earlier : m = timerList[i] \/ Before(m, timerList[i])
    IN /\ timerList' = SubSeq(timerList, 1, at) \o <<n>> \o SubSeq(timerList, at + 1, Len(timerList))
       /\ timerTree' = timerTree \cup {n}
       /\ nextTick' = IF earlier = {} THEN expires[n] ELSE nextTick

\* rb_delete_node_color: a node that left as the last one still looks like the
\* root, and deleting it again deletes the root of that moment.
TreeDelete(tr, n) ==
    IF n \in tr THEN {tr \ {n}}
    ELSE IF n \in looksTop /\ tr # {} THEN {tr \ {m} : m \in tr}
    ELSE {tr}

RemoveUnlocked(n) ==
    /\ timerTree' \in TreeDelete(timerTree, n)
    /\ timerList' = SelectSeq(timerList, LAMBDA m : m # n)
    /\ nextTick' = UpdateNextTick(timerList')
    /\ looksTop' = IF timerTree = {n} THEN looksTop \cup {n} ELSE looksTop

(* The clock --------------------------------------------------------------- *)

\* clockintr on the boot hart; the model stops counting at MaxTick.
Clockintr ==
    /\ jiffs' = IF jiffs < MaxTick THEN jiffs + 1 ELSE jiffs
    /\ tickClear' = FALSE
    /\ UNCHANGED <<wqVars, currentTick, nextTick, timerList, timerTree, expires, looksTop,
                   sleeper, defer, ran>>

Expired(t) == SelectSeq(timerList, LAMBDA n : expires[n] <= t)
WokenBy(fired) ==
    [s \in Sleepers |-> IF s \in ToSet(fired) /\ sleeper[s] = "asleep" THEN "woken" ELSE sleeper[s]]

\* __do_timer_tick from a scheduler: the first one after a tick runs timer_tick,
\* which removes every expired node (retry_limit is never set) and calls back.
TimerTick ==
    /\ ~tickClear /\ tickClear' = TRUE
    /\ LoneRemove => \A s \in Sleepers : sleeper[s] # "remove"
    /\ IF nextTick = 0 \/ currentTick >= jiffs
       THEN UNCHANGED <<wqVars, currentTick, nextTick, timerList, timerTree, looksTop, sleeper>>
       ELSE LET fired == IF nextTick > jiffs THEN <<>> ELSE Expired(jiffs)
            IN /\ currentTick' = jiffs
               /\ timerList' = SelectSeq(timerList, LAMBDA n : n \notin ToSet(fired))
               /\ timerTree' = timerTree \ ToSet(fired)
               /\ nextTick' = UpdateNextTick(timerList')
               /\ looksTop' = IF timerTree' = {} /\ fired # <<>>
                              THEN looksTop \cup {fired[Len(fired)]} ELSE looksTop
               /\ sleeper' = WokenBy(fired)
               /\ QueueWorks(SelectSeq(fired, LAMBDA n : n \in Deadlines))
    /\ UNCHANGED <<jiffs, expires, defer, ran>>

(* sleep_ms ------------------------------------------------------------------ *)

\* The state is INTERRUPTIBLE and the expiry computed from get_jiffs.
SleepStart(s, d) ==
    /\ sleeper[s] = "run" /\ jiffs + d <= MaxTick
    /\ expires' = [expires EXCEPT ![s] = jiffs + d]
    /\ looksTop' = looksTop \ {s}
    /\ sleeper' = [sleeper EXCEPT ![s] = "add"]
    /\ UNCHANGED <<wqVars, jiffs, tickClear, currentTick, nextTick, timerList, timerTree, defer, ran>>

\* timer_add refuses a time already past, and sleep_ms returns at once.
SleepAdd(s) ==
    /\ sleeper[s] = "add"
    /\ \/ /\ CanAdd(s) /\ TimerAdd(s)
          /\ sleeper' = [sleeper EXCEPT ![s] = "asleep"]
       \/ /\ ~CanAdd(s)
          /\ sleeper' = [sleeper EXCEPT ![s] = "run"]
          /\ UNCHANGED <<timerList, timerTree, nextTick>>
    /\ UNCHANGED <<wqVars, jiffs, tickClear, currentTick, expires, looksTop, defer, ran>>

\* Something else wakes the sleeper.
SleepSignal(s) ==
    /\ sleeper[s] = "asleep"
    /\ sleeper' = [sleeper EXCEPT ![s] = "woken"]
    /\ UNCHANGED <<wqVars, jiffs, tickClear, currentTick, nextTick, timerList, timerTree,
                   expires, looksTop, defer, ran>>

\* timer_remove reads node->timer without the lock.
RemoveTest(s) ==
    /\ sleeper[s] = "woken"
    /\ sleeper' = [sleeper EXCEPT ![s] = IF Armed(s) THEN "remove" ELSE "run"]
    /\ UNCHANGED <<wqVars, jiffs, tickClear, currentTick, nextTick, timerList, timerTree,
                   expires, looksTop, defer, ran>>
RemoveLocked(s) ==
    /\ sleeper[s] = "remove"
    /\ RemoveUnlocked(s)
    /\ sleeper' = [sleeper EXCEPT ![s] = "run"]
    /\ UNCHANGED <<wqVars, jiffs, tickClear, currentTick, expires, defer, ran>>

(* Deferred callbacks ---------------------------------------------------------- *)

\* sched_timer_add computes the deadline, sched_timer_add_deadline arms the node
\* or frees it.
DeferStart(n, d) ==
    /\ defer[n] = "none" /\ jiffs + d <= MaxTick
    /\ expires' = [expires EXCEPT ![n] = jiffs + d]
    /\ defer' = [defer EXCEPT ![n] = "add"]
    /\ UNCHANGED <<wqVars, jiffs, tickClear, currentTick, nextTick, timerList, timerTree,
                   looksTop, sleeper, ran>>
DeferAdd(n) ==
    /\ defer[n] = "add"
    /\ \/ /\ CanAdd(n) /\ TimerAdd(n)
          /\ defer' = [defer EXCEPT ![n] = "armed"]
       \/ /\ ~CanAdd(n)
          /\ defer' = [defer EXCEPT ![n] = "freed"]
          /\ UNCHANGED <<timerList, timerTree, nextTick>>
    /\ UNCHANGED <<wqVars, jiffs, tickClear, currentTick, expires, looksTop, sleeper, ran>>

\* __work_callback: the node has left the timer, so timer_remove does nothing;
\* the callback runs and the work is freed.
DeferRuns(k) ==
    /\ WorkerDone(k)
    /\ ran' = [ran EXCEPT ![worker[k].work] = @ + 1]
    /\ defer' = [defer EXCEPT ![worker[k].work] = "freed"]
    /\ UNCHANGED <<jiffs, tickClear, currentTick, nextTick, timerList, timerTree, expires,
                   looksTop, sleeper>>

ManagerStep == ManagerTurn /\ UNCHANGED tmVars
TakeStep(k) == WorkerTakes(k) /\ UNCHANGED tmVars

TimersInit ==
    /\ WqInit
    /\ jiffs = 0 /\ tickClear = TRUE /\ currentTick = 0 /\ nextTick = 0
    /\ timerList = <<>> /\ timerTree = {} /\ looksTop = {}
    /\ expires = [n \in TimerNodes |-> 0]
    /\ sleeper = [s \in Sleepers |-> "run"]
    /\ defer = [n \in Deadlines |-> "none"]
    /\ ran = [n \in Deadlines |-> 0]

TimersNext ==
    \/ Clockintr \/ TimerTick \/ ManagerStep
    \/ \E s \in Sleepers : \/ \E d \in 1..2 : SleepStart(s, d)
                            \/ SleepAdd(s) \/ SleepSignal(s) \/ RemoveTest(s) \/ RemoveLocked(s)
    \/ \E n \in Deadlines : DeferAdd(n) \/ \E d \in 1..2 : DeferStart(n, d)
    \/ \E k \in Workers : TakeStep(k) \/ DeferRuns(k)

(* Properties -------------------------------------------------------------------- *)

\* The list, the tree and next_tick tell the same story: the armed nodes, in the
\* order of expiry, and the first of them; and a tick leaves none behind that
\* had expired.
TimersAgree ==
    /\ ToSet(timerList) = timerTree
    /\ \A i, j \in DOMAIN timerList : i < j => Before(timerList[i], timerList[j])
    /\ nextTick = UpdateNextTick(timerList)
    /\ \A n \in timerTree : expires[n] > currentTick

\* A deferred callback runs at most once and not before its deadline, and its
\* node and work are freed only when neither timer nor workqueue knows them.
CallbackRunsOnce ==
    \A n \in Deadlines :
        /\ ran[n] <= 1 /\ (ran[n] = 1 => jiffs >= expires[n])
        /\ defer[n] = "freed" =>
             /\ ~Armed(n) /\ n \notin ToSet(workList)
             /\ \A k \in Workers : worker[k].work # n

\* A callback whose timer was armed runs: the tick finds it, the manager is
\* woken, and a worker takes it, given that the clock ticks and schedulers run.
ArmedCallbackRuns == \A n \in Deadlines : defer[n] = "armed" ~> ran[n] = 1
=============================================================================
