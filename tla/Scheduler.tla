----------------------------- MODULE Scheduler -----------------------------
(***************************************************************************)
(* The run queue of one CPU: the two-layer ready masks of proc/rq.c over   *)
(* the FIFO classes of proc/sched_fifo.c.  A run queue is a record         *)
(*                                                                         *)
(*   list        priority -> the threads in that subqueue's list           *)
(*   count       priority -> sq->count, running threads included           *)
(*   ready       priorities whose bit is set in fifo_rq->ready_mask        *)
(*   task_count  class -> rq->task_count, running threads included         *)
(*   secondary   classes whose bit is set in ready_mask_secondary          *)
(*   top         groups of 8 classes whose bit is set in ready_mask        *)
(*                                                                         *)
(* The functions of the code become operators from a run queue to a run    *)
(* queue; the caller holds rq_lock.                                        *)
(***************************************************************************)
EXTENDS Integers, Sequences, FiniteSets

CONSTANT Priorities    \* the priorities in use, between EXIT and IDLE_MAJOR_PRIORITY

IDLE_MAJOR_PRIORITY == 63

MAJOR_PRIORITY(p) == p \div 4

Classes == {MAJOR_PRIORITY(p) : p \in Priorities} \cup {IDLE_MAJOR_PRIORITY}

Group(cls) == cls \div 8

Least(S) == CHOOSE x \in S : \A y \in S : x <= y

\* rq_global_init, __fifo_rq_init, __alloc_idle_rqs: only the idle class is
\* ready.
EmptyRq ==
  [list       |-> [p \in Priorities |-> <<>>],
   count      |-> [p \in Priorities |-> 0],
   ready      |-> {},
   task_count |-> [cls \in Classes \ {IDLE_MAJOR_PRIORITY} |-> 0],
   secondary  |-> {IDLE_MAJOR_PRIORITY},
   top        |-> {Group(IDLE_MAJOR_PRIORITY)}]

-----------------------------------------------------------------------------
(* Ready masks *)

rq_set_ready(r, cls) ==
  [r EXCEPT !.secondary = @ \cup {cls}, !.top = @ \cup {Group(cls)}]

\* Bug: the top bit goes with any of its classes.
rq_clear_ready_group(r, cls) ==
  [r EXCEPT !.secondary = @ \ {cls}, !.top = @ \ {Group(cls)}]

rq_clear_ready(r, cls) ==
  LET secondary == r.secondary \ {cls}
  IN [r EXCEPT !.secondary = secondary,
               !.top = IF \E k \in secondary : Group(k) = Group(cls)
                       THEN @ ELSE @ \ {Group(cls)}]

\* The class pick_next_rq picks.
pick_next_rq(r) ==
  LET group == Least(r.top)
  IN Least({cls \in r.secondary : Group(cls) = group})

-----------------------------------------------------------------------------
(* The FIFO class *)

\* list_node_detach: a list the entry is not in stays as it is.
list_detach(q, t) ==
  IF \E i \in 1..Len(q) : q[i] = t
  THEN LET at == CHOOSE i \in 1..Len(q) : q[i] = t
       IN [i \in 1..(Len(q) - 1) |-> IF i < at THEN q[i] ELSE q[i + 1]]
  ELSE q

\* __fifo_enqueue_task and the bookkeeping of rq_enqueue_task.
EnqueueTask(r, t, p) ==
  LET cls == MAJOR_PRIORITY(p)
  IN rq_set_ready([r EXCEPT !.list[p] = Append(@, t),
                            !.count[p] = @ + 1,
                            !.ready = @ \cup {p},
                            !.task_count[cls] = @ + 1], cls)

\* __fifo_dequeue_task and the bookkeeping of rq_dequeue_task.
DequeueTask(r, t, p) ==
  LET cls == MAJOR_PRIORITY(p)
      q == [r EXCEPT !.list[p] = list_detach(@, t),
                     !.count[p] = @ - 1,
                     !.ready = IF r.count[p] = 1 THEN @ \ {p} ELSE @,
                     !.task_count[cls] = @ - 1]
  IN IF q.task_count[cls] = 0 THEN rq_clear_ready(q, cls) ELSE q

\* __fifo_put_prev_task: back to the end of the list, counted already.
PutPrevTask(r, t, p) ==
  rq_set_ready([r EXCEPT !.list[p] = Append(@, t), !.ready = @ \cup {p}],
               MAJOR_PRIORITY(p))

\* __fifo_set_next_task: off the list, but still counted.
SetNextTask(r, t, p) ==
  LET cls == MAJOR_PRIORITY(p)
      q == [r EXCEPT !.list[p] = list_detach(@, t),
                     !.ready = IF r.count[p] = 1 THEN @ \ {p} ELSE @]
  IN IF r.task_count[cls] = 1 THEN rq_clear_ready(q, cls) ELSE q

\* The priority whose list __fifo_pick_next_task looks at, for a FIFO class
\* with a bit set.
PickedPriority(r, cls) ==
  Least({p \in r.ready : MAJOR_PRIORITY(p) = cls})

\* The list rq_pick_next_task takes the first task of; empty for NULL.
PickList(r, cls) ==
  IF \E p \in r.ready : MAJOR_PRIORITY(p) = cls
  THEN r.list[PickedPriority(r, cls)]
  ELSE <<>>

(***************************************************************************)
(* Context switches and wake-ups (proc/sched.c) over the per-CPU run       *)
(* queues above.  Each CPU runs a thread (or its idle thread), which      *)
(* may change its own state without any lock, wake other threads, and      *)
(* yield.  A CPU inside a wake-up or a yield does nothing else.            *)
(*                                                                         *)
(* on_rq is se_rq # None: the code always sets and clears se->rq and       *)
(* se->on_rq together.  INTERRUPTIBLE, UNINTERRUPTIBLE, KILLABLE and TIMER *)
(* are one state, SLEEPING: the wake-up variants differ only in which of   *)
(* them they look for before they take any lock.                           *)
(***************************************************************************)
CONSTANTS Threads,    \* all threads but the idle threads
          CPUs,       \* 0 .. NCPU-1
          None,
          Idle,       \* stands for the idle thread of whatever CPU runs it
          Priority,   \* se->priority of each thread
          Affinity    \* se->affinity_mask of each thread

VARIABLES
  state,     \* p->state
  cpu_id,    \* se->cpu_id
  se_rq,     \* the CPU of se->rq
  on_cpu,    \* se->on_cpu
  pi_lock,   \* the CPU that holds se->pi_lock
  rq,        \* the run queue of each CPU
  rq_lock,   \* the CPU that holds its rq_lock
  current,   \* mycpu()->proc
  prev,      \* the thread being switched away from
  pc,        \* what each CPU is doing
  wake,      \* the arguments and locals of its __do_scheduler_wakeup
  exited     \* threads that have called exit()

threadvars == <<state, cpu_id, se_rq, on_cpu>>
lockvars == <<pi_lock, rq_lock>>
vars == <<threadvars, lockvars, rq, current, prev, pc, wake, exited>>

States == {"RUNNING", "WAKENING", "SLEEPING", "STOPPED", "ZOMBIE"}
PCs == {"run",
        "wpi",      \* __do_scheduler_wakeup: about to take pi_lock
        "wsel",     \* pi_lock held, state seen
        "wtry",     \* run queue selected, cpu_id read
        "wset",     \* pi_lock and the run queue locks held
        "ylock",    \* scheduler_yield: about to take rq_lock
        "switch",   \* prepared, rq_lock held
        "panic"}    \* scheduler_yield has returned to exit()

NoWake == [p |-> None, from |-> "SLEEPING", origin |-> None, target |-> None]

\* Threads start as clone() leaves them: UNINTERRUPTIBLE, never run.
Init ==
  /\ state = [t \in Threads |-> "SLEEPING"]
  /\ cpu_id = [t \in Threads |-> None]
  /\ se_rq = [t \in Threads |-> None]
  /\ on_cpu = [t \in Threads |-> FALSE]
  /\ pi_lock = [t \in Threads |-> None]
  /\ rq = [c \in CPUs |-> EmptyRq]
  /\ rq_lock = [c \in CPUs |-> None]
  /\ current = [c \in CPUs |-> Idle]
  /\ prev = [c \in CPUs |-> Idle]
  /\ pc = [c \in CPUs |-> "run"]
  /\ wake = [c \in CPUs |-> NoWake]
  /\ exited = {}

Goto(c, from, to) ==
  /\ pc[c] = from
  /\ pc' = [pc EXCEPT ![c] = to]

-----------------------------------------------------------------------------
(* What a running thread does to its own state, without locks *)

Runs(c, t) == pc[c] = "run" /\ current[c] = t /\ t \in Threads \ exited

\* Before a sleep: scheduler_sleep, tq_wait, wait().
SetSleeping(c, t) ==
  /\ Runs(c, t) /\ state[t] = "RUNNING"
  /\ state' = [state EXCEPT ![t] = "SLEEPING"]
  /\ UNCHANGED <<cpu_id, se_rq, on_cpu, lockvars, rq, current, prev, pc, wake, exited>>

\* The sleep turns out to be unnecessary: wait() finds a zombie child.
CancelSleep(c, t) ==
  /\ Runs(c, t) /\ state[t] = "SLEEPING"
  /\ state' = [state EXCEPT ![t] = "RUNNING"]
  /\ UNCHANGED <<cpu_id, se_rq, on_cpu, lockvars, rq, current, prev, pc, wake, exited>>

\* A stop signal is delivered.
SetStopped(c, t) ==
  /\ Runs(c, t) /\ state[t] = "RUNNING"
  /\ state' = [state EXCEPT ![t] = "STOPPED"]
  /\ UNCHANGED <<cpu_id, se_rq, on_cpu, lockvars, rq, current, prev, pc, wake, exited>>

\* exit(), up to the last scheduler_yield.
SetZombie(c, t) ==
  /\ Runs(c, t) /\ state[t] = "RUNNING"
  /\ state' = [state EXCEPT ![t] = "ZOMBIE"]
  /\ exited' = exited \cup {t}
  /\ UNCHANGED <<cpu_id, se_rq, on_cpu, lockvars, rq, current, prev, pc, wake>>

-----------------------------------------------------------------------------
(* Wake-up *)

\* scheduler_wakeup and its variants: look at the state, unlocked.  The
\* thread may have been found in a wait queue, a timer or a signal.
WakeStart(c, p, from) ==
  /\ Goto(c, "run", "wpi")
  /\ state[p] = from
  /\ wake' = [wake EXCEPT ![c] = [NoWake EXCEPT !.p = p, !.from = from]]
  /\ UNCHANGED <<threadvars, lockvars, rq, current, prev, exited>>

WakeReturn(c) ==
  /\ pc' = [pc EXCEPT ![c] = "run"]
  /\ wake' = [wake EXCEPT ![c] = NoWake]

\* Take pi_lock.  A thread that wakes itself aborts its sleep; otherwise
\* the state decides whether there is anything to do.
WakePi(c) ==
  LET p == wake[c].p IN
  /\ pc[c] = "wpi"
  /\ pi_lock[p] = None
  /\ \/ /\ current[c] = p
        /\ state' = IF wake[c].from = "SLEEPING" /\ state[p] = "SLEEPING"
                    THEN [state EXCEPT ![p] = "RUNNING"] ELSE state
        /\ WakeReturn(c)
        /\ UNCHANGED pi_lock
     \/ /\ current[c] # p
        /\ state[p] # wake[c].from
        /\ WakeReturn(c)
        /\ UNCHANGED <<state, pi_lock>>
     \/ /\ current[c] # p
        /\ state[p] = wake[c].from
        /\ Goto(c, "wpi", "wsel")
        /\ pi_lock' = [pi_lock EXCEPT ![p] = c]
        /\ UNCHANGED <<state, wake>>
  /\ UNCHANGED <<cpu_id, se_rq, on_cpu, rq_lock, rq, current, prev, exited>>

\* rq_select_task_rq, __fifo_select_task_rq: the allowed CPU with the fewest
\* threads of this priority, this CPU if it is one of them.
select_task_rq(c, p) ==
  LET allowed == IF Affinity[p] = {} THEN CPUs ELSE Affinity[p]
      n(k) == rq[k].count[Priority[p]]
      best == {k \in allowed : \A j \in allowed : n(k) <= n(j)}
  IN IF c \in best THEN c ELSE Least(best)

WakeSelect(c) ==
  LET p == wake[c].p
      target == select_task_rq(c, p)
      origin == IF cpu_id[p] = None THEN target ELSE cpu_id[p]
  IN /\ Goto(c, "wsel", "wtry")
     /\ wake' = [wake EXCEPT ![c].origin = origin, ![c].target = target]
     /\ UNCHANGED <<threadvars, lockvars, rq, current, prev, exited>>

\* rq_trylock_two.  On failure pi_lock is released and taken again, and the
\* state is looked at again.
WakeTryLock(c) ==
  LET both == {wake[c].origin, wake[c].target} IN
  /\ pc[c] = "wtry"
  /\ IF \A k \in both : rq_lock[k] = None
     THEN /\ Goto(c, "wtry", "wset")
          /\ rq_lock' = [k \in CPUs |-> IF k \in both THEN c ELSE rq_lock[k]]
          /\ UNCHANGED pi_lock
     ELSE /\ Goto(c, "wtry", "wpi")
          /\ pi_lock' = [pi_lock EXCEPT ![wake[c].p] = None]
          /\ UNCHANGED rq_lock
  /\ UNCHANGED <<threadvars, rq, current, prev, wake, exited>>

UnlockAll(c) ==
  /\ pi_lock' = [pi_lock EXCEPT ![wake[c].p] = None]
  /\ rq_lock' = [k \in CPUs |-> IF rq_lock[k] = c THEN None ELSE rq_lock[k]]

\* Bug: a thread that is on a run queue is enqueued like any other.
WakeSetAlwaysEnqueues(c) ==
  LET p == wake[c].p
      target == wake[c].target
  IN /\ pc[c] = "wset"
     /\ cpu_id[p] = None \/ cpu_id[p] = wake[c].origin
     /\ state' = [state EXCEPT ![p] = "WAKENING"]
     /\ rq' = [rq EXCEPT ![target] = EnqueueTask(@, p, Priority[p])]
     /\ se_rq' = [se_rq EXCEPT ![p] = target]
     /\ cpu_id' = [cpu_id EXCEPT ![p] = target]
     /\ WakeReturn(c)
     /\ UnlockAll(c)
     /\ UNCHANGED <<on_cpu, current, prev, exited>>

\* All locks held: make the thread runnable.  Two branches of the code have
\* no counterpart because WakeLocksSuffice shows that they are never taken:
\* the retry when cpu_id has changed, and rq_add_wake_list, which would take
\* an rq_lock that is held already.
WakeSet(c) ==
  LET p == wake[c].p
      target == wake[c].target
  IN /\ pc[c] = "wset"
     /\ cpu_id[p] = None \/ cpu_id[p] = wake[c].origin
     /\ \/ /\ se_rq[p] # None
           /\ state' = [state EXCEPT ![p] = "RUNNING"]
           /\ UNCHANGED <<rq, se_rq, cpu_id>>
        \/ /\ se_rq[p] = None /\ ~on_cpu[p]
           /\ state' = [state EXCEPT ![p] = "WAKENING"]
           /\ rq' = [rq EXCEPT ![target] = EnqueueTask(@, p, Priority[p])]
           /\ se_rq' = [se_rq EXCEPT ![p] = target]
           /\ cpu_id' = [cpu_id EXCEPT ![p] = target]
     /\ WakeReturn(c)
     /\ UnlockAll(c)
     /\ UNCHANGED <<on_cpu, current, prev, exited>>

-----------------------------------------------------------------------------
(* Yield *)

\* scheduler_yield, up to rq_lock_current_irqsave.  Wake lists are always
\* empty (WakeLocksSuffice), so flushing them does nothing.
YieldStart(c) ==
  /\ Goto(c, "run", "ylock")
  /\ UNCHANGED <<threadvars, lockvars, rq, current, prev, wake, exited>>

\* The state and the priority of the thread that yields.
CurrentRuns(c) == current[c] = Idle \/ state[current[c]] = "RUNNING"

Outranks(c, p) == current[c] # Idle /\ Priority[current[c]] < p

\* What __sched_pick_next returns, or the idle thread for NULL.
PickNext(c) ==
  LET cls == pick_next_rq(rq[c])
      list == PickList(rq[c], cls)
  IN IF cls = IDLE_MAJOR_PRIORITY
     THEN IF CurrentRuns(c) THEN current[c] ELSE Idle
     ELSE IF list = <<>> THEN Idle
     ELSE IF CurrentRuns(c) /\ Outranks(c, Priority[Head(list)])
          THEN current[c]
          ELSE Head(list)

\* Nothing better to run.
YieldStay(c) ==
  /\ pc[c] = "ylock" /\ rq_lock[c] = None
  /\ PickNext(c) = current[c]
  /\ pc' = [pc EXCEPT ![c] = IF current[c] \in exited THEN "panic" ELSE "run"]
  /\ UNCHANGED <<threadvars, lockvars, rq, current, prev, wake, exited>>

\* rq_set_next_task for the picked thread, context_switch_prepare, and the
\* switch itself.  A zombie leaves its run queue here.
YieldSwitch(c) ==
  LET next == PickNext(c)
      old == current[c]
      dead == old # Idle /\ state[old] = "ZOMBIE"
      picked == IF next = Idle THEN rq[c]
                ELSE SetNextTask(rq[c], next, Priority[next])
  IN /\ pc[c] = "ylock" /\ rq_lock[c] = None
     /\ next # old
     /\ pc' = [pc EXCEPT ![c] = "switch"]
     /\ rq_lock' = [rq_lock EXCEPT ![c] = c]
     /\ rq' = [rq EXCEPT ![c] = IF dead /\ se_rq[old] # None
                                THEN DequeueTask(picked, old, Priority[old])
                                ELSE picked]
     /\ se_rq' = IF dead THEN [se_rq EXCEPT ![old] = None] ELSE se_rq
     /\ on_cpu' = IF next = Idle THEN on_cpu ELSE [on_cpu EXCEPT ![next] = TRUE]
     /\ cpu_id' = IF next = Idle THEN cpu_id ELSE [cpu_id EXCEPT ![next] = c]
     /\ state' = IF next = Idle THEN state ELSE [state EXCEPT ![next] = "RUNNING"]
     /\ prev' = [prev EXCEPT ![c] = old]
     /\ current' = [current EXCEPT ![c] = next]
     /\ UNCHANGED <<pi_lock, wake, exited>>

\* The run queue after context_switch_finish has dealt with prev.
FinishRq(c, old) ==
  IF state[old] = "RUNNING" THEN PutPrevTask(rq[c], old, Priority[old])
  ELSE IF state[old] \in {"SLEEPING", "STOPPED"} /\ se_rq[old] # None
       THEN DequeueTask(rq[c], old, Priority[old])
  ELSE rq[c]

\* context_switch_finish, on the stack of the next thread.
YieldFinish(c) ==
  LET old == prev[c] IN
  /\ pc[c] = "switch"
  /\ pc' = [pc EXCEPT ![c] = IF current[c] \in exited THEN "panic" ELSE "run"]
  /\ prev' = [prev EXCEPT ![c] = Idle]
  /\ rq_lock' = [rq_lock EXCEPT ![c] = None]
  /\ IF old = Idle THEN UNCHANGED <<rq, se_rq, on_cpu>>
     ELSE /\ rq' = [rq EXCEPT ![c] = FinishRq(c, old)]
          /\ se_rq' = IF state[old] \in {"SLEEPING", "STOPPED"}
                      THEN [se_rq EXCEPT ![old] = None] ELSE se_rq
          /\ on_cpu' = [on_cpu EXCEPT ![old] = FALSE]
  /\ UNCHANGED <<state, cpu_id, pi_lock, current, wake, exited>>

-----------------------------------------------------------------------------
(* Specification *)

Own(c, t) ==
  SetSleeping(c, t) \/ CancelSleep(c, t) \/ SetStopped(c, t) \/ SetZombie(c, t)

Waking(c) ==
  WakePi(c) \/ WakeSelect(c) \/ WakeTryLock(c) \/ WakeSet(c)

Yielding(c) == YieldStay(c) \/ YieldSwitch(c) \/ YieldFinish(c)

Next ==
  \E c \in CPUs :
    \/ \E t \in Threads : Own(c, t)
    \/ \E p \in Threads, from \in {"SLEEPING", "STOPPED"} : WakeStart(c, p, from)
    \/ YieldStart(c)
    \/ Waking(c) \/ Yielding(c)

Spec == Init /\ [][Next]_vars

-----------------------------------------------------------------------------
(* Properties *)

\* The CPUs that have t as their current thread or are switching from it.
RunsOn(t) ==
  {c \in CPUs : current[c] = t \/ (pc[c] = "switch" /\ prev[c] = t)}

\* The places of the lists that hold t: a CPU, a priority and an index.
Listed(t) ==
  {x \in CPUs \X Priorities \X (1..Cardinality(Threads)) :
     LET list == rq[x[1]].list[x[2]]
     IN x[3] <= Len(list) /\ list[x[3]] = t}

\* No thread ever runs on two CPUs, and none is in a run queue's list while
\* a CPU still runs it or is switching away from it: the kernel stack of a
\* thread has one user, whatever wakers and migrations do.
RunsOnce ==
  \A t \in Threads : Cardinality(RunsOn(t)) + Cardinality(Listed(t)) <= 1

\* No wake-up is lost: a thread that is RUNNING or WAKENING is on a CPU or in
\* exactly the list where its CPU will find it, and the bits that lead to
\* that list are set.
RunnableIsReachable ==
  \A t \in Threads :
    state[t] \in {"RUNNING", "WAKENING"} /\ RunsOn(t) = {} =>
      \E c \in CPUs :
        LET p == Priority[t] IN
        /\ \E i \in 1..Len(rq[c].list[p]) : rq[c].list[p][i] = t
        /\ p \in rq[c].ready
        /\ MAJOR_PRIORITY(p) \in rq[c].secondary
        /\ Group(MAJOR_PRIORITY(p)) \in rq[c].top

\* What the assertions of __sched_pick_next want: only threads to be run are
\* in the lists.
ListedIsRunnable ==
  \A t \in Threads : Listed(t) # {} => state[t] \in {"RUNNING", "WAKENING"}

\* The counts are those of the threads that belong to the run queue, the
\* running one included, so a bit is never cleared under a waiting thread.
CountsAreExact ==
  \A c \in CPUs : \A p \in Priorities :
    rq[c].count[p] = Cardinality({t \in Threads : se_rq[t] = c /\ Priority[t] = p})

\* What a waker has locked is enough: when it has pi_lock and the run queue
\* locks, the thread has not moved away from the run queue it locked, and if
\* it is off its run queue it is off its CPU too.  So the wake list, whose
\* insertion would take a lock its caller holds, is never needed.
WakeLocksSuffice ==
  \A c \in CPUs :
    LET p == wake[c].p IN
    pc[c] = "wset" =>
      /\ cpu_id[p] \in {None, wake[c].origin}
      /\ on_cpu[p] => se_rq[p] # None

\* exit.c, in wait(): "Thread state will never transition back from ZOMBIE,
\* so no need to lock the child."
ZombieIsFinal == \A t \in exited : state[t] = "ZOMBIE"
=============================================================================
