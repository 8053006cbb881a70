---------------------------- MODULE ThreadQueue ----------------------------
(***************************************************************************)
(* The list thread queue (kernel/proc/thread_queue.c) that mutexes,        *)
(* semaphores, completions and reader/writer semaphores sleep on, together *)
(* with the spinlock that protects it.  A queue is the sequence of the     *)
(* threads whose waiter node is linked, in arrival order; each lock module *)
(* has its own queue variables and passes them to the operators below.     *)
(*                                                                         *)
(* tq_wait marks the thread asleep, queues a waiter node whose error_no is *)
(* -EINTR, releases the spinlock and switches away.  tq_wakeup pops the    *)
(* node, writes error_no and wakes the thread.  A wakeup(p) that does not  *)
(* come through the queue (work queue manager, page-cache flusher, timers, *)
(* a signal sent on a stale state) leaves the node linked and error_no at  *)
(* -EINTR; the thread unlinks itself when it has the spinlock again.       *)
(***************************************************************************)
EXTENDS Naturals, Sequences

CONSTANTS Threads,   \* the kernel threads
          None       \* no thread: a holder of -1, a spinlock nobody holds

ASSUME NoneIsNoThread == None \notin Threads

VARIABLES
  state,      \* thread state
  error_no    \* error_no of the waiter node of each thread

States == {"RUNNING", "SLEEPING"}
Errors == {"OK", "EINTR"}

TqTypeOK ==
  /\ state \in [Threads -> States]
  /\ error_no \in [Threads -> Errors]

TqInit ==
  /\ state = [t \in Threads |-> "RUNNING"]
  /\ error_no = [t \in Threads |-> "OK"]

-----------------------------------------------------------------------------
(* The list *)

tq_enqueued(q, t) == \E i \in 1..Len(q) : q[i] = t

tq_push(q, t) == Append(q, t)

\* Unlink t's waiter node; a queue t is not in is left as it is.
tq_remove(q, t) ==
  IF tq_enqueued(q, t)
  THEN LET at == CHOOSE i \in 1..Len(q) : q[i] = t
       IN [i \in 1..(Len(q) - 1) |-> IF i < at THEN q[i] ELSE q[i + 1]]
  ELSE q

tq_pop(q) == Tail(q)

-----------------------------------------------------------------------------
(* Waiting and waking *)

\* The first half of tq_wait on queue q, up to the context switch: the queue
\* becomes tq_push(q, t), the caller's spinlock is released in spin_sleep_cb.
TqSleep(t) ==
  /\ state' = [state EXCEPT ![t] = "SLEEPING"]
  /\ error_no' = [error_no EXCEPT ![t] = "EINTR"]

\* The second half starts when the scheduler runs the thread again: it takes
\* the spinlock back in spin_wake_cb, and the queue becomes tq_remove(q, t).
\* tq_wait then returns error_no[t].
TqAwake(t) == state[t] = "RUNNING"

\* tq_wakeup of {Head(q)}, the queue becoming tq_pop(q), or tq_wakeup_all of
\* everybody in q: scheduler_wakeup makes the popped threads runnable.
TqWake(ts) ==
  /\ state' = [t \in Threads |-> IF t \in ts THEN "RUNNING" ELSE state[t]]
  /\ error_no' = [t \in Threads |-> IF t \in ts THEN "OK" ELSE error_no[t]]

\* wakeup(p) from code that knows the thread and not the queue.
AsyncWakeup(t) ==
  /\ state[t] = "SLEEPING"
  /\ state' = [state EXCEPT ![t] = "RUNNING"]
  /\ UNCHANGED error_no
=============================================================================
