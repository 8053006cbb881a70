----------------------------- MODULE Completion -----------------------------
(***************************************************************************)
(* Completions (kernel/lock/completion.c): disk requests and page-cache    *)
(* flushes wait on them.  done counts completions not yet consumed; at     *)
(* MAX_COMPLETIONS (set by complete_all) it sticks.                        *)
(*                                                                         *)
(* complete_all moves the waiters to a queue on its own stack under the    *)
(* spinlock and wakes them one by one after releasing it, so its waking    *)
(* loop is a step per waiter; everything else is one critical section.     *)
(***************************************************************************)
EXTENDS ThreadQueue

CONSTANT MAX_COMPLETIONS   \* 65535 in the code

VARIABLES
  done,         \* c->done
  wait_queue,   \* c->wait_queue
  temp_queue,   \* temp_queue of each thread's complete_all
  pc            \* where each thread is

vars == <<done, wait_queue, temp_queue, pc, state, error_no>>

PCs == {"idle",
        "sleep",    \* in tq_wait, called by wait_for_completion
        "waking",   \* in complete_all after its critical section
        "panic"}    \* the assertion of tq_wait failed

Goto(t, from, to) ==
  /\ pc[t] = from
  /\ pc' = [pc EXCEPT ![t] = to]

\* completion_init.
Init ==
  /\ TqInit
  /\ done = 0
  /\ wait_queue = <<>>
  /\ temp_queue = [t \in Threads |-> <<>>]
  /\ pc = [t \in Threads |-> "idle"]

-----------------------------------------------------------------------------
(* Waiting *)

\* done after a successful __try_wait_for_completion.
Consumed == IF done # MAX_COMPLETIONS THEN done - 1 ELSE done

\* Bug: tq_size compared with one.
completion_do_wake_two(q) ==
  IF Len(q) > 1
  THEN wait_queue' = tq_pop(q) /\ TqWake({Head(q)})
  ELSE wait_queue' = q /\ UNCHANGED <<state, error_no>>

\* __completion_do_wake with q as the queue.
completion_do_wake(q) ==
  IF q # <<>>
  THEN wait_queue' = tq_pop(q) /\ TqWake({Head(q)})
  ELSE wait_queue' = q /\ UNCHANGED <<state, error_no>>

\* The while loop ends: consume, and if more is done wake the next waiter.
TakeDone(t, from, q) ==
  /\ done > 0
  /\ Goto(t, from, "idle")
  /\ done' = Consumed
  /\ IF Consumed > 0
     THEN completion_do_wake(q)
     ELSE wait_queue' = q /\ UNCHANGED <<state, error_no>>
  /\ UNCHANGED temp_queue

\* Nothing done yet: tq_wait.
SleepMore(t, from, q) ==
  /\ done <= 0
  /\ Goto(t, from, "sleep")
  /\ TqSleep(t)
  /\ wait_queue' = tq_push(q, t)
  /\ UNCHANGED <<done, temp_queue>>

\* wait_for_completion up to its return or its first sleep.
WaitForCompletion(t) ==
  TakeDone(t, "idle", wait_queue) \/ SleepMore(t, "idle", wait_queue)

try_wait_for_completion(t) ==
  /\ pc[t] = "idle"
  /\ done > 0
  /\ done' = Consumed
  /\ UNCHANGED <<wait_queue, temp_queue, pc, state, error_no>>

\* t's waiter node is linked in the stack queue of some complete_all.
Moved(t) == \E u \in Threads : tq_enqueued(temp_queue[u], t)

\* Back from tq_wait, whatever it returned: the loop looks at done again.
WaitResume(t) ==
  LET q == tq_remove(wait_queue, t)
  IN /\ TqAwake(t)
     /\ ~Moved(t)
     /\ TakeDone(t, "sleep", q) \/ SleepMore(t, "sleep", q)

\* Woken from outside while a complete_all has moved the node: tq_remove
\* from c->wait_queue fails and tq_wait panics.
WaitPanic(t) ==
  /\ TqAwake(t)
  /\ Moved(t)
  /\ Goto(t, "sleep", "panic")
  /\ UNCHANGED <<done, wait_queue, temp_queue, state, error_no>>

-----------------------------------------------------------------------------
(* Completing *)

Complete(t) ==
  /\ pc[t] = "idle"
  /\ done' = IF done # MAX_COMPLETIONS THEN done + 1 ELSE done
  /\ completion_do_wake(wait_queue)
  /\ UNCHANGED <<temp_queue, pc>>

\* complete_all, the critical section.
CompleteAll(t) ==
  /\ Goto(t, "idle", "waking")
  /\ done' = MAX_COMPLETIONS
  /\ temp_queue' = [temp_queue EXCEPT ![t] = wait_queue]
  /\ wait_queue' = <<>>
  /\ UNCHANGED <<state, error_no>>

\* complete_all, tq_wakeup_all outside the lock: the next waiter.
WakeMoved(t) ==
  /\ temp_queue[t] # <<>>
  /\ pc[t] = "waking"
  /\ temp_queue' = [temp_queue EXCEPT ![t] = tq_pop(@)]
  /\ TqWake({Head(temp_queue[t])})
  /\ UNCHANGED <<done, wait_queue, pc>>

CompleteAllReturn(t) ==
  /\ temp_queue[t] = <<>>
  /\ Goto(t, "waking", "idle")
  /\ UNCHANGED <<done, wait_queue, temp_queue, state, error_no>>

\* completion_reinit: a plain store, without the spinlock.
completion_reinit(t) ==
  /\ pc[t] = "idle"
  /\ done' = 0
  /\ UNCHANGED <<wait_queue, temp_queue, pc, state, error_no>>

-----------------------------------------------------------------------------
(* Specification *)

Step(t) ==
  \/ WaitForCompletion(t) \/ try_wait_for_completion(t)
  \/ WaitResume(t) \/ WaitPanic(t)
  \/ Complete(t) \/ CompleteAll(t) \/ WakeMoved(t) \/ CompleteAllReturn(t)
  \/ completion_reinit(t)

OtherWakeup(t) ==
  AsyncWakeup(t) /\ UNCHANGED <<done, wait_queue, temp_queue, pc>>

Next == \E t \in Threads : Step(t) \/ OtherWakeup(t)

Spec == Init /\ [][Next]_vars

\* Runnable threads run and complete_all finishes.
Fairness ==
  \A t \in Threads :
    /\ WF_vars(WaitResume(t) \/ WaitPanic(t))
    /\ WF_vars(WakeMoved(t) \/ CompleteAllReturn(t))

FairSpec == Spec /\ Fairness

-----------------------------------------------------------------------------
(* Properties *)

\* No completion is lost on sleepers: while something is done and threads
\* are still queued, one that was woken is on its way and will consume it or
\* wake the next.
DoneIsNoticed ==
  done > 0 /\ wait_queue # <<>> =>
    \E t \in Threads : pc[t] \in {"sleep", "panic"} /\ state[t] = "RUNNING"

\* A sleeper's node is linked in exactly one place until it is popped, and
\* never after its thread left wait_for_completion.
LinkedOnce ==
  \A t \in Threads :
    LET places == {u \in Threads : tq_enqueued(temp_queue[u], t)}
    IN /\ \A u, v \in places : u = v
       /\ tq_enqueued(wait_queue, t) => places = {}
       /\ (tq_enqueued(wait_queue, t) \/ places # {}) => pc[t] \in {"sleep", "panic"}

=============================================================================
