------------------------------- MODULE Mutex -------------------------------
(***************************************************************************)
(* The kernel's sleeping lock (kernel/lock/mutex.c).                       *)
(*                                                                         *)
(* A locker first tries a compare-and-swap on lk->holder without any lock; *)
(* if that fails it takes the spinlock, tries again, and only then queues  *)
(* itself and sleeps.  mutex_unlock hands the mutex to the first waiter by *)
(* writing the waiter's pid into lk->holder.                               *)
(*                                                                         *)
(* A step is what a thread does between two points where another CPU can   *)
(* observe it: the unlocked CAS, taking the spinlock, a critical section   *)
(* of the spinlock.                                                        *)
(***************************************************************************)
EXTENDS ThreadQueue

VARIABLES
  lk,         \* the thread holding the spinlock lk->lk
  pc,         \* where each thread is
  holder,     \* lk->holder
  wait_queue  \* lk->wait_queue

vars == <<holder, wait_queue, lk, state, error_no, pc>>

PCs == {"idle",    \* outside, not holding the mutex
        "spin",    \* fast path failed, spinning on lk->lk
        "slow",    \* holds lk->lk, about to retry the CAS
        "sleep",   \* queued, inside scheduler_yield or spin_wake_cb
        "woken",   \* back in mutex_lock after tq_wait, holds lk->lk
        "cs",      \* mutex_lock returned 0
        "unspin",  \* in mutex_unlock, spinning on lk->lk
        "unlock"}  \* in mutex_unlock, holds lk->lk

Init ==
  /\ TqInit
  /\ lk = None
  /\ holder = None
  /\ wait_queue = <<>>
  /\ pc = [t \in Threads |-> "idle"]

Goto(t, from, to) ==
  /\ pc[t] = from
  /\ pc' = [pc EXCEPT ![t] = to]

spin_lock(t, from, to) ==
  /\ Goto(t, from, to)
  /\ lk = None
  /\ lk' = t

spin_unlock(t) == lk' = None

-----------------------------------------------------------------------------
(* mutex_lock *)

\* The CAS of lk->holder from -1 to the caller's pid.
mutex_try_set_holder(t) ==
  /\ holder = None
  /\ holder' = t

\* Fast path of mutex_lock, and mutex_trylock: the CAS succeeds.
LockFast(t) ==
  /\ Goto(t, "idle", "cs")
  /\ mutex_try_set_holder(t)
  /\ UNCHANGED <<lk, wait_queue, state, error_no>>

\* Fast path of mutex_lock: the CAS fails, go for the spinlock.  (A failed
\* mutex_trylock changes nothing.)
LockContended(t) ==
  /\ Goto(t, "idle", "spin")
  /\ holder # None
  /\ UNCHANGED <<holder, lk, wait_queue, state, error_no>>

LockSpin(t) ==
  /\ spin_lock(t, "spin", "slow")
  /\ UNCHANGED <<holder, wait_queue, state, error_no>>

\* The CAS under the spinlock succeeds: the mutex was released meanwhile.
SlowAcquire(t) ==
  /\ Goto(t, "slow", "cs")
  /\ mutex_try_set_holder(t)
  /\ spin_unlock(t)
  /\ UNCHANGED <<wait_queue, state, error_no>>

\* Bug: sleep without the second CAS under the spinlock.
SlowWaitBlind(t) ==
  /\ Goto(t, "slow", "sleep")
  /\ TqSleep(t)
  /\ spin_unlock(t)
  /\ wait_queue' = tq_push(wait_queue, t)
  /\ UNCHANGED holder

\* Still held by somebody: queue up and sleep.
SlowWait(t) ==
  /\ holder # None
  /\ Goto(t, "slow", "sleep")
  /\ TqSleep(t)
  /\ spin_unlock(t)
  /\ wait_queue' = tq_push(wait_queue, t)
  /\ UNCHANGED holder

\* tq_wait gets the spinlock back and unlinks the waiter.
WaitResume(t) ==
  /\ TqAwake(t)
  /\ spin_lock(t, "sleep", "woken")
  /\ wait_queue' = tq_remove(wait_queue, t)
  /\ UNCHANGED <<holder, state, error_no>>

\* tq_wait returned 0: leave if mutex_unlock has made us the holder, else
\* the while loop waits again.
WaitOk(t) ==
  /\ error_no[t] = "OK"
  /\ spin_unlock(t)
  /\ IF holder = t
     THEN /\ Goto(t, "woken", "cs")
          /\ UNCHANGED <<wait_queue, state, error_no>>
     ELSE /\ Goto(t, "woken", "sleep")
          /\ TqSleep(t)
          /\ wait_queue' = tq_push(wait_queue, t)
  /\ UNCHANGED holder

\* Bug: the waiter is woken and the mutex left free instead of handed over.
do_wakeup_no_handover ==
  /\ holder' = None
  /\ IF wait_queue = <<>>
     THEN UNCHANGED <<wait_queue, state, error_no>>
     ELSE /\ wait_queue' = tq_pop(wait_queue)
          /\ TqWake({Head(wait_queue)})

\* __do_wakeup(lk): hand the mutex to the first waiter, or leave it free.
do_wakeup ==
  IF wait_queue = <<>>
  THEN /\ holder' = None
       /\ UNCHANGED <<wait_queue, state, error_no>>
  ELSE /\ holder' = Head(wait_queue)
       /\ wait_queue' = tq_pop(wait_queue)
       /\ TqWake({Head(wait_queue)})

\* Bug: the mutex is passed on by a waiter that was never the holder.
WaitErrorPassesOn(t) ==
  /\ Goto(t, "woken", "idle")
  /\ error_no[t] # "OK"
  /\ spin_unlock(t)
  /\ do_wakeup

\* tq_wait returned -EINTR: pass the mutex on if it was handed to us, and
\* report the error to the caller.
WaitError(t) ==
  /\ Goto(t, "woken", "idle")
  /\ error_no[t] # "OK"
  /\ spin_unlock(t)
  /\ IF holder = t
     THEN do_wakeup
     ELSE UNCHANGED <<holder, wait_queue, state, error_no>>

-----------------------------------------------------------------------------
(* mutex_unlock *)

UnlockStart(t) ==
  /\ Goto(t, "cs", "unspin")
  /\ UNCHANGED <<holder, lk, wait_queue, state, error_no>>

UnlockSpin(t) ==
  /\ spin_lock(t, "unspin", "unlock")
  /\ UNCHANGED <<holder, wait_queue, state, error_no>>

Unlock(t) ==
  /\ Goto(t, "unlock", "idle")
  /\ do_wakeup
  /\ spin_unlock(t)

-----------------------------------------------------------------------------
(* Specification *)

TakesSpinlock(t) == LockSpin(t) \/ WaitResume(t) \/ UnlockSpin(t)

Step(t) ==
  \/ TakesSpinlock(t)
  \/ SlowAcquire(t) \/ SlowWait(t)
  \/ WaitOk(t) \/ WaitError(t)
  \/ UnlockStart(t) \/ Unlock(t)

OtherWakeup(t) == AsyncWakeup(t) /\ UNCHANGED <<lk, pc, holder, wait_queue>>

Next ==
  \E t \in Threads :
    LockFast(t) \/ LockContended(t) \/ Step(t) \/ OtherWakeup(t)

Spec == Init /\ [][Next]_vars

(***************************************************************************)
(* A CPU keeps executing its thread, so an enabled step of a thread is     *)
(* taken; holders leave their critical section.  lk->lk is a test-and-set  *)
(* lock: that no CPU loses the race for it for ever is what spin_acquire   *)
(* itself relies on (it panics with "deadlock detected" after a bounded    *)
(* number of attempts), hence strong fairness for taking it.               *)
(***************************************************************************)
Fairness ==
  \A t \in Threads : WF_vars(Step(t)) /\ SF_vars(TakesSpinlock(t))

FairSpec == Spec /\ Fairness

-----------------------------------------------------------------------------
(* Properties *)

\* Every variable keeps its type.
TypeOK ==
  /\ TqTypeOK
  /\ lk \in Threads \cup {None}
  /\ holder \in Threads \cup {None}
  /\ wait_queue \in Seq(Threads)
  /\ pc \in [Threads -> PCs]

\* Threads between a successful mutex_lock and the hand-over in mutex_unlock.
Inside(t) == pc[t] \in {"cs", "unspin", "unlock"}

\* Mutual exclusion, across the unlocked CAS, the retry under the spinlock,
\* the hand-over to a sleeper and interrupted waiters: two threads are never
\* both between mutex_lock and mutex_unlock.
MutualExclusion ==
  \A t, u \in Threads : Inside(t) /\ Inside(u) => t = u

\* No lost wakeup: while a thread is queued the mutex has a holder, so a
\* mutex_unlock (or the error path of mutex_lock) is still to come that will
\* wake it.  This is what the second CAS under the spinlock is for.
NoStrandedWaiter == wait_queue # <<>> => holder # None

\* A thread the mutex was handed to while it slept is awake and will see
\* tq_wait return 0: the hand-over cannot meet the -EINTR path, whose
\* assertion "failed to wake up threads after interrupt" (mutex.c:79) would
\* panic when nobody else is queued.
HandoverIsSeen ==
  \A t \in Threads :
    /\ holder = t
    /\ pc[t] \in {"sleep", "woken"}
    => error_no[t] = "OK" /\ state[t] = "RUNNING" /\ ~tq_enqueued(wait_queue, t)

\* A thread that is not inside tq_wait is in no queue: a waiter node lives
\* on the stack of tq_wait and must be unlinked before that returns, however
\* the thread was woken.
NoDanglingWaiter ==
  \A t \in Threads : tq_enqueued(wait_queue, t) => pc[t] = "sleep"

\* A thread that started to wait gets the mutex, or an error, in the end.
LockReturns ==
  \A t \in Threads : pc[t] = "spin" ~> pc[t] \in {"cs", "idle"}

=============================================================================
