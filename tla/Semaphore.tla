----------------------------- MODULE Semaphore -----------------------------
(***************************************************************************)
(* The counting semaphore (kernel/lock/semaphore.c).  A negative value     *)
(* counts the waiters.  Every field is touched only under sem->lk, so an   *)
(* action is a whole critical section: sem_wait up to its return or to the *)
(* context switch in tq_wait, the rest of sem_wait once the thread runs    *)
(* again, sem_trywait, sem_post.                                           *)
(***************************************************************************)
EXTENDS ThreadQueue, Integers, FiniteSets

CONSTANTS SEM_VALUE_MAX,   \* bound of the value (2147483640 in the code)
          InitialValue     \* the value given to sem_init

VARIABLES
  value,       \* sem->value
  wait_queue,  \* sem->wait_queue
  pc,          \* where each thread is
  tokens       \* InitialValue + posts - successful waits (auxiliary)

vars == <<value, wait_queue, pc, tokens, state, error_no>>

PCs == {"idle",   \* holds nothing
        "sleep",  \* in tq_wait
        "in"}     \* sem_wait or sem_trywait returned 0

Goto(t, from, to) ==
  /\ pc[t] = from
  /\ pc' = [pc EXCEPT ![t] = to]

\* sem_init.
Init ==
  /\ TqInit
  /\ value = InitialValue
  /\ wait_queue = <<>>
  /\ pc = [t \in Threads |-> "idle"]
  /\ tokens = InitialValue

-----------------------------------------------------------------------------
(* sem_wait and sem_trywait *)

WaitFast(t) ==
  /\ value - 1 >= 0
  /\ Goto(t, "idle", "in")
  /\ value' = value - 1
  /\ tokens' = tokens - 1
  /\ UNCHANGED <<wait_queue, state, error_no>>

\* The value goes negative: wait.  Below -SEM_VALUE_MAX the decrement is
\* taken back and sem_wait fails with -EOVERFLOW, leaving nothing changed.
WaitSleep(t) ==
  /\ value - 1 < 0
  /\ value - 1 >= -SEM_VALUE_MAX
  /\ Goto(t, "idle", "sleep")
  /\ TqSleep(t)
  /\ value' = value - 1
  /\ wait_queue' = tq_push(wait_queue, t)
  /\ UNCHANGED tokens

TryWait(t) ==
  /\ value > 0
  /\ Goto(t, "idle", "in")
  /\ value' = value - 1
  /\ tokens' = tokens - 1
  /\ UNCHANGED <<wait_queue, state, error_no>>

\* __sem_do_post with q the queue: count up, and if the value was negative
\* pop and wake a waiter, which returns 0 from tq_wait.  With an empty queue
\* it returns -ENOENT, which both callers ignore.
sem_do_post(q) ==
  /\ value' = value + 1
  /\ IF value + 1 <= 0 /\ q # <<>>
     THEN wait_queue' = tq_pop(q) /\ TqWake({Head(q)})
     ELSE wait_queue' = q /\ UNCHANGED <<state, error_no>>

\* The number of waiters sem_do_post admits.
Admitted(q) == IF value + 1 <= 0 /\ q # <<>> THEN 1 ELSE 0

\* tq_wait returned 0: a __sem_do_post popped us, that of sem_post or the
\* undo of another waiter that was interrupted (WaitError).
WaitOk(t) ==
  /\ Goto(t, "sleep", "in")
  /\ TqAwake(t)
  /\ error_no[t] = "OK"
  /\ wait_queue' = tq_remove(wait_queue, t)
  /\ UNCHANGED <<value, tokens, state, error_no>>

\* tq_wait returned -EINTR: undo the decrement with __sem_do_post.
WaitError(t) ==
  /\ Goto(t, "sleep", "idle")
  /\ TqAwake(t)
  /\ error_no[t] # "OK"
  /\ sem_do_post(tq_remove(wait_queue, t))
  /\ tokens' = tokens - Admitted(tq_remove(wait_queue, t))

-----------------------------------------------------------------------------
(* sem_post, by a thread that got in or by a producer *)

Post(t) ==
  /\ pc[t] \in {"idle", "in"}
  /\ pc' = [pc EXCEPT ![t] = "idle"]
  /\ value # SEM_VALUE_MAX
  /\ sem_do_post(wait_queue)
  /\ tokens' = tokens + 1 - Admitted(wait_queue)

\* sem_post at the maximum: -EOVERFLOW; the caller keeps what it has.
PostOverflow(t) ==
  /\ value = SEM_VALUE_MAX
  /\ Goto(t, "in", "idle")
  /\ UNCHANGED <<value, wait_queue, tokens, state, error_no>>

-----------------------------------------------------------------------------
(* Specification *)

OtherWakeup(t) ==
  /\ AsyncWakeup(t)
  /\ UNCHANGED <<value, wait_queue, pc, tokens>>

Step(t) ==
  \/ WaitFast(t) \/ WaitSleep(t) \/ TryWait(t)
  \/ WaitOk(t) \/ WaitError(t)
  \/ Post(t) \/ PostOverflow(t)

Next == \E t \in Threads : Step(t) \/ OtherWakeup(t)

Spec == Init /\ [][Next]_vars

\* Threads that run keep running, and who got in posts in the end.
Fairness ==
  \A t \in Threads :
    /\ WF_vars(WaitOk(t) \/ WaitError(t))
    /\ WF_vars((Post(t) \/ PostOverflow(t)) /\ pc[t] = "in")

FairSpec == Spec /\ Fairness

-----------------------------------------------------------------------------
(* Properties *)

\* The value is exactly what is left minus who waits, through hand-overs,
\* interrupted waiters and lost races.  What is left can be negative: the undo
\* of an interrupted waiter admits a waiter for whom nothing was posted.
CountIsExact == value = tokens - Len(wait_queue)

\* While a unit is to be had nobody is left queued.
NoIdleUnit == wait_queue # <<>> => value < 0

=============================================================================
