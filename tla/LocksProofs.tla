---------------------------- MODULE LocksProofs ----------------------------
(***************************************************************************)
(* The sleeping locks, for any number of threads: the mutex excludes,      *)
(* strands no waiter and leaves no waiter node linked; a writer of the     *)
(* reader/writer semaphore is alone and its readers are counted; a         *)
(* completion is not lost and the value of a semaphore is exact.           *)
(*                                                                         *)
(* Mutual exclusion is not inductive: it needs to know that the thread     *)
(* inside is the one lk->holder names, and that a sleeper the mutex was    *)
(* handed to will notice (so that nobody passes it on twice).  HolderMeans *)
(* and HandoverIsSeen say so; QueueOK keeps the queue and the program      *)
(* counters in step.  The reader/writer semaphore needs the same of        *)
(* holder_pid, and that a holder and readers exclude each other.  For the  *)
(* semaphore the queue has to be exactly the sleepers nobody popped, and   *)
(* nothing may be left while somebody is queued.                           *)
(***************************************************************************)
EXTENDS MCLocks, FiniteSetTheorems, Integers, TLAPS

-----------------------------------------------------------------------------
(* What the list operations of ThreadQueue do to the members of a queue *)

\* No thread has two waiter nodes in the queue.
Distinct(q) == \A i, j \in 1..Len(q) : q[i] = q[j] => i = j

\* Pushing a waiter adds exactly its thread.
LEMMA PushMembers ==
  ASSUME NEW T, NEW q \in Seq(T), NEW t \in T
  PROVE  /\ tq_push(q, t) \in Seq(T)
         /\ Len(tq_push(q, t)) = Len(q) + 1
         /\ tq_push(q, t) # <<>>
         /\ \A u \in T :
              tq_enqueued(tq_push(q, t), u) <=> tq_enqueued(q, u) \/ u = t
  <1>1. /\ tq_push(q, t) \in Seq(T)
        /\ Len(tq_push(q, t)) = Len(q) + 1
        /\ \A i \in 1..Len(q) : tq_push(q, t)[i] = q[i]
        /\ tq_push(q, t)[Len(q) + 1] = t
    BY DEF tq_push
  <1>2. Len(q) \in Nat
    OBVIOUS
  <1>3. tq_push(q, t) # <<>>
    BY <1>1, <1>2
  <1>4. ASSUME NEW u \in T, tq_enqueued(tq_push(q, t), u)
        PROVE  tq_enqueued(q, u) \/ u = t
    <2>1. PICK i \in 1..(Len(q) + 1) : tq_push(q, t)[i] = u
      BY <1>1, <1>4 DEF tq_enqueued
    <2>2. CASE i = Len(q) + 1
      BY <1>1, <2>1, <2>2
    <2>3. CASE i \in 1..Len(q)
      BY <1>1, <2>1, <2>3 DEF tq_enqueued
    <2>4. QED
      BY <1>2, <2>2, <2>3
  <1>5. ASSUME NEW u \in T, tq_enqueued(q, u) \/ u = t
        PROVE  tq_enqueued(tq_push(q, t), u)
    <2>1. CASE u = t
      <3>1. Len(q) + 1 \in 1..Len(tq_push(q, t))
        BY <1>1, <1>2
      <3>2. QED
        BY <1>1, <2>1, <3>1 DEF tq_enqueued
    <2>2. CASE tq_enqueued(q, u)
      <3>1. PICK i \in 1..Len(q) : q[i] = u
        BY <2>2 DEF tq_enqueued
      <3>2. i \in 1..Len(tq_push(q, t))
        BY <1>1, <1>2
      <3>3. QED
        BY <1>1, <3>1, <3>2 DEF tq_enqueued
    <2>3. QED
      BY <1>5, <2>1, <2>2
  <1>6. QED
    BY <1>1, <1>3, <1>4, <1>5

\* A thread that pushes its waiter while it has none keeps nodes distinct.
LEMMA PushDistinct ==
  ASSUME NEW T, NEW q \in Seq(T), NEW t \in T,
         Distinct(q), ~tq_enqueued(q, t)
  PROVE  Distinct(tq_push(q, t))
  <1>1. /\ Len(tq_push(q, t)) = Len(q) + 1
        /\ \A i \in 1..Len(q) : tq_push(q, t)[i] = q[i]
        /\ tq_push(q, t)[Len(q) + 1] = t
        /\ Len(q) \in Nat
    BY DEF tq_push
  <1>2. \A i \in 1..Len(q) : q[i] # t
    BY DEF tq_enqueued
  <1>3. QED
    BY <1>1, <1>2 DEF Distinct

\* Unlinking a waiter removes exactly its thread.
LEMMA RemoveMembers ==
  ASSUME NEW T, NEW q \in Seq(T), NEW t \in T, Distinct(q)
  PROVE  /\ tq_remove(q, t) \in Seq(T)
         /\ Distinct(tq_remove(q, t))
         /\ \A u \in T :
              tq_enqueued(tq_remove(q, t), u) <=> tq_enqueued(q, u) /\ u # t
         /\ Len(tq_remove(q, t)) = IF tq_enqueued(q, t) THEN Len(q) - 1 ELSE Len(q)
         /\ tq_remove(q, t) # <<>> => q # <<>>
  <1>1. CASE ~tq_enqueued(q, t)
    BY <1>1 DEF tq_remove
  <1>2. CASE tq_enqueued(q, t)
    <2> DEFINE at == CHOOSE i \in 1..Len(q) : q[i] = t
               r == tq_remove(q, t)
    <2>1. at \in 1..Len(q) /\ q[at] = t
      BY <1>2 DEF tq_enqueued
    <2>2. r = [i \in 1..(Len(q) - 1) |-> IF i < at THEN q[i] ELSE q[i + 1]]
      BY <1>2 DEF tq_remove
    <2> HIDE DEF at, r
    <2>3. Len(q) \in Nat /\ Len(q) >= 1 /\ Len(q) - 1 \in Nat /\ q # <<>>
      BY <2>1
    <2>4. \A i \in 1..(Len(q) - 1) :
            (IF i < at THEN q[i] ELSE q[i + 1]) \in T
      BY <2>1, <2>3
    <2>5. r \in Seq(T) /\ Len(r) = Len(q) - 1
      BY <2>2, <2>3, <2>4
    <2>6. \A i \in 1..Len(r) : r[i] = IF i < at THEN q[i] ELSE q[i + 1]
      BY <2>2, <2>5
    <2>7. Distinct(r)
      BY <2>1, <2>3, <2>5, <2>6 DEF Distinct
    <2>8. ASSUME NEW u \in T, tq_enqueued(r, u)
          PROVE  tq_enqueued(q, u) /\ u # t
      <3>1. PICK i \in 1..Len(r) : r[i] = u
        BY <2>8 DEF tq_enqueued
      <3>2. CASE i < at
        BY <2>1, <2>3, <2>5, <2>6, <3>1, <3>2 DEF tq_enqueued, Distinct
      <3>3. CASE ~(i < at)
        <4>1. i + 1 \in 1..Len(q) /\ i + 1 # at /\ q[i + 1] = u
          BY <2>1, <2>3, <2>5, <2>6, <3>1, <3>3
        <4>2. QED
          BY <2>1, <4>1 DEF tq_enqueued, Distinct
      <3>4. QED
        BY <3>2, <3>3
    <2>9. ASSUME NEW u \in T, tq_enqueued(q, u), u # t
          PROVE  tq_enqueued(r, u)
      <3>1. PICK i \in 1..Len(q) : q[i] = u
        BY <2>9 DEF tq_enqueued
      <3>2. i # at
        BY <2>1, <2>9, <3>1
      <3>3. CASE i < at
        <4>1. i \in 1..Len(r) /\ r[i] = u
          BY <2>1, <2>3, <2>5, <2>6, <3>1, <3>3
        <4>2. QED
          BY <4>1 DEF tq_enqueued
      <3>4. CASE i > at
        <4>1. i - 1 \in 1..Len(r) /\ r[i - 1] = u
          BY <2>1, <2>3, <2>5, <2>6, <3>1, <3>4
        <4>2. QED
          BY <4>1 DEF tq_enqueued
      <3>5. QED
        BY <2>1, <3>2, <3>3, <3>4
    <2>10. QED
      BY <1>2, <2>3, <2>5, <2>7, <2>8, <2>9 DEF r
  <1>3. QED
    BY <1>1, <1>2

\* Popping the first waiter removes exactly its thread.
LEMMA PopMembers ==
  ASSUME NEW T, NEW q \in Seq(T), q # <<>>, Distinct(q)
  PROVE  /\ Head(q) \in T
         /\ tq_enqueued(q, Head(q))
         /\ tq_pop(q) \in Seq(T)
         /\ Distinct(tq_pop(q))
         /\ Len(tq_pop(q)) = Len(q) - 1
         /\ \A u \in T :
              tq_enqueued(tq_pop(q), u) <=> tq_enqueued(q, u) /\ u # Head(q)
  <1>1. /\ Len(q) \in Nat /\ Len(q) >= 1
        /\ Head(q) = q[1]
        /\ tq_pop(q) \in Seq(T)
        /\ Len(tq_pop(q)) = Len(q) - 1
        /\ \A i \in 1..Len(tq_pop(q)) : tq_pop(q)[i] = q[i + 1]
    BY DEF tq_pop
  <1>2. Head(q) \in T /\ tq_enqueued(q, Head(q))
    BY <1>1 DEF tq_enqueued
  <1>3. Distinct(tq_pop(q))
    BY <1>1 DEF Distinct
  <1>4. ASSUME NEW u \in T, tq_enqueued(tq_pop(q), u)
        PROVE  tq_enqueued(q, u) /\ u # Head(q)
    <2>1. PICK i \in 1..Len(tq_pop(q)) : tq_pop(q)[i] = u
      BY <1>4 DEF tq_enqueued
    <2>2. i + 1 \in 1..Len(q) /\ i + 1 # 1 /\ q[i + 1] = u
      BY <1>1, <2>1
    <2>3. QED
      BY <1>1, <2>2 DEF tq_enqueued, Distinct
  <1>5. ASSUME NEW u \in T, tq_enqueued(q, u), u # Head(q)
        PROVE  tq_enqueued(tq_pop(q), u)
    <2>1. PICK i \in 1..Len(q) : q[i] = u
      BY <1>5 DEF tq_enqueued
    <2>2. i - 1 \in 1..Len(tq_pop(q)) /\ tq_pop(q)[i - 1] = u
      BY <1>1, <1>5, <2>1
    <2>3. QED
      BY <2>2 DEF tq_enqueued
  <1>6. QED
    BY <1>1, <1>2, <1>3, <1>4, <1>5

-----------------------------------------------------------------------------
(* The mutex *)

\* Who is inside holds the mutex; the holder is inside or about to learn it.
HolderMeans ==
  /\ \A t \in Threads : Inside(t) => holder = t
  /\ \A t \in Threads : holder = t => Inside(t) \/ pc[t] \in {"sleep", "woken"}

\* A thread back from tq_wait with 0 is the holder.
WokenOkHolds ==
  \A t \in Threads :
    pc[t] \in {"sleep", "woken"} /\ error_no[t] = "OK" => holder = t

QueueOK == Distinct(wait_queue) /\ NoDanglingWaiter

IInv ==
  /\ TypeOK
  /\ HolderMeans
  /\ WokenOkHolds
  /\ HandoverIsSeen
  /\ QueueOK
  /\ NoStrandedWaiter

\* The initial state satisfies the inductive invariant.
LEMMA InitIInv == Init => IInv
  BY NoneIsNoThread
  DEF Init, TqInit, IInv, TypeOK, TqTypeOK, States, Errors, PCs, HolderMeans,
      Inside, WokenOkHolds, HandoverIsSeen, QueueOK, Distinct,
      NoDanglingWaiter, tq_enqueued, NoStrandedWaiter

\* __do_wakeup by a thread t that holds the mutex and is about to leave.
LEMMA DoWakeupIInv ==
  ASSUME IInv, NEW t \in Threads, holder = t, do_wakeup, spin_unlock(t),
         pc[t] \in {"unlock", "woken"}, pc' = [pc EXCEPT ![t] = "idle"]
  PROVE  IInv'
  <1> USE DEF IInv, TypeOK, TqTypeOK, States, Errors, PCs
  <1>1. ~tq_enqueued(wait_queue, t)
    BY DEF QueueOK, NoDanglingWaiter
  <1>2. \A u \in Threads : Inside(u) => u = t
    BY DEF HolderMeans
  <1>3. CASE wait_queue = <<>>
    <2>1. holder' = None /\ UNCHANGED <<wait_queue, state, error_no>>
      BY <1>3 DEF do_wakeup
    <2>2. TypeOK'
      BY <2>1 DEF spin_unlock
    <2>3. HolderMeans' /\ HandoverIsSeen'
      BY <1>2, <2>1, NoneIsNoThread DEF HolderMeans, HandoverIsSeen, Inside
    <2>4. WokenOkHolds'
      BY <2>1 DEF WokenOkHolds
    <2>5. QueueOK' /\ NoStrandedWaiter'
      BY <1>3, <2>1 DEF QueueOK, NoDanglingWaiter, NoStrandedWaiter, Distinct,
                        tq_enqueued
    <2>6. QED
      BY <2>2, <2>3, <2>4, <2>5
  <1>4. CASE wait_queue # <<>>
    <2> DEFINE h == Head(wait_queue)
    <2>1. /\ holder' = h
          /\ wait_queue' = tq_pop(wait_queue)
          /\ state' = [u \in Threads |-> IF u = h THEN "RUNNING" ELSE state[u]]
          /\ error_no' = [u \in Threads |-> IF u = h THEN "OK" ELSE error_no[u]]
      BY <1>4 DEF do_wakeup, TqWake
    <2>2. /\ h \in Threads
          /\ tq_enqueued(wait_queue, h)
          /\ tq_pop(wait_queue) \in Seq(Threads)
          /\ Distinct(tq_pop(wait_queue))
          /\ \A u \in Threads : tq_enqueued(tq_pop(wait_queue), u) =>
                                  tq_enqueued(wait_queue, u) /\ u # h
      BY <1>4, PopMembers DEF QueueOK
    <2> HIDE DEF h
    <2>3. pc[h] = "sleep" /\ h # t
      BY <1>1, <2>2 DEF QueueOK, NoDanglingWaiter
    <2>4. TypeOK'
      BY <2>1, <2>2 DEF spin_unlock
    <2>5. HolderMeans'
      BY <1>2, <2>1, <2>3 DEF HolderMeans, Inside
    <2>6. WokenOkHolds'
      BY <2>1, <2>2, <2>3 DEF WokenOkHolds
    <2>7. HandoverIsSeen'
      BY <2>1, <2>2, <2>3 DEF HandoverIsSeen
    <2>8. QueueOK'
      BY <1>1, <2>1, <2>2, <2>3 DEF QueueOK, NoDanglingWaiter
    <2>9. NoStrandedWaiter'
      BY <2>1, <2>2, NoneIsNoThread DEF NoStrandedWaiter
    <2>10. QED
      BY <2>4, <2>5, <2>6, <2>7, <2>8, <2>9
  <1>5. QED
    BY <1>3, <1>4

\* Every step preserves the inductive invariant.
LEMMA NextIInv == IInv /\ [Next]_vars => IInv'
  <1> SUFFICES ASSUME IInv, [Next]_vars PROVE IInv'
    OBVIOUS
  <1> USE DEF IInv, TypeOK, TqTypeOK, States, Errors, PCs
  <1>u. CASE UNCHANGED vars
    BY <1>u DEF vars, HolderMeans, Inside, WokenOkHolds, HandoverIsSeen,
                QueueOK, NoDanglingWaiter, NoStrandedWaiter
  <1>n. ASSUME NEW t \in Threads,
               LockFast(t) \/ LockContended(t) \/ Step(t) \/ OtherWakeup(t)
        PROVE  IInv'
    <2>1. CASE LockFast(t)
      BY <2>1, NoneIsNoThread
      DEF LockFast, mutex_try_set_holder, Goto, HolderMeans, Inside,
          WokenOkHolds, HandoverIsSeen, QueueOK, NoDanglingWaiter,
          NoStrandedWaiter
    <2>2. CASE LockContended(t)
      BY <2>2 DEF LockContended, Goto, HolderMeans, Inside, WokenOkHolds,
                  HandoverIsSeen, QueueOK, NoDanglingWaiter, NoStrandedWaiter
    <2>3. CASE LockSpin(t)
      BY <2>3 DEF LockSpin, spin_lock, Goto, HolderMeans, Inside, WokenOkHolds,
                  HandoverIsSeen, QueueOK, NoDanglingWaiter, NoStrandedWaiter
    <2>4. CASE SlowAcquire(t)
      BY <2>4, NoneIsNoThread
      DEF SlowAcquire, mutex_try_set_holder, spin_unlock, Goto, HolderMeans,
          Inside, WokenOkHolds, HandoverIsSeen, QueueOK, NoDanglingWaiter,
          NoStrandedWaiter
    <2>5. CASE SlowWait(t)
      <3>1. /\ pc[t] = "slow" /\ pc' = [pc EXCEPT ![t] = "sleep"]
            /\ state' = [state EXCEPT ![t] = "SLEEPING"]
            /\ error_no' = [error_no EXCEPT ![t] = "EINTR"]
            /\ lk' = None /\ holder' = holder /\ holder # None
            /\ wait_queue' = tq_push(wait_queue, t)
        BY <2>5 DEF SlowWait, TqSleep, Goto, spin_unlock
      <3>2. holder # t /\ ~tq_enqueued(wait_queue, t)
        BY <3>1 DEF HolderMeans, Inside, QueueOK, NoDanglingWaiter
      <3>3. /\ wait_queue' \in Seq(Threads)
            /\ Distinct(wait_queue')
            /\ \A u \in Threads : tq_enqueued(wait_queue', u) =>
                                    tq_enqueued(wait_queue, u) \/ u = t
        BY <3>1, <3>2, PushMembers, PushDistinct DEF QueueOK
      <3>4. TypeOK'
        BY <3>1, <3>3
      <3>5. HolderMeans' /\ WokenOkHolds' /\ NoStrandedWaiter'
        BY <3>1, <3>2
        DEF HolderMeans, Inside, WokenOkHolds, NoStrandedWaiter
      <3>6. HandoverIsSeen' /\ QueueOK'
        BY <3>1, <3>2, <3>3 DEF HandoverIsSeen, QueueOK, NoDanglingWaiter
      <3>7. QED
        BY <3>4, <3>5, <3>6
    <2>6. CASE WaitResume(t)
      <3>1. /\ pc[t] = "sleep" /\ pc' = [pc EXCEPT ![t] = "woken"]
            /\ UNCHANGED <<state, error_no, holder>>
            /\ lk' = t
            /\ wait_queue' = tq_remove(wait_queue, t)
        BY <2>6 DEF WaitResume, TqAwake, spin_lock, Goto
      <3>2. /\ wait_queue' \in Seq(Threads)
            /\ Distinct(wait_queue')
            /\ \A u \in Threads : tq_enqueued(wait_queue', u) =>
                                    tq_enqueued(wait_queue, u) /\ u # t
            /\ wait_queue' # <<>> => wait_queue # <<>>
        BY <3>1, RemoveMembers DEF QueueOK
      <3>3. TypeOK'
        BY <3>1, <3>2
      <3>4. HolderMeans' /\ WokenOkHolds' /\ NoStrandedWaiter'
        BY <3>1, <3>2 DEF HolderMeans, Inside, WokenOkHolds, NoStrandedWaiter
      <3>5. HandoverIsSeen' /\ QueueOK'
        BY <3>1, <3>2 DEF HandoverIsSeen, QueueOK, NoDanglingWaiter
      <3>6. QED
        BY <3>3, <3>4, <3>5
    <2>7. CASE WaitOk(t)
      <3>1. pc[t] = "woken" /\ error_no[t] = "OK"
        BY <2>7 DEF WaitOk, Goto
      <3>2. holder = t
        BY <3>1 DEF WokenOkHolds
      <3>3. /\ pc' = [pc EXCEPT ![t] = "cs"]
            /\ lk' = None
            /\ UNCHANGED <<holder, wait_queue, state, error_no>>
        BY <2>7, <3>2 DEF WaitOk, Goto, spin_unlock
      <3>4. QED
        BY <3>1, <3>2, <3>3
        DEF HolderMeans, Inside, WokenOkHolds, HandoverIsSeen, QueueOK,
            NoDanglingWaiter, NoStrandedWaiter
    <2>8. CASE WaitError(t)
      <3>1. /\ pc[t] = "woken" /\ pc' = [pc EXCEPT ![t] = "idle"]
            /\ error_no[t] # "OK"
            /\ spin_unlock(t)
        BY <2>8 DEF WaitError, Goto
      <3>2. holder # t
        BY <3>1 DEF HandoverIsSeen
      <3>3. UNCHANGED <<holder, wait_queue, state, error_no>>
        BY <2>8, <3>2 DEF WaitError
      <3>4. QED
        BY <3>1, <3>2, <3>3
        DEF spin_unlock, HolderMeans, Inside, WokenOkHolds, HandoverIsSeen,
            QueueOK, NoDanglingWaiter, NoStrandedWaiter
    <2>9. CASE UnlockStart(t)
      BY <2>9 DEF UnlockStart, Goto, HolderMeans, Inside, WokenOkHolds,
                  HandoverIsSeen, QueueOK, NoDanglingWaiter, NoStrandedWaiter
    <2>10. CASE UnlockSpin(t)
      BY <2>10 DEF UnlockSpin, spin_lock, Goto, HolderMeans, Inside,
                   WokenOkHolds, HandoverIsSeen, QueueOK, NoDanglingWaiter,
                   NoStrandedWaiter
    <2>11. CASE Unlock(t)
      <3>1. /\ pc[t] = "unlock" /\ pc' = [pc EXCEPT ![t] = "idle"]
            /\ do_wakeup /\ spin_unlock(t)
        BY <2>11 DEF Unlock, Goto
      <3>2. holder = t
        BY <3>1 DEF HolderMeans, Inside
      <3>3. QED
        BY <3>1, <3>2, DoWakeupIInv
    <2>12. CASE OtherWakeup(t)
      BY <2>12 DEF OtherWakeup, AsyncWakeup, HolderMeans, Inside, WokenOkHolds,
                   HandoverIsSeen, QueueOK, NoDanglingWaiter, NoStrandedWaiter
    <2>13. QED
      BY <1>n, <2>1, <2>2, <2>3, <2>4, <2>5, <2>6, <2>7, <2>8, <2>9, <2>10,
         <2>11, <2>12 DEF Step, TakesSpinlock
  <1>q. QED
    BY <1>u, <1>n DEF Next

\* The inductive invariant holds in every reachable state.
LEMMA SpecIInv == Spec => []IInv
  BY InitIInv, NextIInv, PTL DEF Spec

\* Every variable keeps its type, for any set of threads.
THEOREM MutexTypeOK == Spec => []TypeOK
  <1>1. IInv => TypeOK
    BY DEF IInv
  <1>2. QED
    BY SpecIInv, <1>1, PTL

\* mutex_lock and mutex_unlock exclude: whatever the number of threads and
\* whoever wakes the sleepers, at most one thread is inside.
THEOREM MutexExcludes == Spec => []MutualExclusion
  <1>1. IInv => MutualExclusion
    BY DEF IInv, HolderMeans, MutualExclusion
  <1>2. QED
    BY SpecIInv, <1>1, PTL

\* mutex_lock never leaves a thread asleep on a mutex nobody holds.
THEOREM MutexStrandsNobody == Spec => []NoStrandedWaiter
  <1>1. IInv => NoStrandedWaiter
    BY DEF IInv
  <1>2. QED
    BY SpecIInv, <1>1, PTL

\* The hand-over of mutex_unlock is always seen by the thread it is made to.
THEOREM MutexHandoverIsSeen == Spec => []HandoverIsSeen
  <1>1. IInv => HandoverIsSeen
    BY DEF IInv
  <1>2. QED
    BY SpecIInv, <1>1, PTL

\* No waiter node outlives the tq_wait call whose stack frame it is in.
THEOREM MutexNoDanglingWaiter == Spec => []NoDanglingWaiter
  <1>1. IInv => NoDanglingWaiter
    BY DEF IInv, QueueOK
  <1>2. QED
    BY SpecIInv, <1>1, PTL

-----------------------------------------------------------------------------
(* The reader/writer semaphore *)

RwTypeOK ==
  /\ state \in [RwThreads -> States] /\ error_no \in [RwThreads -> Errors]
  /\ pc \in [RwThreads -> R!PCs]
  /\ readers \in Nat
  /\ holder_pid \in RwThreads \cup {None}
  /\ read_queue \in Seq(RwThreads) /\ write_queue \in Seq(RwThreads)

\* A linked node belongs to a sleeper nobody popped.
RwQueues ==
  /\ Distinct(read_queue) /\ Distinct(write_queue)
  /\ \A t \in RwThreads : tq_enqueued(read_queue, t) =>
                            pc[t] = "rsleep" /\ error_no[t] = "EINTR"
  /\ \A t \in RwThreads : tq_enqueued(write_queue, t) =>
                            pc[t] = "wsleep" /\ error_no[t] = "EINTR"

\* The holder is the writer inside, or the sleeper it was handed to; readers
\* and a holder exclude each other.
RwHolder ==
  /\ \A t \in RwThreads : pc[t] = "write" => holder_pid = t
  /\ \A t \in RwThreads : pc[t] = "wsleep" /\ error_no[t] = "OK" => holder_pid = t
  /\ \A t \in RwThreads : holder_pid = t =>
       \/ pc[t] = "write"
       \/ pc[t] = "wsleep" /\ state[t] = "RUNNING" /\ error_no[t] = "OK"
  /\ holder_pid # None => readers = 0

RwCount == readers = Cardinality(R!Reading)

\* On a free lock with waiters, a reader that was popped is on its way.
RwAwake ==
  (holder_pid = None /\ readers = 0 /\ (read_queue # <<>> \/ write_queue # <<>>))
  => \E t \in RwThreads : pc[t] = "rsleep" /\ state[t] = "RUNNING" /\ error_no[t] = "OK"

RwInv == RwTypeOK /\ RwQueues /\ RwHolder /\ RwCount /\ RwAwake

-----------------------------------------------------------------------------
(* The counting semaphore *)

SemTypeOK ==
  /\ state \in [Threads -> States] /\ error_no \in [Threads -> Errors]
  /\ pc \in [Threads -> S!PCs]
  /\ value \in Int /\ tokens \in Int
  /\ queue \in Seq(Threads)

\* The queue holds exactly the sleepers nobody popped.
SemQueue ==
  /\ Distinct(queue)
  /\ \A t \in Threads : tq_enqueued(queue, t) <=> pc[t] = "sleep" /\ error_no[t] = "EINTR"

\* The value counts what is left and who waits; who waits, waits for nothing left.
SemCount ==
  /\ value = tokens - Len(queue)
  /\ queue # <<>> => tokens <= 0

SemInv == SemTypeOK /\ SemQueue /\ SemCount

-----------------------------------------------------------------------------
(* The completion *)

CompTypeOK ==
  /\ state \in [Threads -> States] /\ error_no \in [Threads -> Errors]
  /\ pc \in [Threads -> C!PCs]
  /\ done \in Nat
  /\ queue \in Seq(Threads)
  /\ temp_queue \in [Threads -> Seq(Threads)]

\* A node is linked once, in c->wait_queue or in one complete_all's queue, and
\* only while its thread is in wait_for_completion.
CompQueues ==
  /\ Distinct(queue)
  /\ \A u \in Threads : Distinct(temp_queue[u])
  /\ \A t, u \in Threads : tq_enqueued(temp_queue[u], t) =>
       /\ pc[t] \in {"sleep", "panic"}
       /\ ~tq_enqueued(queue, t)
       /\ \A v \in Threads : tq_enqueued(temp_queue[v], t) => v = u
  /\ \A t \in Threads : tq_enqueued(queue, t) => pc[t] \in {"sleep", "panic"}

CompAwake ==
  done > 0 /\ queue # <<>> =>
    \E t \in Threads : pc[t] \in {"sleep", "panic"} /\ state[t] = "RUNNING"

CompInv == CompTypeOK /\ CompQueues /\ CompAwake

-----------------------------------------------------------------------------
(* Whichever lock the run explores. *)

LocksInv ==
  /\ part = "rwsem" => RwInv
  /\ part = "semaphore" => SemInv
  /\ part = "completion" => CompInv

-----------------------------------------------------------------------------
(* The thread queue under its instances *)

\* The instances define the list operations again; they are the same ones.
LEMMA SameList ==
  /\ \A q, t : R!tq_push(q, t) = tq_push(q, t) /\ R!tq_remove(q, t) = tq_remove(q, t)
  /\ \A q, t : S!tq_push(q, t) = tq_push(q, t) /\ S!tq_remove(q, t) = tq_remove(q, t)
  /\ \A q, t : C!tq_push(q, t) = tq_push(q, t) /\ C!tq_remove(q, t) = tq_remove(q, t)
  /\ \A q : R!tq_pop(q) = tq_pop(q) /\ S!tq_pop(q) = tq_pop(q) /\ C!tq_pop(q) = tq_pop(q)
  /\ \A q, t : C!tq_enqueued(q, t) <=> tq_enqueued(q, t)
  BY Zenon
  DEF tq_push, tq_remove, tq_pop, tq_enqueued,
      R!tq_push, R!tq_remove, R!tq_pop, R!tq_enqueued,
      S!tq_push, S!tq_remove, S!tq_pop, S!tq_enqueued,
      C!tq_push, C!tq_remove, C!tq_pop, C!tq_enqueued

-----------------------------------------------------------------------------
(* The reader/writer semaphore: its steps *)

\* A fresh rwsem satisfies its invariant.
LEMMA RwInitInv == R!Init => RwInv
  <1> SUFFICES ASSUME R!Init PROVE RwInv
    OBVIOUS
  <1>1. /\ state = [t \in RwThreads |-> "RUNNING"] /\ error_no = [t \in RwThreads |-> "OK"]
        /\ pc = [t \in RwThreads |-> "idle"]
        /\ readers = 0 /\ holder_pid = None /\ read_queue = <<>> /\ write_queue = <<>>
    BY DEF R!Init, R!TqInit
  <1>2. RwTypeOK
    BY <1>1 DEF RwTypeOK, States, Errors, R!PCs
  <1>3. RwQueues /\ RwHolder /\ RwAwake
    BY <1>1, RwThreadsAssumption DEF RwQueues, RwHolder, RwAwake, Distinct, tq_enqueued
  <1>4. R!Reading = {}
    BY <1>1 DEF R!Reading
  <1>5. RwCount
    BY <1>1, <1>4, FS_EmptySet DEF RwCount
  <1>6. QED
    BY <1>2, <1>3, <1>5 DEF RwInv

\* The set of readers is finite, and empty exactly when readers is zero.
LEMMA RwReaders ==
  ASSUME RwInv
  PROVE  /\ IsFiniteSet(R!Reading)
         /\ \A t \in RwThreads : pc[t] = "read" => readers > 0
         /\ readers = 1 => \A t, u \in RwThreads : pc[t] = "read" /\ pc[u] = "read" => t = u
  <1>1. IsFiniteSet(R!Reading)
    BY RwThreadsAssumption, FS_Subset DEF R!Reading
  <1>2. readers = Cardinality(R!Reading) /\ readers \in Nat
    BY DEF RwInv, RwCount, RwTypeOK
  <1>3. ASSUME NEW t \in RwThreads, pc[t] = "read" PROVE readers > 0
    <2>1. t \in R!Reading
      BY <1>3 DEF R!Reading
    <2>2. Cardinality(R!Reading) # 0
      BY <1>1, <2>1, FS_EmptySet
    <2>3. QED
      BY <1>2, <2>2
  <1>4. ASSUME readers = 1, NEW t \in RwThreads, NEW u \in RwThreads,
               pc[t] = "read", pc[u] = "read"
        PROVE  t = u
    <2>1. PICK x : R!Reading = {x}
      BY <1>1, <1>2, <1>4, FS_Singleton
    <2>2. t \in R!Reading /\ u \in R!Reading
      BY <1>4 DEF R!Reading
    <2>3. QED
      BY <2>1, <2>2
  <1>5. QED
    BY <1>1, <1>3, <1>4

\* A step that lets nobody in or out of the readers keeps the count.
LEMMA RwCountSame ==
  ASSUME RwCount, readers' = readers,
         \A t \in RwThreads : pc'[t] = "read" <=> pc[t] = "read"
  PROVE  RwCount'
  <1>1. R!Reading' = R!Reading
    BY DEF R!Reading
  <1>2. QED
    BY <1>1 DEF RwCount

\* __do_wake_up by the last one to leave.
LEMMA RwDoWakeUp ==
  ASSUME RwInv, NEW t \in RwThreads, R!do_wake_up, readers' = 0,
         pc[t] \in {"read", "write"}, pc' = [pc EXCEPT ![t] = "idle"],
         \A u \in RwThreads : pc[u] \in {"read", "write"} \/ holder_pid = u => u = t
  PROVE  RwInv'
  <1> USE DEF RwTypeOK, States, Errors, R!PCs
  <1>t. RwTypeOK /\ RwQueues /\ RwHolder
    BY DEF RwInv
  <1>1. \A u \in RwThreads : ~(pc[u] = "wsleep" /\ error_no[u] = "OK")
    BY <1>t DEF RwHolder
  <1>2. pc' \in [RwThreads -> R!PCs] /\ \A u \in RwThreads : pc'[u] \notin {"read", "write"}
    BY <1>t
  <1>3. RwCount'
    <2>1. R!Reading' = {}
      BY <1>2 DEF R!Reading
    <2>2. QED
      BY <2>1, FS_EmptySet DEF RwCount
  <1>4. CASE R!wake_nobody /\ read_queue = <<>> /\ write_queue = <<>>
    <2>1. holder_pid' = None /\ UNCHANGED <<read_queue, write_queue, state, error_no>>
      BY <1>4 DEF R!wake_nobody
    <2>2. RwTypeOK'
      BY <1>t, <1>2, <2>1
    <2>3. RwQueues' /\ RwAwake'
      BY <1>4, <2>1 DEF RwQueues, RwAwake, Distinct, tq_enqueued
    <2>4. RwHolder'
      BY <1>t, <1>1, <1>2, <2>1, RwThreadsAssumption DEF RwHolder
    <2>5. QED
      BY <1>3, <2>2, <2>3, <2>4 DEF RwInv
  <1>5. CASE R!wake_writer /\ write_queue # <<>>
    <2> DEFINE h == Head(write_queue)
    <2>1. /\ state' = [u \in RwThreads |-> IF u = h THEN "RUNNING" ELSE state[u]]
          /\ error_no' = [u \in RwThreads |-> IF u = h THEN "OK" ELSE error_no[u]]
          /\ write_queue' = tq_pop(write_queue) /\ holder_pid' = h
          /\ read_queue' = read_queue
      BY <1>5, SameList DEF R!wake_writer, R!TqWake
    <2>2. /\ h \in RwThreads /\ tq_enqueued(write_queue, h)
          /\ write_queue' \in Seq(RwThreads) /\ Distinct(write_queue')
          /\ \A u \in RwThreads : tq_enqueued(write_queue', u) =>
                                    tq_enqueued(write_queue, u) /\ u # h
      BY <1>t, <1>5, <2>1, PopMembers DEF RwQueues
    <2> HIDE DEF h
    <2>3. pc[h] = "wsleep" /\ h # t /\ ~tq_enqueued(read_queue, h) /\ h # None
      BY <1>t, <2>2, RwThreadsAssumption DEF RwQueues
    <2>4. RwTypeOK'
      BY <1>t, <1>2, <2>1, <2>2
    <2>5. RwQueues'
      <3>1. ASSUME NEW u \in RwThreads, tq_enqueued(read_queue', u)
            PROVE  pc'[u] = "rsleep" /\ error_no'[u] = "EINTR"
        BY <1>t, <2>1, <2>3, <3>1 DEF RwQueues
      <3>2. ASSUME NEW u \in RwThreads, tq_enqueued(write_queue', u)
            PROVE  pc'[u] = "wsleep" /\ error_no'[u] = "EINTR"
        BY <1>t, <2>1, <2>2, <3>2 DEF RwQueues
      <3>3. QED
        BY <1>t, <2>1, <2>2, <3>1, <3>2 DEF RwQueues
    <2>6. RwHolder'
      BY <1>t, <1>1, <1>2, <2>1, <2>2, <2>3 DEF RwHolder
    <2>7. RwAwake'
      BY <2>1, <2>3 DEF RwAwake
    <2>8. QED
      BY <1>3, <2>4, <2>5, <2>6, <2>7 DEF RwInv
  <1>6. CASE R!wake_readers /\ read_queue # <<>>
    <2> DEFINE ts == R!QueueMembers(read_queue)
    <2>1. /\ state' = [u \in RwThreads |-> IF u \in ts THEN "RUNNING" ELSE state[u]]
          /\ error_no' = [u \in RwThreads |-> IF u \in ts THEN "OK" ELSE error_no[u]]
          /\ read_queue' = <<>> /\ holder_pid' = None
          /\ write_queue' = write_queue
      BY <1>6 DEF R!wake_readers, R!TqWake
    <2>2. \A u : u \in ts <=> tq_enqueued(read_queue, u)
      BY DEF R!QueueMembers, tq_enqueued
    <2> HIDE DEF ts
    <2>3. \A u \in RwThreads : u \in ts => pc[u] = "rsleep"
      BY <1>t, <2>2 DEF RwQueues
    <2>4. RwTypeOK'
      BY <1>t, <1>2, <2>1
    <2>5. RwQueues'
      <3>1. ASSUME NEW u \in RwThreads, tq_enqueued(write_queue', u)
            PROVE  pc'[u] = "wsleep" /\ error_no'[u] = "EINTR"
        BY <1>t, <2>1, <2>3, <3>1 DEF RwQueues
      <3>2. QED
        BY <1>t, <2>1, <3>1 DEF RwQueues, Distinct, tq_enqueued
    <2>6. RwHolder'
      BY <1>t, <1>1, <1>2, <2>1, <2>3, RwThreadsAssumption DEF RwHolder
    <2>7. RwAwake'
      <3>1. Head(read_queue) \in RwThreads /\ Head(read_queue) \in ts
        BY <1>t, <1>6, <2>2, PopMembers DEF RwQueues
      <3>2. pc[Head(read_queue)] = "rsleep"
        BY <2>3, <3>1
      <3>3. /\ pc'[Head(read_queue)] = "rsleep" /\ state'[Head(read_queue)] = "RUNNING"
            /\ error_no'[Head(read_queue)] = "OK"
        BY <1>t, <2>1, <3>1, <3>2
      <3>4. QED
        BY <3>1, <3>3 DEF RwAwake
    <2>8. QED
      BY <1>3, <2>4, <2>5, <2>6, <2>7 DEF RwInv
  <1>7. QED
    BY <1>4, <1>5, <1>6 DEF R!do_wake_up

\* A thread queues itself behind a lock it may not take.
LEMMA RwSleeps ==
  ASSUME RwInv, NEW t \in RwThreads, NEW from \in {"idle", "rsleep"},
         from = "rsleep" => error_no[t] = "OK",
         R!ReadWait(t, from) \/ (from = "idle" /\ R!WriteWait(t, from))
  PROVE  RwInv'
  <1> USE DEF RwTypeOK, States, Errors, R!PCs
  <1>t. RwTypeOK /\ RwQueues /\ RwHolder /\ RwCount /\ RwAwake
    BY DEF RwInv
  <1>1. /\ pc[t] = from /\ readers' = readers /\ holder_pid' = holder_pid
        /\ state' = [state EXCEPT ![t] = "SLEEPING"]
        /\ error_no' = [error_no EXCEPT ![t] = "EINTR"]
    BY DEF R!ReadWait, R!WriteWait, R!Goto, R!TqSleep
  <1>2. readers # 0 \/ holder_pid # None
    BY <1>t DEF R!ReadWait, R!WriteWait, R!reader_should_wait, R!writer_should_wait
  <1>3. /\ ~tq_enqueued(read_queue, t) /\ ~tq_enqueued(write_queue, t)
        /\ holder_pid # t
    BY <1>t, <1>1 DEF RwQueues, RwHolder
  <1>4. CASE R!ReadWait(t, from)
    <2>1. pc' = [pc EXCEPT ![t] = "rsleep"] /\ write_queue' = write_queue
          /\ read_queue' = tq_push(read_queue, t)
      BY <1>4, SameList DEF R!ReadWait, R!Goto
    <2>2. /\ read_queue' \in Seq(RwThreads) /\ Distinct(read_queue')
          /\ \A u \in RwThreads : tq_enqueued(read_queue', u) =>
                                    tq_enqueued(read_queue, u) \/ u = t
      BY <1>t, <1>3, <2>1, PushMembers, PushDistinct DEF RwQueues
    <2>3. RwTypeOK'
      BY <1>t, <1>1, <2>1, <2>2
    <2>4. RwQueues'
      BY <1>t, <1>1, <1>3, <2>1, <2>2 DEF RwQueues
    <2>5. RwHolder' /\ RwAwake'
      BY <1>t, <1>1, <1>2, <1>3, <2>1 DEF RwHolder, RwAwake
    <2>6. RwCount'
      BY <1>t, <1>1, <2>1, RwCountSame
    <2>7. QED
      BY <2>3, <2>4, <2>5, <2>6 DEF RwInv
  <1>5. CASE from = "idle" /\ R!WriteWait(t, from)
    <2>1. pc' = [pc EXCEPT ![t] = "wsleep"] /\ read_queue' = read_queue
          /\ write_queue' = tq_push(write_queue, t)
      BY <1>5, SameList DEF R!WriteWait, R!Goto
    <2>2. /\ write_queue' \in Seq(RwThreads) /\ Distinct(write_queue')
          /\ \A u \in RwThreads : tq_enqueued(write_queue', u) =>
                                    tq_enqueued(write_queue, u) \/ u = t
      BY <1>t, <1>3, <2>1, PushMembers, PushDistinct DEF RwQueues
    <2>3. RwTypeOK'
      BY <1>t, <1>1, <2>1, <2>2
    <2>4. RwQueues'
      BY <1>t, <1>1, <1>3, <2>1, <2>2 DEF RwQueues
    <2>5. RwHolder' /\ RwAwake'
      BY <1>t, <1>1, <1>2, <1>3, <2>1 DEF RwHolder, RwAwake
    <2>6. RwCount'
      BY <1>t, <1>1, <1>5, <2>1, RwCountSame
    <2>7. QED
      BY <2>3, <2>4, <2>5, <2>6 DEF RwInv
  <1>6. QED
    BY <1>4, <1>5

\* A reader gets in.
LEMMA RwReadOk ==
  ASSUME RwInv, NEW t \in RwThreads, NEW from \in {"idle", "rsleep"},
         from = "rsleep" => error_no[t] = "OK", R!ReadOk(t, from)
  PROVE  RwInv'
  <1> USE DEF RwTypeOK, States, Errors, R!PCs
  <1>t. RwTypeOK /\ RwQueues /\ RwHolder /\ RwCount /\ RwAwake
    BY DEF RwInv
  <1>1. /\ pc[t] = from /\ pc' = [pc EXCEPT ![t] = "read"] /\ readers' = readers + 1
        /\ UNCHANGED <<holder_pid, read_queue, write_queue, state, error_no>>
    BY DEF R!ReadOk, R!Goto
  <1>2. holder_pid = None
    BY <1>t DEF R!ReadOk, R!reader_should_wait, RwHolder
  <1>3. ~tq_enqueued(read_queue, t) /\ ~tq_enqueued(write_queue, t)
    BY <1>t, <1>1 DEF RwQueues
  <1>4. RwTypeOK'
    BY <1>t, <1>1
  <1>5. RwQueues' /\ RwAwake'
    BY <1>t, <1>1, <1>3 DEF RwQueues, RwAwake
  <1>6. RwHolder'
    BY <1>t, <1>1, <1>2, RwThreadsAssumption DEF RwHolder
  <1>7. RwCount'
    <2>1. R!Reading' = R!Reading \cup {t} /\ t \notin R!Reading
      BY <1>t, <1>1 DEF R!Reading
    <2>2. IsFiniteSet(R!Reading)
      BY RwReaders
    <2>3. Cardinality(R!Reading') = Cardinality(R!Reading) + 1
      BY <2>1, <2>2, FS_AddElement
    <2>4. QED
      BY <1>t, <1>1, <2>3 DEF RwCount
  <1>8. QED
    BY <1>4, <1>5, <1>6, <1>7 DEF RwInv

\* A writer gets in, or finds that it was handed the lock.
LEMMA RwWriteOk ==
  ASSUME RwInv, NEW t \in RwThreads, NEW from \in {"idle", "wsleep"},
         from = "wsleep" => error_no[t] = "OK", R!WriteOk(t, from)
  PROVE  RwInv'
  <1> USE DEF RwTypeOK, States, Errors, R!PCs
  <1>t. RwTypeOK /\ RwQueues /\ RwHolder /\ RwCount /\ RwAwake
    BY DEF RwInv
  <1>1. /\ pc[t] = from /\ pc' = [pc EXCEPT ![t] = "write"] /\ holder_pid' = t
        /\ UNCHANGED <<readers, read_queue, write_queue, state, error_no>>
    BY DEF R!WriteOk, R!Goto
  <1>2. (holder_pid = t \/ holder_pid = None) /\ readers = 0
    BY <1>t, RwThreadsAssumption DEF R!WriteOk, R!writer_should_wait, RwHolder
  <1>3. ~tq_enqueued(read_queue, t) /\ ~tq_enqueued(write_queue, t)
    BY <1>t, <1>1 DEF RwQueues
  <1>4. RwTypeOK'
    BY <1>t, <1>1
  <1>5. RwQueues' /\ RwAwake'
    BY <1>t, <1>1, <1>3, RwThreadsAssumption DEF RwQueues, RwAwake
  <1>6. RwHolder'
    BY <1>t, <1>1, <1>2, RwThreadsAssumption DEF RwHolder
  <1>7. RwCount'
    BY <1>t, <1>1, RwCountSame
  <1>8. QED
    BY <1>4, <1>5, <1>6, <1>7 DEF RwInv

\* An interrupted waiter unlinks itself and leaves.
LEMMA RwError ==
  ASSUME RwInv, NEW t \in RwThreads, R!ReadError(t) \/ R!WriteError(t)
  PROVE  RwInv'
  <1> USE DEF RwTypeOK, States, Errors, R!PCs
  <1>t. RwTypeOK /\ RwQueues /\ RwHolder /\ RwCount /\ RwAwake
    BY DEF RwInv
  <1>1. /\ pc[t] \in {"rsleep", "wsleep"} /\ error_no[t] # "OK"
        /\ pc' = [pc EXCEPT ![t] = "idle"]
        /\ UNCHANGED <<readers, holder_pid, state, error_no>>
        /\ read_queue' \in {read_queue, tq_remove(read_queue, t)}
        /\ write_queue' \in {write_queue, tq_remove(write_queue, t)}
        /\ pc[t] = "rsleep" => read_queue' = tq_remove(read_queue, t)
        /\ pc[t] = "wsleep" => write_queue' = tq_remove(write_queue, t)
    BY SameList DEF R!ReadError, R!WriteError, R!Goto
  <1>2. /\ read_queue' \in Seq(RwThreads) /\ Distinct(read_queue')
        /\ \A u \in RwThreads : tq_enqueued(read_queue', u) => tq_enqueued(read_queue, u)
        /\ pc[t] = "rsleep" => ~tq_enqueued(read_queue', t)
        /\ read_queue' # <<>> => read_queue # <<>>
    <2> DEFINE r == tq_remove(read_queue, t)
    <2>1. /\ r \in Seq(RwThreads) /\ Distinct(r)
          /\ \A u \in RwThreads : tq_enqueued(r, u) => tq_enqueued(read_queue, u) /\ u # t
          /\ r # <<>> => read_queue # <<>>
      BY <1>t, RemoveMembers DEF RwQueues
    <2> HIDE DEF r
    <2>2. read_queue' \in {read_queue, r} /\ (pc[t] = "rsleep" => read_queue' = r)
      BY <1>1 DEF r
    <2>3. QED
      BY <1>t, <2>1, <2>2 DEF RwQueues
  <1>3. /\ write_queue' \in Seq(RwThreads) /\ Distinct(write_queue')
        /\ \A u \in RwThreads : tq_enqueued(write_queue', u) => tq_enqueued(write_queue, u)
        /\ pc[t] = "wsleep" => ~tq_enqueued(write_queue', t)
        /\ write_queue' # <<>> => write_queue # <<>>
    <2> DEFINE r == tq_remove(write_queue, t)
    <2>1. /\ r \in Seq(RwThreads) /\ Distinct(r)
          /\ \A u \in RwThreads : tq_enqueued(r, u) => tq_enqueued(write_queue, u) /\ u # t
          /\ r # <<>> => write_queue # <<>>
      BY <1>t, RemoveMembers DEF RwQueues
    <2> HIDE DEF r
    <2>2. write_queue' \in {write_queue, r} /\ (pc[t] = "wsleep" => write_queue' = r)
      BY <1>1 DEF r
    <2>3. QED
      BY <1>t, <2>1, <2>2 DEF RwQueues
  <1>4. RwTypeOK'
    BY <1>t, <1>1, <1>2, <1>3
  <1>5. RwQueues'
    BY <1>t, <1>1, <1>2, <1>3 DEF RwQueues
  <1>6. RwHolder'
    BY <1>t, <1>1 DEF RwHolder
  <1>7. RwAwake'
    BY <1>t, <1>1, <1>2, <1>3 DEF RwAwake
  <1>8. RwCount'
    BY <1>t, <1>1, RwCountSame
  <1>9. QED
    BY <1>4, <1>5, <1>6, <1>7, <1>8 DEF RwInv

\* rwsem_release, by a writer, by the last reader and by another reader.
LEMMA RwRelease ==
  ASSUME RwInv, NEW t \in RwThreads, R!Release(t)
  PROVE  RwInv'
  <1> USE DEF RwTypeOK, States, Errors, R!PCs
  <1>t. RwTypeOK /\ RwQueues /\ RwHolder /\ RwCount /\ RwAwake
    BY DEF RwInv
  <1>1. CASE R!ReleaseWrite(t)
    <2>1. /\ holder_pid = t /\ pc[t] = "write" /\ pc' = [pc EXCEPT ![t] = "idle"]
          /\ R!do_wake_up /\ readers' = readers
      BY <1>1 DEF R!ReleaseWrite, R!Goto
    <2>2. readers = 0
      BY <1>t, <2>1, RwThreadsAssumption DEF RwHolder
    <2>3. \A u \in RwThreads : pc[u] \in {"read", "write"} \/ holder_pid = u => u = t
      BY <1>t, <2>1, <2>2, RwReaders DEF RwHolder
    <2>4. QED
      BY <2>1, <2>2, <2>3, RwDoWakeUp
  <1>2. CASE R!ReleaseRead(t) /\ readers = 1
    <2>1. /\ pc[t] = "read" /\ pc' = [pc EXCEPT ![t] = "idle"]
          /\ R!do_wake_up /\ readers' = 0
      BY <1>2 DEF R!ReleaseRead, R!Goto
    <2>2. holder_pid = None
      BY <1>t, <1>2 DEF RwHolder
    <2>3. \A u \in RwThreads : pc[u] \in {"read", "write"} \/ holder_pid = u => u = t
      BY <1>t, <1>2, <2>1, <2>2, RwReaders, RwThreadsAssumption DEF RwHolder
    <2>4. QED
      BY <2>1, <2>3, RwDoWakeUp
  <1>3. CASE R!ReleaseRead(t) /\ readers # 1
    <2>1. /\ pc[t] = "read" /\ pc' = [pc EXCEPT ![t] = "idle"] /\ readers' = readers - 1
          /\ UNCHANGED <<holder_pid, read_queue, write_queue, state, error_no>>
      BY <1>3 DEF R!ReleaseRead, R!Goto
    <2>2. readers > 1 /\ holder_pid = None /\ readers' \in Nat /\ readers' # 0
      BY <1>t, <1>3, <2>1, RwReaders DEF RwHolder
    <2>3. RwTypeOK'
      BY <1>t, <2>1, <2>2
    <2>4. RwQueues'
      BY <1>t, <2>1 DEF RwQueues
    <2>5. RwHolder' /\ RwAwake'
      BY <1>t, <2>1, <2>2, RwThreadsAssumption DEF RwHolder, RwAwake
    <2>6. R!Reading' = R!Reading \ {t} /\ t \in R!Reading /\ IsFiniteSet(R!Reading)
      BY <1>t, <2>1, RwReaders DEF R!Reading
    <2>7. Cardinality(R!Reading') = Cardinality(R!Reading) - 1
      BY <2>6, FS_RemoveElement
    <2>8. RwCount'
      BY <1>t, <2>1, <2>7 DEF RwCount
    <2>9. QED
      BY <2>3, <2>4, <2>5, <2>8 DEF RwInv
  <1>4. QED
    BY <1>1, <1>2, <1>3 DEF R!Release

\* A wakeup that does not come through the queues.
LEMMA RwOtherWakeup ==
  ASSUME RwInv, NEW t \in RwThreads, R!OtherWakeup(t)
  PROVE  RwInv'
  <1> USE DEF RwTypeOK, States, Errors, R!PCs
  <1>t. RwTypeOK /\ RwQueues /\ RwHolder /\ RwCount /\ RwAwake
    BY DEF RwInv
  <1>1. /\ state' = [state EXCEPT ![t] = "RUNNING"]
        /\ UNCHANGED <<error_no, readers, holder_pid, read_queue, write_queue, pc>>
    BY DEF R!OtherWakeup, R!AsyncWakeup
  <1>2. RwCount'
    BY <1>t, <1>1, RwCountSame
  <1>3. RwTypeOK' /\ RwQueues' /\ RwHolder' /\ RwAwake'
    BY <1>t, <1>1 DEF RwQueues, RwHolder, RwAwake
  <1>4. QED
    BY <1>2, <1>3 DEF RwInv

\* Every step of the reader/writer semaphore preserves its invariant.
LEMMA RwNextInv == RwInv /\ R!Next => RwInv'
  <1> SUFFICES ASSUME RwInv, NEW t \in RwThreads, R!Step(t) PROVE RwInv'
    BY DEF R!Next
  <1>1. CASE R!AcquireRead(t)
    BY <1>1, RwReadOk, RwSleeps DEF R!AcquireRead
  <1>2. CASE R!AcquireWrite(t)
    BY <1>2, RwWriteOk, RwSleeps DEF R!AcquireWrite
  <1>3. CASE R!ReadRetry(t)
    BY <1>3, RwReadOk, RwSleeps DEF R!ReadRetry
  <1>4. CASE R!WriteRetry(t)
    BY <1>4, RwWriteOk DEF R!WriteRetry
  <1>5. CASE R!ReadError(t) \/ R!WriteError(t)
    BY <1>5, RwError
  <1>6. CASE R!Release(t)
    BY <1>6, RwRelease
  <1>7. CASE R!OtherWakeup(t)
    BY <1>7, RwOtherWakeup
  <1>8. QED
    BY <1>1, <1>2, <1>3, <1>4, <1>5, <1>6, <1>7 DEF R!Step, R!Resume

\* What the invariant says of the property the run checks.
LEMMA RwInvMeans == RwInv => R!RwsemExclusion /\ R!NobodyStranded
  <1> SUFFICES ASSUME RwInv PROVE R!RwsemExclusion /\ R!NobodyStranded
    OBVIOUS
  <1>1. RwHolder /\ RwCount /\ RwAwake
    BY DEF RwInv
  <1>2. \A t, u \in RwThreads : pc[t] = "write" /\ pc[u] \in {"read", "write"} => t = u
    <2> SUFFICES ASSUME NEW t \in RwThreads, NEW u \in RwThreads,
                        pc[t] = "write", pc[u] \in {"read", "write"}
                 PROVE  t = u
      OBVIOUS
    <2>1. holder_pid = t /\ readers = 0
      BY <1>1, RwThreadsAssumption DEF RwHolder
    <2>2. QED
      BY <1>1, <2>1, RwReaders DEF RwHolder
  <1>3. readers = Cardinality(R!Reading)
    BY <1>1 DEF RwCount
  <1>4. R!RwsemExclusion
    BY <1>2, <1>3 DEF R!RwsemExclusion, R!Cardinality, Cardinality
  <1>5. R!NobodyStranded
    BY <1>1 DEF R!NobodyStranded, RwAwake
  <1>6. QED
    BY <1>4, <1>5

-----------------------------------------------------------------------------
(* The counting semaphore: its steps *)

\* A fresh semaphore satisfies its invariant.
LEMMA SemInitInv == S!Init => SemInv
  BY BoundsAssumption
  DEF S!Init, S!TqInit, SemInv, SemTypeOK, SemQueue, SemCount, States, Errors,
      S!PCs, Distinct, tq_enqueued

\* While somebody is queued the value is negative.
LEMMA SemValue ==
  ASSUME SemInv
  PROVE  /\ Len(queue) \in Nat
         /\ queue # <<>> => Len(queue) >= 1 /\ value < 0
         /\ queue = <<>> => Len(queue) = 0
  BY DEF SemInv, SemTypeOK, SemCount

\* __sem_do_post on the queue q it finds, which lacks only threads that left;
\* spare is what the caller adds to the units left.
LEMMA SemDoPost ==
  ASSUME SemInv, NEW q \in Seq(Threads), Distinct(q), S!sem_do_post(q),
         NEW spare \in {0, 1},
         tokens' = tokens + spare - S!Admitted(q),
         value + 1 = tokens + spare - Len(q),
         q # <<>> => queue # <<>>,
         pc' \in [Threads -> S!PCs],
         \A u \in Threads : tq_enqueued(q, u) <=> pc'[u] = "sleep" /\ error_no[u] = "EINTR",
         spare = 1 => q = queue
  PROVE  SemInv'
  <1> USE DEF SemTypeOK, States, Errors
  <1>t. SemTypeOK /\ SemCount
    BY DEF SemInv
  <1>0. Len(q) \in Nat /\ (q # <<>> => Len(q) >= 1)
    OBVIOUS
  <1>1. CASE value + 1 <= 0 /\ q # <<>>
    <2> DEFINE h == Head(q)
    <2>1. /\ value' = value + 1 /\ tokens' = tokens + spare - 1
          /\ queue' = tq_pop(q)
          /\ state' = [u \in Threads |-> IF u = h THEN "RUNNING" ELSE state[u]]
          /\ error_no' = [u \in Threads |-> IF u = h THEN "OK" ELSE error_no[u]]
      BY <1>1, SameList DEF S!sem_do_post, S!TqWake, S!Admitted
    <2>2. /\ h \in Threads
          /\ queue' \in Seq(Threads) /\ Distinct(queue')
          /\ Len(queue') = Len(q) - 1
          /\ \A u \in Threads : tq_enqueued(queue', u) <=> tq_enqueued(q, u) /\ u # h
      BY <1>1, <2>1, PopMembers
    <2> HIDE DEF h
    <2>3. SemTypeOK'
      BY <1>t, <2>1, <2>2
    <2>4. SemQueue'
      BY <1>t, <2>1, <2>2 DEF SemQueue
    <2>5. value' = tokens' - Len(queue')
      <3>1. ASSUME NEW v \in Int, NEW k \in Int, NEW s \in Int, NEW n \in Int,
                   v + 1 = k + s - n
            PROVE  v + 1 = (k + s - 1) - (n - 1)
        BY <3>1
      <3>2. value \in Int /\ tokens \in Int /\ spare \in Int /\ Len(q) \in Int
        BY <1>t, <1>0
      <3>3. value + 1 = (tokens + spare - 1) - (Len(q) - 1)
        BY <3>1, <3>2
      <3>4. QED
        BY <2>1, <2>2, <3>3
    <2>6. tokens' <= 0
      BY <1>t, <1>1, <2>1 DEF SemCount
    <2>7. QED
      BY <2>3, <2>4, <2>5, <2>6 DEF SemInv, SemCount
  <1>2. CASE ~(value + 1 <= 0 /\ q # <<>>)
    <2>1. /\ value' = value + 1 /\ tokens' = tokens + spare
          /\ queue' = q /\ UNCHANGED <<state, error_no>>
      BY <1>t, <1>2 DEF S!sem_do_post, S!Admitted
    <2>2. SemTypeOK' /\ SemQueue'
      BY <1>t, <2>1 DEF SemQueue
    <2>3. queue' # <<>> => tokens' <= 0
      <3>1. ASSUME q # <<>> PROVE spare = 0 /\ tokens <= 0
        BY <1>t, <1>2, <3>1, SemValue DEF SemCount
      <3>2. QED
        BY <1>t, <2>1, <3>1
    <2>4. value' = tokens' - Len(queue')
      BY <1>t, <1>0, <2>1
    <2>5. QED
      BY <2>2, <2>3, <2>4 DEF SemInv, SemCount
  <1>3. QED
    BY <1>1, <1>2

\* Every step of the counting semaphore preserves its invariant.
LEMMA SemNextInv == SemInv /\ S!Next => SemInv'
  <1> SUFFICES ASSUME SemInv, NEW t \in Threads, S!Step(t) \/ S!OtherWakeup(t)
               PROVE  SemInv'
    BY DEF S!Next
  <1> USE DEF SemTypeOK, States, Errors, S!PCs
  <1>t. SemTypeOK /\ SemQueue /\ SemCount
    BY DEF SemInv
  <1>1. CASE S!WaitFast(t) \/ S!TryWait(t)
    <2>1. /\ value > 0 /\ pc[t] = "idle" /\ pc' = [pc EXCEPT ![t] = "in"]
          /\ value' = value - 1 /\ tokens' = tokens - 1
          /\ UNCHANGED <<queue, state, error_no>>
      BY <1>t, <1>1 DEF S!WaitFast, S!TryWait, S!Goto
    <2>2. QED
      BY <1>t, <2>1, SemValue DEF SemInv, SemQueue, SemCount
  <1>2. CASE S!WaitSleep(t)
    <2>1. /\ value <= 0 /\ pc[t] = "idle" /\ pc' = [pc EXCEPT ![t] = "sleep"]
          /\ state' = [state EXCEPT ![t] = "SLEEPING"]
          /\ error_no' = [error_no EXCEPT ![t] = "EINTR"]
          /\ value' = value - 1 /\ tokens' = tokens /\ queue' = tq_push(queue, t)
      BY <1>t, <1>2, SameList DEF S!WaitSleep, S!Goto, S!TqSleep
    <2>2. ~tq_enqueued(queue, t)
      BY <1>t, <2>1 DEF SemQueue
    <2>3. /\ queue' \in Seq(Threads) /\ Distinct(queue') /\ Len(queue') = Len(queue) + 1
          /\ \A u \in Threads : tq_enqueued(queue', u) <=> tq_enqueued(queue, u) \/ u = t
      BY <1>t, <2>1, <2>2, PushMembers, PushDistinct DEF SemQueue
    <2>4. SemTypeOK' /\ SemQueue'
      BY <1>t, <2>1, <2>3 DEF SemQueue
    <2>5. tokens <= 0
      BY <1>t, <2>1, SemValue DEF SemCount
    <2>6. QED
      BY <1>t, <2>1, <2>3, <2>4, <2>5, SemValue DEF SemInv, SemCount
  <1>3. CASE S!WaitOk(t)
    <2>1. /\ pc[t] = "sleep" /\ pc' = [pc EXCEPT ![t] = "in"] /\ error_no[t] = "OK"
          /\ queue' = tq_remove(queue, t)
          /\ UNCHANGED <<value, tokens, state, error_no>>
      BY <1>3, SameList DEF S!WaitOk, S!Goto
    <2>2. ~tq_enqueued(queue, t)
      BY <1>t, <2>1 DEF SemQueue
    <2>3. queue' = queue
      BY <2>1, <2>2 DEF tq_remove
    <2>4. QED
      BY <1>t, <2>1, <2>2, <2>3 DEF SemInv, SemQueue, SemCount
  <1>4. CASE S!WaitError(t)
    <2> DEFINE q == tq_remove(queue, t)
    <2>1. /\ pc[t] = "sleep" /\ pc' = [pc EXCEPT ![t] = "idle"] /\ error_no[t] = "EINTR"
          /\ S!sem_do_post(q) /\ tokens' = tokens - S!Admitted(q)
      BY <1>t, <1>4, SameList DEF S!WaitError, S!Goto
    <2>2. tq_enqueued(queue, t)
      BY <1>t, <2>1 DEF SemQueue
    <2>3. /\ q \in Seq(Threads) /\ Distinct(q) /\ Len(q) = Len(queue) - 1
          /\ q # <<>> => queue # <<>>
          /\ \A u \in Threads : tq_enqueued(q, u) <=> tq_enqueued(queue, u) /\ u # t
      BY <1>t, <2>2, RemoveMembers DEF SemQueue
    <2> HIDE DEF q
    <2>4. /\ tokens' = tokens + 0 - S!Admitted(q)
          /\ value + 1 = tokens + 0 - Len(q)
      BY <1>t, <2>1, <2>3, SemValue DEF SemCount, S!Admitted
    <2>5. /\ pc' \in [Threads -> S!PCs]
          /\ \A u \in Threads : tq_enqueued(q, u) <=>
                                  pc'[u] = "sleep" /\ error_no[u] = "EINTR"
      BY <1>t, <2>1, <2>3 DEF SemQueue
    <2>6. QED
      BY <2>1, <2>3, <2>4, <2>5, SemDoPost
  <1>5. CASE S!Post(t)
    <2>1. /\ pc[t] \in {"idle", "in"} /\ pc' = [pc EXCEPT ![t] = "idle"]
          /\ S!sem_do_post(queue) /\ tokens' = tokens + 1 - S!Admitted(queue)
      BY <1>5 DEF S!Post
    <2>2. /\ pc' \in [Threads -> S!PCs]
          /\ \A u \in Threads : tq_enqueued(queue, u) <=>
                                  pc'[u] = "sleep" /\ error_no[u] = "EINTR"
      BY <1>t, <2>1 DEF SemQueue
    <2>3. value + 1 = tokens + 1 - Len(queue)
      BY <1>t, SemValue DEF SemCount
    <2>4. queue \in Seq(Threads) /\ Distinct(queue)
      BY <1>t DEF SemQueue
    <2>5. QED
      BY <2>1, <2>2, <2>3, <2>4, SemDoPost
  <1>6. CASE S!PostOverflow(t)
    <2>1. /\ pc[t] = "in" /\ pc' = [pc EXCEPT ![t] = "idle"]
          /\ UNCHANGED <<value, queue, tokens, state, error_no>>
      BY <1>6 DEF S!PostOverflow, S!Goto
    <2>2. QED
      BY <1>t, <2>1 DEF SemInv, SemQueue, SemCount
  <1>7. CASE S!OtherWakeup(t)
    <2>1. /\ state' = [state EXCEPT ![t] = "RUNNING"]
          /\ UNCHANGED <<error_no, value, queue, pc, tokens>>
      BY <1>7 DEF S!OtherWakeup, S!AsyncWakeup
    <2>2. QED
      BY <1>t, <2>1 DEF SemInv, SemQueue, SemCount
  <1>8. QED
    BY <1>1, <1>2, <1>3, <1>4, <1>5, <1>6, <1>7 DEF S!Step

\* What the invariant says of the properties the run checks.
LEMMA SemInvMeans == SemInv => S!CountIsExact /\ S!NoIdleUnit
  BY SemValue DEF SemInv, SemCount, S!CountIsExact, S!NoIdleUnit

-----------------------------------------------------------------------------
(* The completion: its steps *)

\* A fresh completion satisfies its invariant.
LEMMA CompInitInv == C!Init => CompInv
  BY DEF C!Init, C!TqInit, CompInv, CompTypeOK, CompQueues, CompAwake, States,
         Errors, C!PCs, Distinct, tq_enqueued

\* __completion_do_wake on a queue q that lacks at most a thread that left.
LEMMA CompDoWake ==
  ASSUME CompInv, NEW q \in Seq(Threads), Distinct(q), C!completion_do_wake(q),
         \A u \in Threads : tq_enqueued(q, u) =>
           tq_enqueued(queue, u) /\ pc'[u] \in {"sleep", "panic"},
         \A u, v \in Threads : tq_enqueued(temp_queue[v], u) => pc'[u] \in {"sleep", "panic"},
         pc' \in [Threads -> C!PCs], done' \in Nat, temp_queue' = temp_queue
  PROVE  CompInv'
  <1> USE DEF CompTypeOK, States, Errors
  <1>t. CompTypeOK /\ CompQueues
    BY DEF CompInv
  <1>1. CASE q # <<>>
    <2> DEFINE h == Head(q)
    <2>1. /\ queue' = tq_pop(q)
          /\ state' = [u \in Threads |-> IF u = h THEN "RUNNING" ELSE state[u]]
          /\ error_no' = [u \in Threads |-> IF u = h THEN "OK" ELSE error_no[u]]
      BY <1>1, SameList DEF C!completion_do_wake, C!TqWake
    <2>2. /\ h \in Threads /\ tq_enqueued(q, h)
          /\ queue' \in Seq(Threads) /\ Distinct(queue')
          /\ \A u \in Threads : tq_enqueued(queue', u) => tq_enqueued(q, u)
      BY <1>1, <2>1, PopMembers
    <2> HIDE DEF h
    <2>3. CompTypeOK'
      BY <1>t, <2>1, <2>2
    <2>4. CompQueues'
      BY <1>t, <2>2 DEF CompQueues
    <2>5. CompAwake'
      BY <2>1, <2>2 DEF CompAwake
    <2>6. QED
      BY <2>3, <2>4, <2>5 DEF CompInv
  <1>2. CASE q = <<>>
    <2>1. queue' = q /\ UNCHANGED <<state, error_no>>
      BY <1>2 DEF C!completion_do_wake
    <2>2. CompTypeOK' /\ CompAwake'
      BY <1>t, <1>2, <2>1 DEF CompAwake
    <2>3. CompQueues'
      BY <1>t, <2>1 DEF CompQueues
    <2>4. QED
      BY <2>2, <2>3 DEF CompInv
  <1>3. QED
    BY <1>1, <1>2

\* wait_for_completion, at the top of its loop: q is the queue without t.
LEMMA CompLoop ==
  ASSUME CompInv, NEW t \in Threads, NEW from \in {"idle", "sleep"},
         NEW q \in Seq(Threads), Distinct(q), ~tq_enqueued(q, t),
         \A u \in Threads : tq_enqueued(q, u) => tq_enqueued(queue, u),
         \A v \in Threads : ~tq_enqueued(temp_queue[v], t),
         C!TakeDone(t, from, q) \/ C!SleepMore(t, from, q),
         q # <<>> => queue # <<>>,
         from = "idle" => q = queue
  PROVE  CompInv'
  <1> USE DEF CompTypeOK, States, Errors, C!PCs
  <1>t. CompTypeOK /\ CompQueues /\ CompAwake
    BY DEF CompInv
  <1>1. CASE C!TakeDone(t, from, q)
    <2>1. /\ done > 0 /\ pc[t] = from /\ pc' = [pc EXCEPT ![t] = "idle"]
          /\ done' = C!Consumed /\ temp_queue' = temp_queue
      BY <1>1 DEF C!TakeDone, C!Goto
    <2>2. done' \in Nat
      BY <1>t, <2>1 DEF C!Consumed
    <2>3. /\ pc' \in [Threads -> C!PCs]
          /\ \A u \in Threads : tq_enqueued(q, u) =>
               tq_enqueued(queue, u) /\ pc'[u] \in {"sleep", "panic"}
          /\ \A u, v \in Threads : tq_enqueued(temp_queue[v], u) =>
               pc'[u] \in {"sleep", "panic"}
      BY <1>t, <2>1 DEF CompQueues
    <2>4. CASE C!Consumed > 0
      <3>1. C!completion_do_wake(q)
        BY <1>1, <2>4 DEF C!TakeDone
      <3>2. QED
        BY <2>1, <2>2, <2>3, <3>1, CompDoWake
    <2>5. CASE ~(C!Consumed > 0)
      <3>1. queue' = q /\ UNCHANGED <<state, error_no>>
        BY <1>1, <2>5 DEF C!TakeDone
      <3>2. CompTypeOK' /\ CompAwake'
        BY <1>t, <2>1, <2>2, <2>3, <2>5, <3>1 DEF CompAwake
      <3>3. CompQueues'
        BY <1>t, <2>1, <2>3, <3>1 DEF CompQueues
      <3>4. QED
        BY <3>2, <3>3 DEF CompInv
    <2>6. QED
      BY <2>4, <2>5
  <1>2. CASE C!SleepMore(t, from, q)
    <2>1. /\ done <= 0 /\ pc[t] = from /\ pc' = [pc EXCEPT ![t] = "sleep"]
          /\ state' = [state EXCEPT ![t] = "SLEEPING"]
          /\ error_no' = [error_no EXCEPT ![t] = "EINTR"]
          /\ queue' = tq_push(q, t) /\ done' = done /\ temp_queue' = temp_queue
      BY <1>2, SameList DEF C!SleepMore, C!Goto, C!TqSleep
    <2>2. /\ queue' \in Seq(Threads) /\ Distinct(queue')
          /\ \A u \in Threads : tq_enqueued(queue', u) => tq_enqueued(q, u) \/ u = t
      BY <2>1, PushMembers, PushDistinct
    <2>3. CompTypeOK' /\ CompAwake'
      BY <1>t, <2>1, <2>2 DEF CompAwake
    <2>4. CompQueues'
      BY <1>t, <2>1, <2>2 DEF CompQueues
    <2>5. QED
      BY <2>3, <2>4 DEF CompInv
  <1>3. QED
    BY <1>1, <1>2

\* Every step of the completion preserves its invariant.
LEMMA CompNextInv == CompInv /\ C!Next => CompInv'
  <1> SUFFICES ASSUME CompInv, NEW t \in Threads, C!Step(t) \/ C!OtherWakeup(t)
               PROVE  CompInv'
    BY DEF C!Next
  <1> USE DEF CompTypeOK, States, Errors, C!PCs
  <1>t. CompTypeOK /\ CompQueues /\ CompAwake
    BY DEF CompInv
  <1>1. CASE C!WaitForCompletion(t)
    <2>1. C!TakeDone(t, "idle", queue) \/ C!SleepMore(t, "idle", queue)
      BY <1>1 DEF C!WaitForCompletion
    <2>2. pc[t] = "idle"
      BY <2>1 DEF C!TakeDone, C!SleepMore, C!Goto
    <2>3. ~tq_enqueued(queue, t) /\ \A v \in Threads : ~tq_enqueued(temp_queue[v], t)
      BY <1>t, <2>2 DEF CompQueues
    <2>4. queue \in Seq(Threads) /\ Distinct(queue)
      BY <1>t DEF CompQueues
    <2>5. QED
      BY <2>1, <2>3, <2>4, CompLoop
  <1>2. CASE C!WaitResume(t)
    <2> DEFINE q == tq_remove(queue, t)
    <2>1. C!TakeDone(t, "sleep", q) \/ C!SleepMore(t, "sleep", q)
      BY <1>2, SameList DEF C!WaitResume
    <2>2. \A v \in Threads : ~tq_enqueued(temp_queue[v], t)
      BY <1>2, SameList DEF C!WaitResume, C!Moved
    <2>3. /\ q \in Seq(Threads) /\ Distinct(q) /\ ~tq_enqueued(q, t)
          /\ \A u \in Threads : tq_enqueued(q, u) => tq_enqueued(queue, u)
          /\ q # <<>> => queue # <<>>
      BY <1>t, RemoveMembers DEF CompQueues
    <2> HIDE DEF q
    <2>4. QED
      BY <2>1, <2>2, <2>3, CompLoop
  <1>3. CASE C!try_wait_for_completion(t)
    <2>1. /\ done > 0 /\ done' = C!Consumed
          /\ UNCHANGED <<queue, temp_queue, pc, state, error_no>>
      BY <1>3 DEF C!try_wait_for_completion
    <2>2. done' \in Nat
      BY <1>t, <2>1 DEF C!Consumed
    <2>3. QED
      BY <1>t, <2>1, <2>2 DEF CompInv, CompQueues, CompAwake
  <1>4. CASE C!WaitPanic(t)
    <2>1. /\ pc[t] = "sleep" /\ pc' = [pc EXCEPT ![t] = "panic"]
          /\ UNCHANGED <<done, queue, temp_queue, state, error_no>>
      BY <1>4 DEF C!WaitPanic, C!Goto
    <2>2. CompTypeOK' /\ CompAwake'
      BY <1>t, <2>1 DEF CompAwake
    <2>3. CompQueues'
      BY <1>t, <2>1 DEF CompQueues
    <2>4. QED
      BY <2>2, <2>3 DEF CompInv
  <1>5. CASE C!Complete(t)
    <2>1. /\ done' = IF done # MAX_COMPLETIONS THEN done + 1 ELSE done
          /\ C!completion_do_wake(queue) /\ UNCHANGED <<temp_queue, pc>>
      BY <1>5 DEF C!Complete
    <2>2. done' \in Nat
      BY <1>t, <2>1
    <2>3. /\ queue \in Seq(Threads) /\ Distinct(queue) /\ pc' \in [Threads -> C!PCs]
          /\ \A u \in Threads : tq_enqueued(queue, u) =>
               tq_enqueued(queue, u) /\ pc'[u] \in {"sleep", "panic"}
          /\ \A u, v \in Threads : tq_enqueued(temp_queue[v], u) =>
               pc'[u] \in {"sleep", "panic"}
      BY <1>t, <2>1 DEF CompQueues
    <2>4. QED
      BY <2>1, <2>2, <2>3, CompDoWake
  <1>6. CASE C!CompleteAll(t)
    <2>1. /\ pc[t] = "idle" /\ pc' = [pc EXCEPT ![t] = "waking"]
          /\ done' = MAX_COMPLETIONS /\ queue' = <<>>
          /\ temp_queue' = [temp_queue EXCEPT ![t] = queue]
          /\ UNCHANGED <<state, error_no>>
      BY <1>6 DEF C!CompleteAll, C!Goto
    <2>2. CompTypeOK' /\ CompAwake'
      BY <1>t, <2>1, BoundsAssumption DEF CompAwake
    <2>3. \A u \in Threads : ~tq_enqueued(queue', u)
      BY <2>1 DEF tq_enqueued
    <2>4. \A u, v \in Threads : tq_enqueued(temp_queue'[v], u) =>
            IF v = t THEN tq_enqueued(queue, u) ELSE tq_enqueued(temp_queue[v], u)
      BY <1>t, <2>1
    <2>5. Distinct(queue') /\ \A v \in Threads : Distinct(temp_queue'[v])
      BY <1>t, <2>1 DEF CompQueues, Distinct
    <2>6. CompQueues'
      <3>1. ASSUME NEW u \in Threads, NEW v \in Threads, tq_enqueued(temp_queue'[v], u)
            PROVE  /\ pc'[u] \in {"sleep", "panic"}
                   /\ \A w \in Threads : tq_enqueued(temp_queue'[w], u) => w = v
        BY <1>t, <2>1, <2>4, <3>1 DEF CompQueues
      <3>2. QED
        BY <2>3, <2>5, <3>1 DEF CompQueues
    <2>7. QED
      BY <2>2, <2>6 DEF CompInv
  <1>7. CASE C!WakeMoved(t)
    <2> DEFINE h == Head(temp_queue[t])
    <2>1. /\ temp_queue' = [temp_queue EXCEPT ![t] = tq_pop(temp_queue[t])]
          /\ temp_queue[t] # <<>>
          /\ state' = [u \in Threads |-> IF u = h THEN "RUNNING" ELSE state[u]]
          /\ error_no' = [u \in Threads |-> IF u = h THEN "OK" ELSE error_no[u]]
          /\ UNCHANGED <<done, queue, pc>>
      BY <1>7, SameList DEF C!WakeMoved, C!TqWake
    <2>2. /\ tq_pop(temp_queue[t]) \in Seq(Threads) /\ Distinct(tq_pop(temp_queue[t]))
          /\ \A u \in Threads : tq_enqueued(tq_pop(temp_queue[t]), u) =>
                                  tq_enqueued(temp_queue[t], u)
      BY <1>t, <2>1, PopMembers DEF CompQueues
    <2> HIDE DEF h
    <2>3. CompTypeOK' /\ CompAwake'
      BY <1>t, <2>1, <2>2 DEF CompAwake
    <2>4. \A u, v \in Threads : tq_enqueued(temp_queue'[v], u) => tq_enqueued(temp_queue[v], u)
      BY <1>t, <2>1, <2>2
    <2>5. \A v \in Threads : Distinct(temp_queue'[v])
      BY <1>t, <2>1, <2>2 DEF CompQueues
    <2>6. CompQueues'
      BY <1>t, <2>1, <2>4, <2>5 DEF CompQueues
    <2>7. QED
      BY <2>3, <2>6 DEF CompInv
  <1>8. CASE C!CompleteAllReturn(t)
    <2>1. /\ pc[t] = "waking" /\ pc' = [pc EXCEPT ![t] = "idle"]
          /\ UNCHANGED <<done, queue, temp_queue, state, error_no>>
      BY <1>8 DEF C!CompleteAllReturn, C!Goto
    <2>2. CompTypeOK' /\ CompAwake'
      BY <1>t, <2>1 DEF CompAwake
    <2>3. CompQueues'
      BY <1>t, <2>1 DEF CompQueues
    <2>4. QED
      BY <2>2, <2>3 DEF CompInv
  <1>9. CASE C!completion_reinit(t)
    <2>1. done' = 0 /\ UNCHANGED <<queue, temp_queue, pc, state, error_no>>
      BY <1>9 DEF C!completion_reinit
    <2>2. QED
      BY <1>t, <2>1 DEF CompInv, CompQueues, CompAwake
  <1>10. CASE C!OtherWakeup(t)
    <2>1. /\ state' = [state EXCEPT ![t] = "RUNNING"]
          /\ UNCHANGED <<error_no, done, queue, temp_queue, pc>>
      BY <1>10 DEF C!OtherWakeup, C!AsyncWakeup
    <2>2. CompTypeOK' /\ CompAwake'
      BY <1>t, <2>1 DEF CompAwake
    <2>3. CompQueues'
      BY <1>t, <2>1 DEF CompQueues
    <2>4. QED
      BY <2>2, <2>3 DEF CompInv
  <1>11. QED
    BY <1>1, <1>2, <1>3, <1>4, <1>5, <1>6, <1>7, <1>8, <1>9, <1>10 DEF C!Step

\* What the invariant says of the properties the run checks.
LEMMA CompInvMeans == CompInv => C!DoneIsNoticed /\ C!LinkedOnce
  BY SameList DEF CompInv, CompQueues, CompAwake, C!DoneIsNoticed, C!LinkedOnce

-----------------------------------------------------------------------------
(* The locks together *)

\* Whichever part Init chose starts in its invariant.
LEMMA LocksInitInv == LocksInit => LocksInv
  BY RwInitInv, SemInitInv, CompInitInv DEF LocksInit, LocksInv

\* A step belongs to one part; stuttering changes nothing.
LEMMA LocksNextInv == LocksInv /\ [LocksNext]_all => LocksInv'
  <1> SUFFICES ASSUME LocksInv, [LocksNext]_all PROVE LocksInv'
    OBVIOUS
  <1>1. CASE UNCHANGED all
    <2>1. UNCHANGED <<part, pc, state, error_no, queue, readers, holder_pid,
                      read_queue, write_queue, done, temp_queue, value, tokens>>
      BY <1>1 DEF all, tqVars, rwVars, compVars, semVars
    <2>2. RwInv => RwInv'
      BY <2>1 DEF RwInv, RwTypeOK, RwQueues, RwHolder, RwCount, RwAwake, R!Reading
    <2>3. SemInv => SemInv'
      BY <2>1 DEF SemInv, SemTypeOK, SemQueue, SemCount
    <2>4. CompInv => CompInv'
      BY <2>1 DEF CompInv, CompTypeOK, CompQueues, CompAwake
    <2>5. QED
      BY <2>1, <2>2, <2>3, <2>4 DEF LocksInv
  <1>2. CASE InMutex /\ Next
    BY <1>2 DEF InMutex, LocksInv
  <1>3. CASE InRwsem /\ R!Next
    BY <1>3, RwNextInv DEF InRwsem, LocksInv
  <1>4. CASE InCompletion /\ C!Next
    BY <1>4, CompNextInv DEF InCompletion, LocksInv
  <1>5. CASE InSemaphore /\ S!Next
    BY <1>5, SemNextInv DEF InSemaphore, LocksInv
  <1>6. QED
    BY <1>1, <1>2, <1>3, <1>4, <1>5 DEF LocksNext

\* The invariant of the part that runs holds in every reachable state.
LEMMA SpecLocksInv == LocksSpec => []LocksInv
  BY LocksInitInv, LocksNextInv, PTL DEF LocksSpec

\* rwsem_acquire_read, rwsem_acquire_write and rwsem_release, for any number of
\* threads and either priority: a writer is alone, lock->readers is the number
\* of readers inside, and nobody is left asleep on a free lock.
THEOREM RwsemIsSafe == LocksSpec => []RwsemHolds
  <1>1. LocksInv => RwsemHolds
    BY RwInvMeans DEF LocksInv, RwsemHolds
  <1>2. QED
    BY SpecLocksInv, <1>1, PTL

\* complete, complete_all and wait_for_completion lose no completion and link a
\* waiter once, and sem->value counts what is left minus who waits, for any
\* number of threads and whoever wakes the sleepers.
THEOREM LocksLoseNothing == LocksSpec => []NothingIsLost
  <1>1. LocksInv => NothingIsLost
    BY CompInvMeans, SemInvMeans DEF LocksInv, NothingIsLost
  <1>2. QED
    BY SpecLocksInv, <1>1, PTL
=============================================================================
