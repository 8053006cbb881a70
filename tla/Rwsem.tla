------------------------------- MODULE Rwsem -------------------------------
(***************************************************************************)
(* The sleeping reader/writer semaphore (kernel/lock/rwsem.c) behind       *)
(* vm->rw_lock and the superblock lock.  A release hands the lock to one   *)
(* waiting writer by writing its pid into holder_pid, or merely wakes all  *)
(* waiting readers, which then compete again.  Every field is touched only *)
(* under lock->lock, so an action is a whole critical section.             *)
(***************************************************************************)
EXTENDS ThreadQueue, FiniteSets

VARIABLES
  readers,      \* lock->readers
  holder_pid,   \* lock->holder_pid
  read_queue, write_queue,
  prio_write,   \* flags & RWLOCK_PRIO_WRITE, fixed by rwsem_init
  pc            \* where each thread is

vars == <<readers, holder_pid, read_queue, write_queue, prio_write, pc, state, error_no>>

PCs == {"idle", "rsleep", "wsleep", "read", "write"}

Goto(t, from, to) ==
  /\ pc[t] = from
  /\ pc' = [pc EXCEPT ![t] = to]

QueueMembers(q) == {q[i] : i \in 1..Len(q)}

\* rwsem_init.
Init ==
  /\ TqInit
  /\ readers = 0
  /\ holder_pid = None
  /\ read_queue = <<>> /\ write_queue = <<>>
  /\ prio_write \in BOOLEAN
  /\ pc = [t \in Threads |-> "idle"]

-----------------------------------------------------------------------------
(* rwsem_acquire_read *)

reader_should_wait ==
  IF readers = 0
  THEN holder_pid # None
  ELSE prio_write /\ write_queue # <<>>

\* The top of the while loop, on entry or after a tq_wait that returned 0.
ReadOk(t, from) ==
  /\ ~reader_should_wait
  /\ Goto(t, from, "read")
  /\ readers' = readers + 1
  /\ UNCHANGED <<holder_pid, read_queue, write_queue, state, error_no>>

ReadWait(t, from) ==
  /\ reader_should_wait
  /\ Goto(t, from, "rsleep")
  /\ TqSleep(t)
  /\ read_queue' = tq_push(read_queue, t)
  /\ UNCHANGED <<readers, holder_pid, write_queue>>

AcquireRead(t) == ReadOk(t, "idle") \/ ReadWait(t, "idle")

\* Woken through the queue: the node is already unlinked.
ReadRetry(t) ==
  /\ TqAwake(t) /\ error_no[t] = "OK"
  /\ ReadOk(t, "rsleep") \/ ReadWait(t, "rsleep")

\* Woken from outside: unlink the node, return -EINTR.
ReadError(t) ==
  /\ TqAwake(t) /\ error_no[t] # "OK"
  /\ Goto(t, "rsleep", "idle")
  /\ read_queue' = tq_remove(read_queue, t)
  /\ UNCHANGED <<readers, holder_pid, write_queue, state, error_no>>

-----------------------------------------------------------------------------
(* rwsem_acquire_write *)

\* Bug: readers inside do not hold back a writer.
writer_should_wait_no_readers(t) == holder_pid # t /\ holder_pid # None

writer_should_wait(t) ==
  holder_pid # t /\ (holder_pid # None \/ readers > 0)

WriteOk(t, from) ==
  /\ ~writer_should_wait(t)
  /\ Goto(t, from, "write")
  /\ holder_pid' = t
  /\ UNCHANGED <<readers, read_queue, write_queue, state, error_no>>

WriteWait(t, from) ==
  /\ writer_should_wait(t)
  /\ Goto(t, from, "wsleep")
  /\ TqSleep(t)
  /\ write_queue' = tq_push(write_queue, t)
  /\ UNCHANGED <<readers, holder_pid, read_queue>>

AcquireWrite(t) == WriteOk(t, "idle") \/ WriteWait(t, "idle")

\* A writer popped from the queue holds the lock: the loop ends.
WriteRetry(t) ==
  /\ TqAwake(t) /\ error_no[t] = "OK"
  /\ WriteOk(t, "wsleep")

WriteError(t) ==
  /\ TqAwake(t) /\ error_no[t] # "OK"
  /\ Goto(t, "wsleep", "idle")
  /\ write_queue' = tq_remove(write_queue, t)
  /\ UNCHANGED <<readers, holder_pid, read_queue, state, error_no>>

-----------------------------------------------------------------------------
(* rwsem_release *)

wake_writer ==
  /\ TqWake({Head(write_queue)})
  /\ write_queue' = tq_pop(write_queue)
  /\ holder_pid' = Head(write_queue)
  /\ UNCHANGED read_queue

wake_readers ==
  /\ TqWake(QueueMembers(read_queue))
  /\ read_queue' = <<>>
  /\ holder_pid' = None
  /\ UNCHANGED write_queue

wake_nobody ==
  /\ holder_pid' = None
  /\ UNCHANGED <<read_queue, write_queue, state, error_no>>

\* __do_wake_up, called with the lock free.
do_wake_up ==
  IF prio_write
  THEN IF write_queue # <<>> THEN wake_writer
       ELSE IF read_queue # <<>> THEN wake_readers ELSE wake_nobody
  ELSE IF read_queue # <<>> THEN wake_readers
       ELSE IF write_queue # <<>> THEN wake_writer ELSE wake_nobody

ReleaseWrite(t) ==
  /\ holder_pid = t
  /\ Goto(t, "write", "idle")
  /\ do_wake_up
  /\ UNCHANGED readers

\* Bug: the last reader wakes nobody.
ReleaseReadQuiet(t) ==
  /\ holder_pid # t
  /\ Goto(t, "read", "idle")
  /\ readers' = readers - 1
  /\ UNCHANGED <<holder_pid, read_queue, write_queue, state, error_no>>

ReleaseRead(t) ==
  /\ holder_pid # t
  /\ Goto(t, "read", "idle")
  /\ readers' = readers - 1
  /\ IF readers = 1
     THEN do_wake_up
     ELSE UNCHANGED <<holder_pid, read_queue, write_queue, state, error_no>>

-----------------------------------------------------------------------------
(* Specification *)

OtherWakeup(t) ==
  AsyncWakeup(t) /\ UNCHANGED <<readers, holder_pid, read_queue, write_queue, pc>>

Resume(t) ==
  ReadRetry(t) \/ ReadError(t) \/ WriteRetry(t) \/ WriteError(t)

Release(t) == ReleaseWrite(t) \/ ReleaseRead(t)

Step(t) ==
  \/ AcquireRead(t) \/ AcquireWrite(t)
  \/ Resume(t) \/ Release(t) \/ OtherWakeup(t)

Next == (\E t \in Threads : Step(t)) /\ UNCHANGED prio_write

Spec == Init /\ [][Next]_vars

\* Runnable threads run; critical sections end.
Fairness ==
  \A t \in Threads :
    /\ WF_vars(Resume(t) /\ UNCHANGED prio_write)
    /\ WF_vars(Release(t) /\ UNCHANGED prio_write)

FairSpec == Spec /\ Fairness

-----------------------------------------------------------------------------
(* Properties *)

Reading == {t \in Threads : pc[t] = "read"}

\* A writer is alone: hand-over to a sleeping writer, readers that compete
\* after a wake-up and interrupted waiters included.  The counter is the
\* number of readers inside, so the release that makes it zero is the last
\* one and the assertion "no readers to release" holds.
RwsemExclusion ==
  /\ \A t, u \in Threads :
       pc[t] = "write" /\ pc[u] \in {"read", "write"} => t = u
  /\ readers = Cardinality(Reading)

\* Nobody sleeps on a free lock: if the lock has neither holder nor readers
\* while threads are queued, a thread that was popped is still on its way to
\* take it, and its release will wake the rest.
NobodyStranded ==
  (holder_pid = None /\ readers = 0 /\ (read_queue # <<>> \/ write_queue # <<>>))
  => \E t \in Threads :
       pc[t] \in {"rsleep", "wsleep"} /\ state[t] = "RUNNING"

\* The lock handed to a sleeping writer is not lost: the holder is inside or
\* is awake and will see tq_wait return 0.
HandoverIsSeen ==
  \A t \in Threads :
    holder_pid = t => \/ pc[t] = "write"
                      \/ /\ pc[t] = "wsleep" /\ state[t] = "RUNNING"
                         /\ error_no[t] = "OK"

\* A waiter node is linked only while its thread is in tq_wait.
NoDanglingWaiter ==
  \A t \in Threads :
    /\ tq_enqueued(read_queue, t) => pc[t] = "rsleep"
    /\ tq_enqueued(write_queue, t) => pc[t] = "wsleep"
=============================================================================
