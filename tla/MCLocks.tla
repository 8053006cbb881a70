------------------------------ MODULE MCLocks ------------------------------
(***************************************************************************)
(* The sleeping locks: the mutex, the reader/writer semaphore, the         *)
(* completion and the counting semaphore, each over a thread queue.  They  *)
(* do not share state; one run explores each of them, the part chosen in   *)
(* Init, under the fairness of that part.  The variables of the sleepers   *)
(* serve them all.                                                         *)
(***************************************************************************)
EXTENDS Mutex, FiniteSets

CONSTANTS RwThreads,       \* the threads that use the rwsem
          MAX_COMPLETIONS, SEM_VALUE_MAX, InitialValue

\* A pid is never -1 and there are finitely many threads.
ASSUME RwThreadsAssumption == None \notin RwThreads /\ IsFiniteSet(RwThreads)

\* The limits are positive; sem_init refuses a negative value.
ASSUME BoundsAssumption ==
  /\ MAX_COMPLETIONS \in Nat \ {0}
  /\ SEM_VALUE_MAX \in Nat \ {0}
  /\ InitialValue \in Nat

VARIABLES part,
          readers, holder_pid, read_queue, write_queue, prio_write,   \* Rwsem
          done, temp_queue,                                           \* Completion
          value, tokens,                                              \* Semaphore
          queue                       \* wait_queue of the latter two

R == INSTANCE Rwsem WITH Threads <- RwThreads
C == INSTANCE Completion WITH wait_queue <- queue
S == INSTANCE Semaphore WITH wait_queue <- queue

tqVars == <<pc, state, error_no>>
mutexRest == <<holder, lk, wait_queue>>
rwVars == <<readers, holder_pid, read_queue, write_queue, prio_write>>
compVars == <<done, temp_queue>>
semVars == <<value, tokens>>
all == <<part, tqVars, queue, mutexRest, rwVars, compVars, semVars>>

\* The lock variables of the parts that do not run.
NoMutex == holder = None /\ lk = None /\ wait_queue = <<>>
NoRwsem == readers = 0 /\ holder_pid = None /\ read_queue = <<>> /\ write_queue = <<>> /\ prio_write = FALSE
NoCompletion == done = 0 /\ temp_queue = <<>>
NoSemaphore == value = 0 /\ tokens = 0

LocksInit ==
  \/ part = "mutex" /\ Init /\ queue = <<>> /\ NoRwsem /\ NoCompletion /\ NoSemaphore
  \/ part = "rwsem" /\ R!Init /\ queue = <<>> /\ NoMutex /\ NoCompletion /\ NoSemaphore
  \/ part = "completion" /\ C!Init /\ NoMutex /\ NoRwsem /\ NoSemaphore
  \/ part = "semaphore" /\ S!Init /\ NoMutex /\ NoRwsem /\ NoCompletion

InMutex == part = "mutex" /\ UNCHANGED <<part, queue, rwVars, compVars, semVars>>
InRwsem == part = "rwsem" /\ UNCHANGED <<part, prio_write, queue, mutexRest, compVars, semVars>>
InCompletion == part = "completion" /\ UNCHANGED <<part, mutexRest, rwVars, semVars>>
InSemaphore == part = "semaphore" /\ UNCHANGED <<part, mutexRest, rwVars, compVars>>

LocksNext ==
  \/ InMutex /\ Next
  \/ InRwsem /\ R!Next
  \/ InCompletion /\ C!Next
  \/ InSemaphore /\ S!Next

(***************************************************************************)
(* Runnable threads run and critical sections end; for the test-and-set    *)
(* spinlock of the mutex see Mutex.                                        *)
(***************************************************************************)
LocksFairness ==
  /\ \A t \in Threads : WF_all(InMutex /\ Step(t)) /\ SF_all(InMutex /\ TakesSpinlock(t))
  /\ \A t \in RwThreads : WF_all(InRwsem /\ R!Resume(t)) /\ WF_all(InRwsem /\ R!Release(t))

LocksSpec == LocksInit /\ [][LocksNext]_all /\ LocksFairness

\* A writer of the rwsem is alone and the readers are counted, through hand-overs,
\* competing readers and interrupted waiters, and nobody sleeps on a free rwsem
\* unless a woken thread is still on its way (Rwsem).
RwsemHolds == part = "rwsem" => R!RwsemExclusion /\ R!NobodyStranded

\* A completion is not lost on sleepers, a waiter's node is linked once, and the value
\* of a semaphore is what is left minus who waits (Completion, Semaphore), through
\* hand-overs, re-arming and interrupted waiters.
NothingIsLost ==
  /\ part = "completion" => C!DoneIsNoticed /\ C!LinkedOnce
  /\ part = "semaphore" => S!CountIsExact /\ S!NoIdleUnit

\* With priority for writers, a writer of the rwsem gets in or gets an error.
WriterReturns ==
  \A t \in RwThreads : (part = "rwsem" /\ prio_write /\ pc[t] = "wsleep")
                        ~> (part # "rwsem" \/ pc[t] # "wsleep")
==============================================================================
