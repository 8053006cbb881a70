------------------------------ MODULE MCSched ------------------------------
(***************************************************************************)
(* What every CPU runs under everything else: RCU and the scheduler.  The  *)
(* two models share no state (Rcu has the scheduler's quiescent states of  *)
(* its own); Init chooses one.                                             *)
(*                                                                         *)
(* RCU: an updater and a callback kthread on the first CPU, a reader and   *)
(* an idle thread to switch to on the second.  Scheduler: two threads that *)
(* share a subqueue and a third in another class of the same group of the  *)
(* top mask, pinned to CPU 0 (as the RCU threads are to their CPUs).       *)
(***************************************************************************)
EXTENDS Rcu, TLC

CONSTANTS c1, c2, t1, t2, idle,              \* Rcu
          s1, s2, s3, SchedThreads, NoThread, Idle, Harts,   \* Scheduler
          Priorities, Priority, Affinity

ASSUME PrioritiesAssumption == Priorities \subseteq 4 .. 251

ASSUME SchedAssumption ==
  /\ IsFiniteSet(SchedThreads) /\ Idle \notin SchedThreads
  /\ Harts \subseteq Nat /\ Harts # {} /\ NoThread \notin Harts
  /\ Priority \in [SchedThreads -> Priorities]
  /\ Affinity \in [SchedThreads -> SUBSET Harts]

VARIABLES part,
          state, cpu_id, se_rq, on_cpu, pi_lock, rq, rq_lock,
          current, prev, doing, wake, exited

MCcpuid == (t1 :> c1) @@ (t2 :> c2) @@ (idle :> c2)
MCOps == (t1 :> {"read", "call", "nomem", "sync", "barrier"}) @@ (t2 :> {"read"})
         @@ (idle :> {})
MCPriority == (s1 :> 68) @@ (s2 :> 68) @@ (s3 :> 64)
MCAffinity == (s1 :> Harts) @@ (s2 :> Harts) @@ (s3 :> {0})

S == INSTANCE Scheduler WITH Threads <- SchedThreads, CPUs <- Harts,
                             None <- NoThread, pc <- doing

schedVars == <<state, cpu_id, se_rq, on_cpu, pi_lock, rq, rq_lock,
               current, prev, doing, wake, exited>>
all == <<part, vars, schedVars>>

SchedInit ==
  /\ part \in {"rcu", "scheduler"} /\ Init /\ S!Init
  /\ part = "scheduler" => run[c2] = idle

SchedNext ==
  \/ part = "rcu" /\ Next /\ UNCHANGED <<part, schedVars>>
  \/ part = "scheduler" /\ S!Next /\ UNCHANGED <<part, vars>>

SchedSpec == SchedInit /\ [][SchedNext]_all

\* No thread runs on two CPUs, is listed twice or is listed while a CPU still runs
\* it, only runnable threads are listed, and the locks a waker chose from a cpu_id it
\* read without them are those that guard the thread (Scheduler): the kernel stack
\* of a thread has one user whatever wake-ups race with its switching away.
RunsOnce == S!RunsOnce /\ S!ListedIsRunnable /\ S!WakeLocksSuffice

\* A runnable thread is on a CPU or on the list that counts and ready masks lead
\* to (Scheduler): no wake-up is lost.
RunnableIsReachable == S!RunnableIsReachable /\ S!CountsAreExact

\* "Thread state will never transition back from ZOMBIE, so no need to lock the
\* child" (exit.c).
ZombieIsFinal == S!ZombieIsFinal
=============================================================================
