----------------------------- MODULE RwSpinLock -----------------------------
(***************************************************************************)
(* The read-write spinlock (kernel/lock/rwlock.c, kernel/inc/lock/rwlock.h)*)
(* that protects the pid table and the page-cache trees.                   *)
(*                                                                         *)
(* The 64-bit state word is a record of its three fields: the reader count *)
(* r (bits 9-63), w: a writer holds (bits 0-7 all set), wait: the          *)
(* WRITER_WAITING hint (bit 8).  w_holder, the CPU of the writer, is a     *)
(* second word, stored after the CAS that takes the lock and cleared       *)
(* before the store that frees it.  Interrupts are off from lock to        *)
(* unlock, so the lock is taken and released by the same CPU.              *)
(*                                                                         *)
(* A reader's CAS loop is one step: its condition depends on the CAS-ed    *)
(* value and on w_holder being the caller, which only the caller changes.  *)
(* A writer's loop is split at the load, the CAS and the failure hook,     *)
(* because the hook works on a stale value.                                *)
(***************************************************************************)
EXTENDS Naturals, FiniteSets

CONSTANTS CPUs, None

ASSUME CPUsAssumption == IsFiniteSet(CPUs) /\ None \notin CPUs

VARIABLES
  state,     \* rw->state
  w_holder,  \* rw->w_holder
  pc,        \* where each CPU is
  val,       \* VAL, the value a writer's CAS loop works with
  expedite,  \* the expedite argument of a writer's current attempt
  status,    \* what the sleep callback returned: the locks it released
  held       \* the locks the CPU held when it went to sleep (auxiliary)

vars == <<state, w_holder, pc, val, expedite, status, held>>

Locks == {"READER", "WRITER"}
StateWord == [r : Nat, w : BOOLEAN, wait : BOOLEAN]
UNLOCKED == [r |-> 0, w |-> FALSE, wait |-> FALSE]
WRITER_HOLDING == [r |-> 0, w |-> TRUE, wait |-> FALSE]

\* VAL + READER_BIAS, state - READER_BIAS, state | WRITER_WAITING.
PlusReader(s) == [r |-> s.r + 1, w |-> s.w, wait |-> s.wait]
MinusReader(s) == [r |-> s.r - 1, w |-> s.w, wait |-> s.wait]
WithHint(s) == [r |-> s.r, w |-> s.w, wait |-> TRUE]

PCs == {"idle",
        "rspin",    \* rwlock_racquire
        "read",     \* holds a read lock
        "wload",    \* rwlock_wacquire, about to load the state
        "wcas",     \* condition held, about to CAS
        "whook",    \* CAS failed, in the failure hook
        "wpub",     \* CAS succeeded, about to store w_holder
        "write",    \* holds the write lock
        "both",     \* holds the write lock and a recursive read lock
        "wrel",     \* w_holder cleared, about to store UNLOCKED
        "rslept",   \* in rwlock_r_sleep_cb, read lock released
        "asleep"}   \* sleep callback done, waiting to be woken

Goto(c, from, to) ==
  /\ pc[c] = from
  /\ pc' = [pc EXCEPT ![c] = to]

\* rwlock_init.
Init ==
  /\ state = UNLOCKED
  /\ w_holder = None
  /\ pc = [c \in CPUs |-> "idle"]
  /\ val = [c \in CPUs |-> UNLOCKED]
  /\ expedite = [c \in CPUs |-> FALSE]
  /\ status = [c \in CPUs |-> {}]
  /\ held = [c \in CPUs |-> {}]

-----------------------------------------------------------------------------
(* Readers *)

rwlock_can_rlock(c, s) == (s.w \/ s.wait) => w_holder = c

RLockStart(c) ==
  /\ Goto(c, "idle", "rspin")
  /\ UNCHANGED <<state, w_holder, val, expedite, status, held>>

\* rwlock_racquire, from outside or, in the write-to-read recursion, by the
\* CPU that holds the write lock.  A reader that was asleep is back.
RAcquire(c) ==
  /\ rwlock_can_rlock(c, state)
  /\ state' = PlusReader(state)
  /\ Goto(c, "rspin", "read") \/ Goto(c, "write", "both")
  /\ status' = [status EXCEPT ![c] = {}]
  /\ held' = [held EXCEPT ![c] = {}]
  /\ UNCHANGED <<w_holder, val, expedite>>

\* rwlock_rrelease.
RRelease(c) ==
  /\ Goto(c, "read", "idle") \/ Goto(c, "both", "write")
  /\ state' = MinusReader(state)
  /\ UNCHANGED <<w_holder, val, expedite, status, held>>

-----------------------------------------------------------------------------
(* Writers *)

rwlock_can_wlock(s, exp) == s.r = 0 /\ ~s.w /\ (s.wait => exp)

\* rwlock_wacquire and rwlock_graceful_wacquire start without expediting,
\* rwlock_wacquire_expedited with it.
WLockStart(c) ==
  /\ Goto(c, "idle", "wload")
  /\ \E e \in BOOLEAN : expedite' = [expedite EXCEPT ![c] = e]
  /\ UNCHANGED <<state, w_holder, val, status, held>>

\* rwlock_wacquire: the attempt failed and the threshold has passed.
WTimeout(c) ==
  /\ pc[c] = "wload"
  /\ ~expedite[c]
  /\ expedite' = [expedite EXCEPT ![c] = TRUE]
  /\ UNCHANGED <<state, w_holder, pc, val, status, held>>

\* Load the state and evaluate the condition.  If it is false the CAS loop
\* ends at once, without running any hook, and the caller tries again.
WLoad(c) ==
  /\ rwlock_can_wlock(state, expedite[c])
  /\ Goto(c, "wload", "wcas")
  /\ val' = [val EXCEPT ![c] = state]
  /\ UNCHANGED <<state, w_holder, expedite, status, held>>

\* The CAS succeeds; the locals of the attempt are dead.
WCasOk(c) ==
  /\ Goto(c, "wcas", "wpub")
  /\ state = val[c]
  /\ state' = WRITER_HOLDING
  /\ val' = [val EXCEPT ![c] = UNLOCKED]
  /\ expedite' = [expedite EXCEPT ![c] = FALSE]
  /\ UNCHANGED <<w_holder, status, held>>

\* The CAS fails and reloads VAL.
WCasFail(c) ==
  /\ Goto(c, "wcas", "whook")
  /\ state # val[c]
  /\ val' = [val EXCEPT ![c] = state]
  /\ UNCHANGED <<state, w_holder, expedite, status, held>>

\* __rwlock_expedite_hook, then the condition again on the same VAL.
WHook(c) ==
  /\ \/ /\ Goto(c, "whook", "wcas")
        /\ rwlock_can_wlock(val[c], expedite[c])
        /\ UNCHANGED val
     \/ /\ Goto(c, "whook", "wload")
        /\ ~rwlock_can_wlock(val[c], expedite[c])
        /\ val' = [val EXCEPT ![c] = UNLOCKED]
  /\ state' = IF ~val[c].wait /\ expedite[c]
              THEN WithHint(state)
              ELSE state
  /\ UNCHANGED <<w_holder, expedite, status, held>>

\* Publish w_holder.  A thread that slept holding only the write lock is
\* back; one that also held a read lock takes it next (RAcquire).
WPublish(c) ==
  /\ Goto(c, "wpub", "write")
  /\ w_holder' = c
  /\ status' = [status EXCEPT ![c] = @ \ {"WRITER"}]
  /\ held' = [held EXCEPT ![c] = @ \ {"WRITER"}]
  /\ UNCHANGED <<state, val, expedite>>

\* rwlock_writer_release, first store: w_holder.
WReleaseHolder(c) ==
  /\ Goto(c, "write", "wrel")
  /\ status[c] = {}
  /\ w_holder' = None
  /\ UNCHANGED <<state, val, expedite, status, held>>

\* rwlock_writer_release, second store: the state word.
WReleaseState(c) ==
  /\ Goto(c, "wrel", IF status[c] = {} THEN "idle" ELSE "asleep")
  /\ state' = UNLOCKED
  /\ UNCHANGED <<w_holder, val, expedite, status, held>>

-----------------------------------------------------------------------------
(* Upgrade *)

\* Bug: any reader may upgrade.
rwlock_can_update_any(s) == ~s.w /\ s.r > 0 /\ ~s.wait

rwlock_can_update(s) == ~s.w /\ s.r = 1 /\ ~s.wait

\* Bug: the upgrade sets the writer bits and keeps the reader bias.
TryUpdateKeepsBias(c) ==
  /\ Goto(c, "read", "wpub")
  /\ rwlock_can_update(state)
  /\ state' = [state EXCEPT !.w = TRUE]
  /\ UNCHANGED <<w_holder, val, expedite, status, held>>

\* rwlock_try_update; a failed attempt changes nothing.
TryUpdate(c) ==
  /\ Goto(c, "read", "wpub")
  /\ rwlock_can_update(state)
  /\ state' = WRITER_HOLDING
  /\ UNCHANGED <<w_holder, val, expedite, status, held>>

-----------------------------------------------------------------------------
(* Sleep and wakeup callbacks *)

\* rwlock_r_sleep_cb: release the read lock.
RSleepCb(c) ==
  /\ pc[c] \in {"read", "both"}
  /\ pc' = [pc EXCEPT ![c] = "rslept"]
  /\ state' = MinusReader(state)
  /\ status' = [status EXCEPT ![c] = {"READER"}]
  /\ held' = [held EXCEPT ![c] = IF pc[c] = "both" THEN Locks ELSE {"READER"}]
  /\ UNCHANGED <<w_holder, val, expedite>>

\* rwlock_r_sleep_cb: if the caller is also the writer, release that too.
RSleepCbWriter(c) ==
  /\ IF w_holder = c
     THEN /\ Goto(c, "rslept", "wrel")
          /\ w_holder' = None
          /\ status' = [status EXCEPT ![c] = @ \cup {"WRITER"}]
     ELSE /\ Goto(c, "rslept", "asleep")
          /\ UNCHANGED <<w_holder, status>>
  /\ UNCHANGED <<state, val, expedite, held>>

\* rwlock_w_sleep_cb.
WSleepCb(c) ==
  /\ Goto(c, "write", "wrel")
  /\ status[c] = {}
  /\ w_holder' = None
  /\ status' = [status EXCEPT ![c] = {"WRITER"}]
  /\ held' = [held EXCEPT ![c] = {"WRITER"}]
  /\ UNCHANGED <<state, val, expedite>>

\* rwlock_r_wake_cb and rwlock_w_wake_cb: take the write lock back first,
\* with rwlock_wlock (adaptive), else the read lock.
WakeCb(c) ==
  /\ Goto(c, "asleep", IF "WRITER" \in status[c] THEN "wload" ELSE "rspin")
  /\ expedite' = [expedite EXCEPT ![c] = FALSE]
  /\ UNCHANGED <<state, w_holder, val, status, held>>

-----------------------------------------------------------------------------
(* Specification *)

Begin(c) == RLockStart(c) \/ WLockStart(c)

Spin(c) ==
  \/ RAcquire(c)
  \/ WLoad(c) \/ WCasOk(c) \/ WCasFail(c) \/ WHook(c) \/ WPublish(c)

Release(c) == RRelease(c) \/ WReleaseHolder(c) \/ WReleaseState(c)

Sleep(c) ==
  RSleepCb(c) \/ RSleepCbWriter(c) \/ WSleepCb(c) \/ WakeCb(c)

Next ==
  \E c \in CPUs :
    \/ Begin(c) \/ Spin(c) \/ WTimeout(c)
    \/ Release(c) \/ TryUpdate(c) \/ Sleep(c)

Spec == Init /\ [][Next]_vars

(***************************************************************************)
(* A CPU in the lock's code runs with interrupts off and keeps executing:  *)
(* its next step is taken if it stays enabled.  Critical sections end and  *)
(* sleepers are woken.                                                     *)
(***************************************************************************)
Fairness ==
  \A c \in CPUs :
    /\ WF_vars(Spin(c) /\ (pc[c] = "write" => status[c] # {}))
    /\ WF_vars(Release(c))
    /\ SF_vars(WReleaseHolder(c))
    /\ WF_vars(RSleepCbWriter(c))
    /\ WF_vars(WakeCb(c))

FairSpec == Spec /\ Fairness

-----------------------------------------------------------------------------
(* Properties *)

\* Every variable keeps its type; the reader count never goes below zero.
TypeOK ==
  /\ state \in StateWord
  /\ w_holder \in CPUs \cup {None}
  /\ pc \in [CPUs -> PCs]
  /\ val \in [CPUs -> StateWord]
  /\ expedite \in [CPUs -> BOOLEAN]
  /\ status \in [CPUs -> SUBSET Locks]
  /\ held \in [CPUs -> SUBSET Locks]

\* CPUs that own the write side, from the CAS to the final store; CPUs that
\* have a read lock counted in the state.
Writer(c) ==
  \/ pc[c] \in {"wpub", "write", "both", "wrel"}
  \/ pc[c] = "rslept" /\ held[c] = Locks
Reader(c) == pc[c] \in {"read", "both"}

\* Readers and writer exclude each other across CAS races, upgrades, the
\* write-to-read recursion and the sleep callbacks: next to a writer no other
\* CPU reads or writes.
RwExclusion ==
  \A c, d \in CPUs : Writer(c) /\ (Writer(d) \/ Reader(d)) => c = d

\* The lock word tells the truth: the count is the number of read locks, the
\* writer bits are set exactly while somebody owns the write side.  An
\* unlock that stores UNLOCKED over a reader, or an upgrade that keeps its
\* reader bias, would break it and let later lockers in.
WordMatchesHolders ==
  /\ state.r = Cardinality({c \in CPUs : Reader(c)})
  /\ state.w <=> \E c \in CPUs : Writer(c)

\* w_holder names the writer whenever the writer can look at it: the
\* recursion test of rwlock_can_rlock and the assertion "write lock not
\* held" (rwlock.c:130) never see another CPU there.
HolderIsWriter ==
  \A c \in CPUs :
    /\ pc[c] \in {"write", "both"} => w_holder = c
    /\ w_holder = c => Writer(c)

\* Whoever has locked out new readers with WRITER_WAITING is still trying to
\* get the lock: the hint, which only an acquisition or a writer's release
\* clears, never stays behind without an owner.
HintHasOwner ==
  state.wait =>
    \E c \in CPUs : expedite[c] /\ pc[c] \in {"wload", "wcas", "whook"}

\* A waiter that comes back from its sleep holds what it held before: the
\* status word of the callback records every lock it released.
SleepReleasesAll ==
  \A c \in CPUs : pc[c] = "asleep" => status[c] = held[c] /\ w_holder # c

=============================================================================
