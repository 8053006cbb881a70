---------------------------- MODULE SharedProofs ----------------------------
(***************************************************************************)
(* Three of the parts that MCShared runs side by side.                     *)
(*                                                                         *)
(* The read-write spinlock, for any finite number of CPUs: readers and     *)
(* writer exclude each other, the lock word counts the read locks, the     *)
(* hint has an owner, and the sleep callbacks release everything.          *)
(* Exclusion rests on the lock word telling the truth (the CAS conditions  *)
(* are about the word, not about the CPUs), on w_holder naming the writer  *)
(* (the recursion test of readers), and on the value a writer's CAS        *)
(* compares with being one that allows it (CasArmed).                      *)
(*                                                                         *)
(* Interrupts, for any number of harts and descriptors: no IPI is lost and *)
(* no handler runs on a freed irq_desc.  That a reason is not lost is not  *)
(* inductive: a reason that is being processed may be sent again, and is   *)
(* then owed because it is pending, so whatever is pending must be on its  *)
(* way (PendingIsComing), which in turn needs that a sender marks only     *)
(* harts it will ring (MarkedAreRung).  That the handler's descriptor is   *)
(* live needs the harts the grace period waits for (HandlerIsWaitedFor).   *)
(*                                                                         *)
(* Channels, for any number of threads and channels: no wakeup is lost.    *)
(* The property speaks of a sleeper; what makes it inductive is who holds  *)
(* which of the two locks at each step (ChanLocked, SleepLocked), so that  *)
(* nothing arrives between the test and __sleep_lock (UnlockIsEarly), and  *)
(* that a waker who finds nobody has left nobody (FirstWaiter, which rests *)
(* on the order of the tree being well founded).                           *)
(***************************************************************************)
EXTENDS RwSpinLock, Irq, Console, FiniteSetTheorems, WellFoundedInduction, TLAPS

-----------------------------------------------------------------------------
(* The read-write spinlock                                                  *)

Readers == {c \in CPUs : Reader(c)}

\* A writer about to CAS compares with a word that has no reader and no writer.
CasArmed == \A c \in CPUs : pc[c] = "wcas" => val[c].r = 0 /\ ~val[c].w

\* Inside the sleep callbacks the locals agree with what was held.
CallbackOK ==
  \A c \in CPUs :
    /\ pc[c] = "rslept" => /\ status[c] = {"READER"}
                           /\ held[c] = {"READER"} \/ held[c] = Locks
                           /\ held[c] = Locks => w_holder = c
    /\ pc[c] = "wrel" => /\ status[c] = {} \/ status[c] = held[c]
                         /\ w_holder # c

RwInv ==
  /\ TypeOK
  /\ RwExclusion
  /\ state.r = Cardinality(Readers)
  /\ state.w <=> \E c \in CPUs : Writer(c)
  /\ HolderIsWriter
  /\ HintHasOwner
  /\ CasArmed
  /\ CallbackOK
  /\ SleepReleasesAll

\* The read locks are finitely many, so their number is a natural number.
LEMMA ReadersFinite ==
  ASSUME NEW S \in SUBSET CPUs
  PROVE  IsFiniteSet(S) /\ Cardinality(S) \in Nat
  BY CPUsAssumption, FS_Subset, FS_CardinalityType

\* A word with reader count 0 means no reader, count 1 one reader.
LEMMA CountMeans ==
  ASSUME NEW S \in SUBSET CPUs
  PROVE  /\ Cardinality(S) = 0 => S = {}
         /\ Cardinality(S) = 1 => \A c, d \in S : c = d
         /\ Cardinality({}) = 0
  <1>1. IsFiniteSet(S)
    BY ReadersFinite
  <1>2. Cardinality(S) = 1 => \E x : S = {x}
    BY <1>1, FS_Singleton
  <1>3. QED
    BY <1>1, <1>2, FS_EmptySet

\* Taking and dropping a read lock changes the count by one.
LEMMA CountStep ==
  ASSUME NEW S \in SUBSET CPUs, NEW c \in CPUs
  PROVE  /\ c \notin S => Cardinality(S \cup {c}) = Cardinality(S) + 1
         /\ c \in S => /\ Cardinality(S \ {c}) = Cardinality(S) - 1
                       /\ Cardinality(S) # 0
  <1>1. IsFiniteSet(S) /\ Cardinality(S) \in Nat
    BY ReadersFinite
  <1>2. c \in S => Cardinality(S) # 0
    BY <1>1, FS_EmptySet
  <1>3. QED
    BY <1>1, <1>2, FS_AddElement, FS_RemoveElement

\* The initial state satisfies the inductive invariant.
LEMMA InitIInv == Init => RwInv
  <1> SUFFICES ASSUME Init PROVE RwInv
    OBVIOUS
  <1> USE DEF Init, UNLOCKED
  <1>1. TypeOK
    BY DEF TypeOK, StateWord, PCs, Locks
  <1>2. Readers = {} /\ \A c \in CPUs : ~Writer(c) /\ ~Reader(c)
    BY DEF Readers, Reader, Writer
  <1>3. state.r = Cardinality(Readers)
    BY <1>2, CountMeans
  <1>4. RwExclusion /\ (state.w <=> \E c \in CPUs : Writer(c))
    BY <1>2 DEF RwExclusion
  <1>5. HolderIsWriter /\ HintHasOwner /\ CasArmed /\ CallbackOK /\ SleepReleasesAll
    BY CPUsAssumption
    DEF HolderIsWriter, HintHasOwner, CasArmed, CallbackOK, SleepReleasesAll
  <1>6. QED
    BY <1>1, <1>3, <1>4, <1>5 DEF RwInv

\* Steps that leave the lock word, w_holder, and everybody's read and write
\* locks alone only have to keep the local conditions.
LEMMA QuietStep ==
  ASSUME RwInv, TypeOK', UNCHANGED <<state, w_holder>>,
         \A c \in CPUs : (Writer(c)' <=> Writer(c)) /\ (Reader(c)' <=> Reader(c)),
         \A c \in CPUs : pc'[c] \in {"write", "both"} => w_holder = c,
         HintHasOwner', CasArmed', CallbackOK', SleepReleasesAll'
  PROVE  RwInv'
  <1>1. Readers' = Readers
    BY DEF Readers
  <1>2. RwExclusion'
    BY DEF RwInv, RwExclusion
  <1>3. HolderIsWriter'
    BY DEF RwInv, HolderIsWriter
  <1>4. (state.w <=> \E c \in CPUs : Writer(c))'
    BY DEF RwInv
  <1>5. (state.r = Cardinality(Readers))'
    BY <1>1 DEF RwInv
  <1>6. QED
    BY <1>2, <1>3, <1>4, <1>5 DEF RwInv

\* Taking the write side by a CAS from a word without readers and writer, or
\* from the caller's own read lock.
LEMMA TakeWriteSide ==
  ASSUME RwInv, NEW c \in CPUs, ~state.w,
         \A d \in CPUs : Reader(d) => d = c,
         pc[c] \in {"wcas", "read"}, pc' = [pc EXCEPT ![c] = "wpub"],
         state' = WRITER_HOLDING,
         val' = val \/ val' = [val EXCEPT ![c] = UNLOCKED],
         expedite' = expedite \/ expedite' = [expedite EXCEPT ![c] = FALSE],
         UNCHANGED <<w_holder, status, held>>, TypeOK'
  PROVE  RwInv'
  <1> USE DEF RwInv
  <1>1. \A d \in CPUs : ~Writer(d)
    OBVIOUS
  <1>3. \A d \in CPUs : ~Reader(d)'
    BY DEF Reader, TypeOK
  <1>4. \A d \in CPUs : Writer(d)' <=> d = c
    BY <1>1 DEF Writer, TypeOK
  <1>5. Readers' = {}
    BY <1>3 DEF Readers
  <1>6. (state.r = Cardinality(Readers))'
    BY <1>5, CountMeans DEF WRITER_HOLDING
  <1>7. RwExclusion' /\ (state.w <=> \E d \in CPUs : Writer(d))'
    BY <1>3, <1>4 DEF RwExclusion, WRITER_HOLDING
  <1>8. HolderIsWriter'
    BY <1>1, <1>4 DEF HolderIsWriter, Writer, TypeOK
  <1>9. HintHasOwner'
    BY DEF HintHasOwner, WRITER_HOLDING
  <1>10. CasArmed' /\ CallbackOK' /\ SleepReleasesAll'
    BY DEF CasArmed, CallbackOK, SleepReleasesAll, TypeOK
  <1>11. QED
    BY <1>6, <1>7, <1>8, <1>9, <1>10

\* A writer's first store on release: w_holder is cleared, the word is not.
LEMMA ClearHolder ==
  ASSUME RwInv, NEW c \in CPUs, Writer(c), w_holder = c,
         pc[c] # "both",
         pc' = [pc EXCEPT ![c] = "wrel"], w_holder' = None,
         UNCHANGED <<state, val, expedite>>, TypeOK',
         \A d \in CPUs \ {c} : status'[d] = status[d] /\ held'[d] = held[d],
         status'[c] = {} \/ status'[c] = held'[c]
  PROVE  RwInv'
  <1> USE DEF RwInv
  <1>1. \A d \in CPUs : Writer(d)' <=> Writer(d)
    BY DEF Writer, TypeOK
  <1>2. \A d \in CPUs : Reader(d)' <=> Reader(d)
    BY DEF Reader, Writer, TypeOK
  <1>3. Readers' = Readers
    BY <1>2 DEF Readers
  <1>4. RwExclusion' /\ (state.w <=> \E d \in CPUs : Writer(d))'
    BY <1>1, <1>2 DEF RwExclusion
  <1>5. \A d \in CPUs : Writer(d) => d = c
    BY DEF RwExclusion
  <1>6. HolderIsWriter'
    BY <1>5, CPUsAssumption DEF HolderIsWriter, TypeOK, Writer
  <1>7. HintHasOwner'
    <2>1. ASSUME NEW d \in CPUs,
                 expedite[d], pc[d] \in {"wload", "wcas", "whook"}
          PROVE  expedite'[d] /\ pc'[d] \in {"wload", "wcas", "whook"}
      BY <2>1 DEF Writer, TypeOK
    <2>2. QED
      BY <2>1 DEF HintHasOwner
  <1>8. CasArmed' /\ CallbackOK' /\ SleepReleasesAll'
    BY <1>5, CPUsAssumption
    DEF CasArmed, CallbackOK, SleepReleasesAll, TypeOK, Writer
  <1>9. QED
    BY <1>3, <1>4, <1>6, <1>7, <1>8

\* Dropping a read lock, by rwlock_rrelease or in rwlock_r_sleep_cb.
LEMMA DropReadLock ==
  ASSUME RwInv, NEW c \in CPUs, Reader(c),
         state' = MinusReader(state),
         UNCHANGED <<w_holder, val, expedite>>, TypeOK',
         \A d \in CPUs \ {c} : /\ pc'[d] = pc[d]
                               /\ status'[d] = status[d] /\ held'[d] = held[d],
         ~Reader(c)', Writer(c)' <=> Writer(c),
         pc'[c] = "write" => pc[c] = "both",
         pc'[c] \in {"idle", "write", "rslept"}, CallbackOK'
  PROVE  RwInv'
  <1> USE DEF RwInv
  <1>1. \A d \in CPUs : Writer(d)' <=> Writer(d)
    BY DEF Writer
  <1>2. \A d \in CPUs \ {c} : Reader(d)' <=> Reader(d)
    BY DEF Reader
  <1>3. Readers' = Readers \ {c} /\ c \in Readers
    BY <1>2 DEF Readers
  <1>4. state'.r = state.r - 1 /\ state'.w = state.w /\ state'.wait = state.wait
    BY DEF MinusReader
  <1>5. (state.r = Cardinality(Readers))'
    <2>1. Readers \in SUBSET CPUs
      BY DEF Readers
    <2>2. Cardinality(Readers \ {c}) = Cardinality(Readers) - 1
      BY <1>3, <2>1, CountStep
    <2>3. QED
      BY <1>3, <1>4, <2>2
  <1>6. RwExclusion' /\ (state.w <=> \E d \in CPUs : Writer(d))'
    BY <1>1, <1>2, <1>4 DEF RwExclusion
  <1>7. HolderIsWriter'
    BY <1>1 DEF HolderIsWriter
  <1>8. HintHasOwner'
    <2>1. ASSUME NEW d \in CPUs,
                 expedite[d], pc[d] \in {"wload", "wcas", "whook"}
          PROVE  expedite'[d] /\ pc'[d] \in {"wload", "wcas", "whook"}
      BY <2>1 DEF Reader
    <2>2. QED
      BY <1>4, <2>1 DEF HintHasOwner
  <1>9. CasArmed' /\ SleepReleasesAll'
    BY DEF CasArmed, SleepReleasesAll
  <1>10. QED
    BY <1>5, <1>6, <1>7, <1>8, <1>9

\* Every step preserves the inductive invariant.
LEMMA NextIInv == RwInv /\ [Next]_vars => RwInv'
  <1> SUFFICES ASSUME RwInv, [Next]_vars PROVE RwInv'
    OBVIOUS
  <1>t. /\ state \in StateWord /\ w_holder \in CPUs \cup {None}
        /\ pc \in [CPUs -> PCs] /\ val \in [CPUs -> StateWord]
        /\ expedite \in [CPUs -> BOOLEAN]
        /\ status \in [CPUs -> SUBSET Locks]
        /\ held \in [CPUs -> SUBSET Locks]
    BY DEF RwInv, TypeOK
  <1>u. CASE UNCHANGED vars
    BY <1>u, QuietStep
    DEF vars, RwInv, TypeOK, Writer, Reader, HolderIsWriter, HintHasOwner,
        CasArmed, CallbackOK, SleepReleasesAll
  <1>n. ASSUME NEW c \in CPUs,
               \/ Begin(c) \/ Spin(c) \/ WTimeout(c)
               \/ Release(c) \/ TryUpdate(c) \/ Sleep(c)
        PROVE  RwInv'
    <2> DEFINE Quiet == /\ TypeOK'
                        /\ UNCHANGED <<state, w_holder>>
                        /\ \A d \in CPUs : /\ Writer(d)' <=> Writer(d)
                                           /\ Reader(d)' <=> Reader(d)
                        /\ \A d \in CPUs :
                             pc'[d] \in {"write", "both"} => w_holder = d
                        /\ HintHasOwner' /\ CasArmed' /\ CallbackOK'
                        /\ SleepReleasesAll'
    <2>q. Quiet => RwInv'
      BY QuietStep
    <2>1. CASE RLockStart(c)
      <3>1. Quiet
        BY <1>t, <2>1
        DEF RLockStart, Goto, RwInv, TypeOK, PCs, Writer, Reader,
            HolderIsWriter, HintHasOwner, CasArmed, CallbackOK,
            SleepReleasesAll
      <3>2. QED
        BY <2>q, <3>1
    <2>2. CASE WLockStart(c)
      <3>1. PICK e \in BOOLEAN : expedite' = [expedite EXCEPT ![c] = e]
        BY <2>2 DEF WLockStart
      <3>2. Quiet
        BY <1>t, <2>2, <3>1
        DEF WLockStart, Goto, RwInv, TypeOK, PCs, Writer, Reader,
            HolderIsWriter, HintHasOwner, CasArmed, CallbackOK,
            SleepReleasesAll
      <3>3. QED
        BY <2>q, <3>2
    <2>3. CASE WTimeout(c)
      <3>1. Quiet
        BY <1>t, <2>3
        DEF WTimeout, RwInv, TypeOK, PCs, Writer, Reader, HolderIsWriter,
            HintHasOwner, CasArmed, CallbackOK, SleepReleasesAll
      <3>2. QED
        BY <2>q, <3>1
    <2>4. CASE WLoad(c)
      <3>1. Quiet
        BY <1>t, <2>4
        DEF WLoad, rwlock_can_wlock, Goto, RwInv, TypeOK, PCs, Writer, Reader,
            HolderIsWriter, HintHasOwner, CasArmed, CallbackOK,
            SleepReleasesAll
      <3>2. QED
        BY <2>q, <3>1
    <2>5. CASE WCasFail(c)
      <3>1. Quiet
        BY <1>t, <2>5
        DEF WCasFail, Goto, RwInv, TypeOK, PCs, Writer, Reader,
            HolderIsWriter, HintHasOwner, CasArmed, CallbackOK,
            SleepReleasesAll
      <3>2. QED
        BY <2>q, <3>1
    <2>6. CASE WakeCb(c)
      <3>1. Quiet
        BY <1>t, <2>6
        DEF WakeCb, Goto, RwInv, TypeOK, PCs, Writer, Reader,
            HolderIsWriter, HintHasOwner, CasArmed, CallbackOK,
            SleepReleasesAll
      <3>2. QED
        BY <2>q, <3>1
    <2>7. CASE WCasOk(c)
      <3>1. ~state.w /\ state.r = 0
        BY <2>7 DEF WCasOk, Goto, RwInv, CasArmed
      <3>2. \A d \in CPUs : ~Reader(d)
        <4>1. Readers = {}
          BY <3>1, CountMeans DEF RwInv, Readers
        <4>2. QED
          BY <4>1 DEF Readers
      <3>3. TypeOK'
        BY <1>t, <2>7 DEF WCasOk, Goto, TypeOK, PCs, StateWord, WRITER_HOLDING,
                          UNLOCKED
      <3>4. QED
        BY <2>7, <3>1, <3>2, <3>3, TakeWriteSide DEF WCasOk, Goto
    <2>8. CASE TryUpdate(c)
      <3>1. ~state.w /\ state.r = 1
        BY <2>8 DEF TryUpdate, rwlock_can_update
      <3>2. \A d \in CPUs : Reader(d) => d = c
        <4>1. \A x, y \in Readers : x = y
          BY <3>1, CountMeans DEF RwInv, Readers
        <4>2. c \in Readers
          BY <2>8 DEF TryUpdate, Goto, Readers, Reader
        <4>3. QED
          BY <4>1, <4>2 DEF Readers
      <3>3. TypeOK'
        BY <1>t, <2>8 DEF TryUpdate, Goto, TypeOK, PCs, StateWord,
                          WRITER_HOLDING
      <3>4. QED
        BY <2>8, <3>1, <3>2, <3>3, TakeWriteSide DEF TryUpdate, Goto
    <2>9. CASE WHook(c)
      <3>1. /\ pc[c] = "whook" /\ pc'[c] \in {"wcas", "wload"}
            /\ pc' = [pc EXCEPT ![c] = pc'[c]]
            /\ UNCHANGED <<w_holder, expedite, status, held>>
            /\ state'.r = state.r /\ state'.w = state.w
            /\ state'.wait => state.wait \/ expedite[c]
        BY <1>t, <2>9 DEF WHook, Goto, WithHint, StateWord
      <3>m. WithHint(state) \in StateWord /\ UNLOCKED \in StateWord
        BY <1>t DEF WithHint, StateWord, UNLOCKED
      <3>2. TypeOK'
        BY <1>t, <2>9, <3>m DEF WHook, Goto, TypeOK, PCs
      <3>3. \A d \in CPUs : (Writer(d)' <=> Writer(d)) /\ (Reader(d)' <=> Reader(d))
        BY <1>t, <3>1 DEF Writer, Reader
      <3>4. Readers' = Readers
        BY <3>3 DEF Readers
      <3>5. RwExclusion' /\ (state.w <=> \E d \in CPUs : Writer(d))'
        BY <3>1, <3>3 DEF RwInv, RwExclusion
      <3>6. HolderIsWriter'
        BY <1>t, <3>1, <3>3 DEF RwInv, HolderIsWriter
      <3>7. HintHasOwner'
        BY <1>t, <3>1 DEF RwInv, HintHasOwner
      <3>8. CasArmed'
        BY <1>t, <2>9 DEF WHook, Goto, rwlock_can_wlock, RwInv, CasArmed
      <3>9. CallbackOK' /\ SleepReleasesAll'
        BY <1>t, <3>1 DEF RwInv, CallbackOK, SleepReleasesAll
      <3>10. QED
        BY <3>1, <3>2, <3>4, <3>5, <3>6, <3>7, <3>8, <3>9 DEF RwInv
    <2>10. CASE RAcquire(c)
      <3>1. /\ state' = PlusReader(state)
            /\ \/ pc[c] = "rspin" /\ pc' = [pc EXCEPT ![c] = "read"]
               \/ pc[c] = "write" /\ pc' = [pc EXCEPT ![c] = "both"]
            /\ state.w => w_holder = c
            /\ state.wait => state'.wait
        BY <2>10 DEF RAcquire, Goto, rwlock_can_rlock, PlusReader
      <3>2. /\ state'.r = state.r + 1 /\ state'.w = state.w
            /\ state'.wait = state.wait
        BY <3>1 DEF PlusReader
      <3>3. TypeOK'
        BY <1>t, <2>10, <3>1 DEF RAcquire, TypeOK, PCs, StateWord, PlusReader
      <3>4. \A d \in CPUs : Writer(d)' <=> Writer(d)
        BY <1>t, <2>10, <3>1 DEF RAcquire, Writer
      <3>5. /\ ~Reader(c) /\ Reader(c)'
            /\ \A d \in CPUs \ {c} : Reader(d)' <=> Reader(d)
        BY <1>t, <3>1 DEF Reader
      <3>6. Readers' = Readers \cup {c} /\ c \notin Readers
        BY <3>5 DEF Readers
      <3>7. (state.r = Cardinality(Readers))'
        <4>1. Readers \in SUBSET CPUs
          BY DEF Readers
        <4>2. Cardinality(Readers \cup {c}) = Cardinality(Readers) + 1
          BY <3>6, <4>1, CountStep
        <4>3. QED
          BY <3>2, <3>6, <4>2 DEF RwInv
      <3>8. \A d \in CPUs : Writer(d) => d = c
        BY <3>1 DEF RwInv, HolderIsWriter, RwExclusion
      <3>9. RwExclusion' /\ (state.w <=> \E d \in CPUs : Writer(d))'
        BY <3>2, <3>4, <3>5, <3>8 DEF RwInv, RwExclusion
      <3>10. HolderIsWriter'
        BY <1>t, <2>10, <3>1, <3>4 DEF RAcquire, RwInv, HolderIsWriter
      <3>11. HintHasOwner'
        BY <1>t, <2>10, <3>1, <3>2 DEF RAcquire, RwInv, HintHasOwner
      <3>12. CasArmed' /\ CallbackOK' /\ SleepReleasesAll'
        BY <1>t, <2>10, <3>1
        DEF RAcquire, RwInv, CasArmed, CallbackOK, SleepReleasesAll
      <3>13. QED
        BY <3>3, <3>7, <3>9, <3>10, <3>11, <3>12 DEF RwInv
    <2>11. CASE RRelease(c)
      <3>1. Reader(c) /\ state' = MinusReader(state)
        BY <2>11 DEF RRelease, Goto, Reader
      <3>2. state.r \in Nat /\ state.r # 0
        <4>1. c \in Readers /\ Readers \in SUBSET CPUs
          BY <3>1 DEF Readers
        <4>2. QED
          BY <1>t, <4>1, CountStep DEF RwInv, StateWord
      <3>m. MinusReader(state) \in StateWord
        BY <1>t, <3>2 DEF MinusReader, StateWord
      <3>3. TypeOK'
        BY <1>t, <2>11, <3>m DEF RRelease, Goto, TypeOK, PCs
      <3>4. /\ ~Reader(c)' /\ (Writer(c)' <=> Writer(c))
            /\ pc'[c] = "write" => pc[c] = "both"
            /\ pc'[c] \in {"idle", "write", "rslept"}
            /\ \A d \in CPUs \ {c} : pc'[d] = pc[d]
        BY <1>t, <2>11 DEF RRelease, Goto, Reader, Writer
      <3>5. CallbackOK'
        BY <1>t, <2>11 DEF RRelease, Goto, RwInv, CallbackOK
      <3>6. QED
        BY <2>11, <3>1, <3>3, <3>4, <3>5, DropReadLock DEF RRelease
    <2>12. CASE RSleepCb(c)
      <3>1. Reader(c) /\ state' = MinusReader(state)
        BY <2>12 DEF RSleepCb, Reader
      <3>2. state.r \in Nat /\ state.r # 0
        <4>1. c \in Readers /\ Readers \in SUBSET CPUs
          BY <3>1 DEF Readers
        <4>2. QED
          BY <1>t, <4>1, CountStep DEF RwInv, StateWord
      <3>m. MinusReader(state) \in StateWord
        BY <1>t, <3>2 DEF MinusReader, StateWord
      <3>3. TypeOK'
        BY <1>t, <2>12, <3>m DEF RSleepCb, TypeOK, PCs, Locks
      <3>l. Locks # {"READER"}
        BY DEF Locks
      <3>4. /\ ~Reader(c)' /\ (Writer(c)' <=> Writer(c))
            /\ pc'[c] = "rslept"
            /\ \A d \in CPUs \ {c} : /\ pc'[d] = pc[d]
                                     /\ status'[d] = status[d]
                                     /\ held'[d] = held[d]
        BY <1>t, <2>12, <3>l DEF RSleepCb, Reader, Writer
      <3>5. CallbackOK'
        BY <1>t, <2>12, <3>l DEF RSleepCb, RwInv, CallbackOK, HolderIsWriter
      <3>6. QED
        BY <2>12, <3>1, <3>3, <3>4, <3>5, DropReadLock DEF RSleepCb
    <2>13. CASE WPublish(c)
      <3>1. Writer(c)
        BY <2>13 DEF WPublish, Goto, Writer
      <3>2. \A d \in CPUs : Writer(d) => d = c
        BY <3>1 DEF RwInv, RwExclusion
      <3>3. TypeOK'
        BY <1>t, <2>13 DEF WPublish, Goto, TypeOK, PCs
      <3>4. \A d \in CPUs : (Writer(d)' <=> Writer(d)) /\ (Reader(d)' <=> Reader(d))
        BY <1>t, <2>13 DEF WPublish, Goto, Writer, Reader
      <3>5. Readers' = Readers
        BY <3>4 DEF Readers
      <3>6. /\ RwExclusion' /\ (state.w <=> \E d \in CPUs : Writer(d))'
            /\ (state.r = Cardinality(Readers))'
        BY <2>13, <3>4, <3>5 DEF WPublish, RwInv, RwExclusion
      <3>7. HolderIsWriter'
        BY <1>t, <2>13, <3>1, <3>2, <3>4
        DEF WPublish, Goto, RwInv, HolderIsWriter, Writer
      <3>8. HintHasOwner' /\ CasArmed'
        BY <1>t, <2>13 DEF WPublish, Goto, RwInv, HintHasOwner, CasArmed
      <3>9. CallbackOK' /\ SleepReleasesAll'
        BY <1>t, <2>13, <3>2
        DEF WPublish, Goto, RwInv, CallbackOK, SleepReleasesAll, Writer
      <3>10. QED
        BY <3>3, <3>6, <3>7, <3>8, <3>9 DEF RwInv
    <2>14. CASE WReleaseHolder(c)
      <3>1. Writer(c) /\ w_holder = c
        BY <2>14 DEF WReleaseHolder, Goto, Writer, RwInv, HolderIsWriter
      <3>2. TypeOK'
        BY <1>t, <2>14 DEF WReleaseHolder, Goto, TypeOK, PCs
      <3>3. QED
        BY <2>14, <3>1, <3>2, ClearHolder DEF WReleaseHolder, Goto
    <2>15. CASE WSleepCb(c)
      <3>1. Writer(c) /\ w_holder = c
        BY <2>15 DEF WSleepCb, Goto, Writer, RwInv, HolderIsWriter
      <3>2. TypeOK'
        BY <1>t, <2>15 DEF WSleepCb, Goto, TypeOK, PCs, Locks
      <3>3. /\ \A d \in CPUs \ {c} : status'[d] = status[d] /\ held'[d] = held[d]
            /\ status'[c] = held'[c]
        BY <1>t, <2>15 DEF WSleepCb
      <3>4. QED
        BY <2>15, <3>1, <3>2, <3>3, ClearHolder DEF WSleepCb, Goto
    <2>16. CASE RSleepCbWriter(c)
      <3>1. CASE w_holder = c
        <4>1. Writer(c)
          BY <3>1 DEF RwInv, HolderIsWriter
        <4>2. /\ pc[c] = "rslept" /\ pc' = [pc EXCEPT ![c] = "wrel"]
              /\ w_holder' = None
              /\ status' = [status EXCEPT ![c] = @ \cup {"WRITER"}]
              /\ UNCHANGED <<state, val, expedite, held>>
          BY <2>16, <3>1 DEF RSleepCbWriter, Goto
        <4>3. TypeOK'
          BY <1>t, <4>2 DEF TypeOK, PCs, Locks
        <4>4. status[c] = {"READER"} /\ held[c] = Locks
          BY <4>1, <4>2 DEF RwInv, CallbackOK, Writer
        <4>5. /\ \A d \in CPUs \ {c} : status'[d] = status[d] /\ held'[d] = held[d]
              /\ status'[c] = held'[c]
          BY <1>t, <4>2, <4>4 DEF Locks
        <4>6. QED
          BY <3>1, <4>1, <4>2, <4>3, <4>5, ClearHolder
      <3>2. CASE w_holder # c
        <4>1. /\ pc[c] = "rslept" /\ pc' = [pc EXCEPT ![c] = "asleep"]
              /\ UNCHANGED <<w_holder, status, state, val, expedite, held>>
          BY <2>16, <3>2 DEF RSleepCbWriter, Goto
        <4>2. status[c] = {"READER"} /\ held[c] = {"READER"} /\ ~Writer(c)
          BY <3>2, <4>1 DEF RwInv, CallbackOK, Writer
        <4>3. Quiet
          BY <1>t, <3>2, <4>1, <4>2
          DEF RwInv, TypeOK, PCs, Writer, Reader, HolderIsWriter,
              HintHasOwner, CasArmed, CallbackOK, SleepReleasesAll
        <4>4. QED
          BY <2>q, <4>3
      <3>3. QED
        BY <3>1, <3>2
    <2>17. CASE WReleaseState(c)
      <3>1. /\ pc[c] = "wrel"
            /\ pc' = [pc EXCEPT ![c] = IF status[c] = {} THEN "idle" ELSE "asleep"]
            /\ state' = UNLOCKED
            /\ UNCHANGED <<w_holder, val, expedite, status, held>>
        BY <2>17 DEF WReleaseState, Goto
      <3>2. Writer(c)
        BY <3>1 DEF Writer
      <3>3. \A d \in CPUs : (Writer(d) => d = c) /\ ~Reader(d)
        BY <3>1, <3>2 DEF RwInv, RwExclusion, Reader
      <3>4. \A d \in CPUs : ~Writer(d)' /\ ~Reader(d)'
        BY <1>t, <3>1, <3>3 DEF Writer, Reader
      <3>5. Readers' = {}
        BY <3>4 DEF Readers
      <3>6. (state.r = Cardinality(Readers))' /\ TypeOK'
        BY <1>t, <3>1, <3>5, CountMeans DEF UNLOCKED, TypeOK, StateWord, PCs
      <3>7. RwExclusion' /\ (state.w <=> \E d \in CPUs : Writer(d))'
        BY <3>1, <3>4 DEF RwExclusion, UNLOCKED
      <3>8. \A d \in CPUs : w_holder # d
        BY <3>1, <3>3 DEF RwInv, HolderIsWriter, CallbackOK
      <3>9. HolderIsWriter' /\ HintHasOwner'
        BY <1>t, <3>1, <3>3, <3>8
        DEF HolderIsWriter, HintHasOwner, UNLOCKED, Writer
      <3>10. CasArmed' /\ CallbackOK' /\ SleepReleasesAll'
        BY <1>t, <3>1, <3>8 DEF RwInv, CasArmed, CallbackOK, SleepReleasesAll
      <3>11. QED
        BY <3>6, <3>7, <3>9, <3>10 DEF RwInv
    <2>18. QED
      BY <1>n, <2>1, <2>2, <2>3, <2>4, <2>5, <2>6, <2>7, <2>8, <2>9, <2>10,
         <2>11, <2>12, <2>13, <2>14, <2>15, <2>16, <2>17
      DEF Begin, Spin, Release, Sleep
  <1>q. QED
    BY <1>u, <1>n DEF Next

\* The inductive invariant holds in every reachable state.
LEMMA SpecIInv == Spec => []RwInv
  BY InitIInv, NextIInv, PTL DEF Spec

\* Every variable keeps its type, so the reader count never underflows.
THEOREM RwTypeOK == Spec => []TypeOK
  <1>1. RwInv => TypeOK
    BY DEF RwInv
  <1>2. QED
    BY SpecIInv, <1>1, PTL

\* Readers and writer exclude each other, for any number of CPUs.
THEOREM RwExcludes == Spec => []RwExclusion
  <1>1. RwInv => RwExclusion
    BY DEF RwInv
  <1>2. QED
    BY SpecIInv, <1>1, PTL

\* The lock word counts the read locks and marks the writer exactly.
THEOREM RwWordIsExact == Spec => []WordMatchesHolders
  <1>1. RwInv => WordMatchesHolders
    BY DEF RwInv, WordMatchesHolders, Readers
  <1>2. QED
    BY SpecIInv, <1>1, PTL

\* w_holder is the writer wherever the code tests it.
THEOREM RwHolderIsWriter == Spec => []HolderIsWriter
  <1>1. RwInv => HolderIsWriter
    BY DEF RwInv
  <1>2. QED
    BY SpecIInv, <1>1, PTL

\* The WRITER_WAITING hint always belongs to a writer still trying.
THEOREM RwHintHasOwner == Spec => []HintHasOwner
  <1>1. RwInv => HintHasOwner
    BY DEF RwInv
  <1>2. QED
    BY SpecIInv, <1>1, PTL

\* The sleep callbacks release, and record, every lock that was held.
THEOREM RwSleepReleasesAll == Spec => []SleepReleasesAll
  <1>1. RwInv => SleepReleasesAll
    BY DEF RwInv
  <1>2. QED
    BY SpecIInv, <1>1, PTL

-----------------------------------------------------------------------------
(* Interrupts and IPIs                                                      *)

Coming(h) == ssip[h] \/ irqPc[h] = "take" \/ \E g \in Harts : h \in toRing[g]

PendingIsComing == \A h \in Harts : ipiPending[h] # {} => irqPc[h] = "crashed" \/ Coming(h)
MarkedAreRung == \A h \in Harts : toMark[h] \subseteq toRing[h]
TodoIsInHand == \A h \in Harts : ipiTodo[h] # {} => irqPc[h] = "process"
OnIsPublished == \A n \in DescIds : descState[n] = "on" <=> n = irqDesc
HandlerIsWaitedFor ==
    \A h \in Harts : irqPc[h] = "handle" =>
        /\ handling[h] \in DescIds
        /\ \/ descState[handling[h]] = "on"
           \/ descState[handling[h]] = "retired" /\ h \in irqGrace[handling[h]]

IpiInv == PendingIsComing /\ MarkedAreRung /\ TodoIsInHand /\ NoLostIpi
DescInv == OnIsPublished /\ HandlerIsWaitedFor
IrqInv == IrqTypeOK /\ IpiInv /\ DescInv

\* The initial state satisfies the inductive invariant.
LEMMA IrqInitIInv == IrqInit => IrqInv
  BY IrqShape DEF IrqInit, IrqInv, IrqTypeOK, IpiInv, DescInv, PendingIsComing, MarkedAreRung, TodoIsInHand, NoLostIpi,
     OnIsPublished, HandlerIsWaitedFor, Reasons, Harts, DescIds

\* Every step keeps the types.
LEMMA IrqStepType == IrqInv /\ [IpiNext \/ IrqNext]_irqVars => IrqTypeOK'
  <1> SUFFICES ASSUME IrqInv, [IpiNext \/ IrqNext]_irqVars PROVE IrqTypeOK'
    OBVIOUS
  <1> USE IrqShape DEF IrqInv, IrqTypeOK, Reasons, Harts, DescIds, ipiVars, sendVars, hartVars, descVars
  <1>1. ASSUME NEW h \in Harts, SendStep(h) PROVE IrqTypeOK'
    <2>1. CASE SendRing(h)
      BY <2>1 DEF SendRing
    <2>2. ASSUME NEW g \in Harts, SendMark(h, g) PROVE IrqTypeOK'
      BY <2>2 DEF SendMark
    <2>3. QED
      BY <1>1, <2>1, <2>2 DEF SendStep
  <1>2. ASSUME NEW h \in Harts, IpiAck(h) \/ IpiTake(h) \/ IpiReturn(h) PROVE IrqTypeOK'
    BY <1>2 DEF IpiAck, IpiTake, IpiReturn
  <1>3. ASSUME NEW h \in Harts, IpiProcess(h) PROVE IrqTypeOK'
    <2>1. CASE FirstOf(ipiTodo[h]) = "crash"
      <3>1. toMark' \in [Harts -> SUBSET Harts] /\ toRing' \in [Harts -> SUBSET Harts]
        <4>1. Harts \ {h} \in SUBSET Harts
          OBVIOUS
        <4>2. /\ toMark' = [toMark EXCEPT ![h] = Harts \ {h}]
              /\ toRing' = [toRing EXCEPT ![h] = Harts \ {h}]
          BY <1>3, <2>1 DEF IpiProcess, SendTo
        <4> HIDE DEF Harts, IrqInv
        <4>3. QED
          BY <4>1, <4>2 DEF IrqInv
      <3>2. sendReason' \in [Harts -> Reasons] /\ ipiOwed' \in [Harts -> SUBSET Reasons]
        BY <1>3, <2>1 DEF IpiProcess, SendTo
      <3>3. irqPc' \in [Harts -> {"out", "take", "process", "crashed", "load", "handle"}]
            /\ ipiTodo' \in [Harts -> SUBSET Reasons]
        BY <1>3, <2>1 DEF IpiProcess
      <3>4. QED
        BY <1>3, <3>1, <3>2, <3>3 DEF IpiProcess
    <2>2. CASE FirstOf(ipiTodo[h]) # "crash"
      BY <1>3, <2>2 DEF IpiProcess
    <2>3. QED
      BY <2>1, <2>2
  <1>4. ASSUME NEW h \in Harts, NEW ts \in SUBSET Harts, NEW r \in Reasons, IpiSend(h, ts, r) PROVE IrqTypeOK'
    BY <1>4 DEF IpiSend, SendTo
  <1>5. ASSUME NEW h \in Harts, PlicClaim(h) \/ IrqLoad(h) \/ IrqHandled(h) PROVE IrqTypeOK'
    <2>1. CASE PlicClaim(h)
      BY <2>1 DEF PlicClaim
    <2>2. CASE IrqLoad(h)
      BY <2>2 DEF IrqLoad
    <2>3. CASE IrqHandled(h)
      <3>1. irqGrace' \in [DescIds -> SUBSET Harts]
        BY <2>3 DEF IrqHandled
      <3>2. 0 \in 0..MaxDescs
        OBVIOUS
      <3>3. QED
        BY <2>3, <3>1, <3>2 DEF IrqHandled
    <2>4. QED
      BY <1>5, <2>1, <2>2, <2>3
  <1>6. CASE UnregisterIrq
    BY <1>6 DEF UnregisterIrq
  <1>7. ASSUME NEW n \in DescIds, RegisterIrq(n) \/ RcuFreeIrqDesc(n) PROVE IrqTypeOK'
    <2>1. n \in 0..MaxDescs
      OBVIOUS
    <2>2. CASE RegisterIrq(n)
      BY <2>1, <2>2 DEF RegisterIrq
    <2>3. CASE RcuFreeIrqDesc(n)
      BY <2>3 DEF RcuFreeIrqDesc
    <2>4. QED
      BY <1>7, <2>2, <2>3
  <1>8. CASE UNCHANGED irqVars
    BY <1>8 DEF irqVars
  <1> HIDE DEF IrqInv, IrqTypeOK, Reasons, Harts, DescIds, ipiVars, sendVars, hartVars, descVars
  <1>9. QED
    BY <1>1, <1>2, <1>3, <1>4, <1>5, <1>6, <1>7, <1>8 DEF IpiNext, IrqNext

\* Every step keeps what the IPIs promise: marking, ringing and taking happen in
\* an order in which a pending reason is always followed by an interrupt.
LEMMA IrqStepIpi == IrqInv /\ [IpiNext \/ IrqNext]_irqVars => IpiInv'
  <1> SUFFICES ASSUME IrqInv, [IpiNext \/ IrqNext]_irqVars PROVE IpiInv'
    OBVIOUS
  <1> USE DEF IrqInv, IrqTypeOK, IpiInv, PendingIsComing, Coming, MarkedAreRung, TodoIsInHand, NoLostIpi, ipiVars, sendVars, hartVars, descVars
  <1>1. ASSUME NEW h \in Harts, SendStep(h) PROVE IpiInv'
    <2>1. CASE SendRing(h)
      BY <2>1 DEF SendRing
    <2>2. ASSUME NEW g \in Harts, SendMark(h, g) PROVE IpiInv'
      BY <2>2 DEF SendMark
    <2>3. QED
      BY <1>1, <2>1, <2>2 DEF SendStep
  <1>2. ASSUME NEW h \in Harts, IpiAck(h) \/ IpiTake(h) \/ IpiReturn(h) PROVE IpiInv'
    BY <1>2 DEF IpiAck, IpiTake, IpiReturn
  <1>3. ASSUME NEW h \in Harts, IpiProcess(h) PROVE IpiInv'
    BY <1>3 DEF IpiProcess, SendTo, FirstOf, Reasons
  <1>4. ASSUME NEW h \in Harts, NEW ts \in SUBSET Harts, NEW r \in Reasons, IpiSend(h, ts, r) PROVE IpiInv'
    BY <1>4 DEF IpiSend, SendTo, CanSend
  <1>5. ASSUME NEW h \in Harts, PlicClaim(h) \/ IrqLoad(h) \/ IrqHandled(h) PROVE IpiInv'
    BY <1>5 DEF PlicClaim, IrqLoad, IrqHandled
  <1>6. CASE UnregisterIrq
    BY <1>6 DEF UnregisterIrq
  <1>7. ASSUME NEW n \in DescIds, RegisterIrq(n) \/ RcuFreeIrqDesc(n) PROVE IpiInv'
    BY <1>7 DEF RegisterIrq, RcuFreeIrqDesc
  <1>8. CASE UNCHANGED irqVars
    BY <1>8 DEF irqVars
  <1>9. QED
    BY <1>1, <1>2, <1>3, <1>4, <1>5, <1>6, <1>7, <1>8 DEF IpiNext, IrqNext

\* Every step keeps the descriptors of running handlers from being freed.
LEMMA IrqStepDesc == IrqInv /\ [IpiNext \/ IrqNext]_irqVars => DescInv'
  <1> SUFFICES ASSUME IrqInv, [IpiNext \/ IrqNext]_irqVars PROVE DescInv'
    OBVIOUS
  <1> USE DEF IrqInv, IrqTypeOK, DescInv, OnIsPublished, HandlerIsWaitedFor, ipiVars, sendVars, hartVars, descVars
  <1>1. ASSUME NEW h \in Harts, SendStep(h) PROVE DescInv'
    BY <1>1 DEF SendStep, SendRing, SendMark
  <1>2. ASSUME NEW h \in Harts, IpiAck(h) \/ IpiTake(h) \/ IpiReturn(h) PROVE DescInv'
    BY <1>2 DEF IpiAck, IpiTake, IpiReturn
  <1>3. ASSUME NEW h \in Harts, IpiProcess(h) PROVE DescInv'
    BY <1>3 DEF IpiProcess
  <1>4. ASSUME NEW h \in Harts, NEW ts \in SUBSET Harts, NEW r \in Reasons, IpiSend(h, ts, r) PROVE DescInv'
    BY <1>4 DEF IpiSend
  <1>5. ASSUME NEW h \in Harts, PlicClaim(h) \/ IrqLoad(h) \/ IrqHandled(h) PROVE DescInv'
    BY <1>5, IrqShape DEF PlicClaim, IrqLoad, IrqHandled, DescIds
  <1>6. CASE UnregisterIrq
    BY <1>6, IrqShape DEF UnregisterIrq, DescReaders, DescIds
  <1>7. ASSUME NEW n \in DescIds, RegisterIrq(n) \/ RcuFreeIrqDesc(n) PROVE DescInv'
    BY <1>7, IrqShape DEF RegisterIrq, RcuFreeIrqDesc, DescIds
  <1>8. CASE UNCHANGED irqVars
    BY <1>8 DEF irqVars
  <1>9. QED
    BY <1>1, <1>2, <1>3, <1>4, <1>5, <1>6, <1>7, <1>8 DEF IpiNext, IrqNext

\* With any number of harts sending, taking and crashing, and handlers registered
\* and unregistered under them, no reason sent by ipi_send_* is lost and
\* __do_plic_irq never runs a handler on a freed descriptor.
THEOREM IrqInterruptsHold == IrqSpec => []InterruptsHold
  <1>1. IrqInv /\ [IpiNext \/ IrqNext]_irqVars => IrqInv'
    BY IrqStepType, IrqStepIpi, IrqStepDesc DEF IrqInv
  <1>2. IrqInv => InterruptsHold
    BY DEF IrqInv, IpiInv, DescInv, InterruptsHold, HandlerDescIsLive, HandlerIsWaitedFor
  <1>3. QED
    BY IrqInitIInv, <1>1, <1>2, PTL DEF IrqSpec

-----------------------------------------------------------------------------
(* Channels                                                                 *)

\* The order of the addresses, as a relation.
Lower == {ss \in Nat \X Nat : ss[1] < ss[2]}

\* It is well founded.
LEMMA LowerIsWellFounded == IsWellFoundedOn(Lower, Nat)
  BY NatLessThanWellFounded, Zenon DEF OpToRel, Lower

\* A set of addresses that is not empty has a least one.
LEMMA LeastNat ==
  ASSUME NEW S \in SUBSET Nat, S # {}
  PROVE  \E x \in S : \A y \in S : x <= y
<1>2. PICK x \in S : \A y \in S : ~(<<y, x>> \in Lower)
  BY LowerIsWellFounded, WFMin, Zenon
<1>3. \A y \in S : ~(y < x)  BY <1>2 DEF Lower
<1>. QED  BY <1>3

\* Where a thread can be, and the shape of the state.
ChanPcs == {"idle", "test", "unlock", "wait", "switch", "asleep", "woken", "relock",
            "bring", "wakeup", "waking"}
ChanType ==
  /\ chanReady \in [Chans -> BOOLEAN]
  /\ chanLock \in [Chans -> SUBSET ChanThreads]
  /\ sleepLock \in SUBSET ChanThreads
  /\ chanTree \in SUBSET [key : Chans, thread : ChanThreads]
  /\ chanAt \in [ChanThreads -> [pc : ChanPcs, chan : Chans \cup {0}, on : BOOLEAN]]
\* A call has a channel.
ChanNamed == \A t \in ChanThreads : chanAt[t].pc # "idle" => chanAt[t].chan \in Chans
\* Who holds the caller's lock: the sleeper until it has __sleep_lock, the waker to the end.
ChanLocked ==
  \A t \in ChanThreads : chanAt[t].pc \in {"test", "unlock", "bring", "wakeup", "waking"}
                            => chanLock[chanAt[t].chan] = {t}
\* Who holds __sleep_lock: the sleeper until its CPU has left it, and the waker.
SleepLocked ==
  \A t \in ChanThreads : chanAt[t].pc \in {"unlock", "wait", "switch", "waking"} => sleepLock = {t}
\* Nothing came between the test and __sleep_lock: the caller's lock is still held.
UnlockIsEarly ==
  \A t \in ChanThreads : chanAt[t].pc = "unlock" => ~chanReady[chanAt[t].chan]
\* current->chan is set from before the caller's lock goes until after the wake-up.
OnIsSet ==
  \A t \in ChanThreads : chanAt[t].pc \in {"unlock", "wait", "switch", "asleep", "woken"} => chanAt[t].on
\* The tree holds the threads whose CPU is leaving or has left them, under their channels.
TreeIsSleepers ==
  /\ \A t \in ChanThreads : chanAt[t].pc \in {"switch", "asleep"}
                               <=> [key |-> chanAt[t].chan, thread |-> t] \in chanTree
  /\ \A n \in chanTree : chanAt[n.thread].chan = n.key
\* What came after the caller's lock went was brought by a waker that has not finished.
WakerComes ==
  \A t \in ChanThreads :
    chanAt[t].pc \in {"wait", "switch", "asleep"} /\ chanReady[chanAt[t].chan]
      => \E w \in ChanThreads : chanAt[w].pc \in {"wakeup", "waking"} /\ chanAt[w].chan = chanAt[t].chan
ChanInv == /\ ChanType /\ ChanNamed /\ ChanLocked /\ SleepLocked /\ UnlockIsEarly /\ OnIsSet
           /\ TreeIsSleepers /\ WakerComes

\* The invariant gives the property.
LEMMA ChanInvImplies == ChanInv => NoChanWakeupLost
<1>. SUFFICES ASSUME ChanInv PROVE NoChanWakeupLost  OBVIOUS
<1>. USE DEF ChanInv
<1>1. ASSUME NEW n \in chanTree
      PROVE  n.thread \in ChanThreads /\ n = [key |-> chanAt[n.thread].chan, thread |-> n.thread]
  BY DEF ChanType, TreeIsSleepers
<1>2. ASSUME NEW n \in chanTree PROVE chanAt[n.thread].pc \in {"switch", "asleep"}
  BY <1>1 DEF TreeIsSleepers
<1>3. ASSUME NEW t \in ChanThreads, NEW n \in chanTree, AtChan(t, "waking") PROVE AtChan(n.thread, "asleep")
  BY <1>1, <1>2, <1>3 DEF SleepLocked, AtChan
<1>4. \A n \in chanTree : chanAt[n.thread].on /\ chanAt[n.thread].chan = n.key
  BY <1>1, <1>2 DEF OnIsSet, TreeIsSleepers
<1>. QED  BY <1>3, <1>4 DEF NoChanWakeupLost, TreeIsSleepers, WakerComes, UnlockIsEarly

\* The invariant holds at first.
LEMMA ChanInvInit == ChanInit => ChanInv
<1>. SUFFICES ASSUME ChanInit PROVE ChanInv  OBVIOUS
<1>. USE DEF ChanInit
<1>1. ChanType  BY DEF ChanType, ChanPcs
<1>. QED  BY <1>1 DEF ChanInv, ChanNamed, ChanLocked, SleepLocked, UnlockIsEarly, OnIsSet, TreeIsSleepers, WakerComes

\* Each action keeps the invariant.  Where an action lets go of a lock, what other threads
\* hold is another lock, for no two hold the same one.
LEMMA ChanCallStep ==
  ASSUME ChanInv, NEW t \in ChanThreads, NEW c \in Chans, NEW do \in {"test", "bring"}, ChanCall(t, c, do)
  PROVE  ChanInv'
<1>. USE DEF ChanInv, ChanType, ChanCall, AtChan, ToChan, LockChan, UnlockChan
<1>1. ChanType'  BY DEF ChanType, ChanPcs
<1>2. ChanNamed'  BY DEF ChanNamed
<1>3. ChanLocked'  BY DEF ChanLocked, ChanNamed, ChanLocked
<1>4. SleepLocked'  BY DEF SleepLocked, ChanLocked
<1>5. UnlockIsEarly'  BY DEF UnlockIsEarly, ChanNamed, ChanLocked
<1>6. OnIsSet'  BY DEF OnIsSet
<1>7. TreeIsSleepers'  BY DEF TreeIsSleepers
<1>8. WakerComes'  BY DEF WakerComes, ChanNamed, ChanLocked
<1>. QED  BY <1>1, <1>2, <1>3, <1>4, <1>5, <1>6, <1>7, <1>8

LEMMA ChanTakeStep ==
  ASSUME ChanInv, NEW t \in ChanThreads, ChanTake(t)
  PROVE  ChanInv'
<1>. USE DEF ChanInv, ChanType, ChanTake, AtChan, ToChan, LockChan, UnlockChan
<1>1. ChanType'  BY DEF ChanType, ChanPcs
<1>2. ChanNamed'  BY DEF ChanNamed
<1>3. ChanLocked'
  <2>. SUFFICES ASSUME NEW u \in ChanThreads,
                       chanAt[u].pc' \in {"test", "unlock", "bring", "wakeup", "waking"}
                PROVE  chanLock[chanAt[u].chan]' = {u}
    BY DEF ChanLocked
  <2>1. CASE u = t  BY <2>1 DEF ChanNamed, ChanLocked
  <2>2. CASE u # t
    <3>1. chanAt'[u] = chanAt[u]  BY <2>2
    <3>2. chanLock[chanAt[u].chan] = {u}  BY <3>1 DEF ChanLocked
    <3>3. chanAt[u].chan # chanAt[t].chan  BY <3>2, <2>2 DEF ChanLocked
    <3>. QED  BY <3>1, <3>2, <3>3
  <2>. QED  BY <2>1, <2>2
<1>4. SleepLocked'  BY DEF SleepLocked, ChanLocked
<1>5. UnlockIsEarly'  BY DEF UnlockIsEarly, ChanNamed, ChanLocked
<1>6. OnIsSet'  BY DEF OnIsSet
<1>7. TreeIsSleepers'  BY DEF TreeIsSleepers
<1>8. WakerComes'  BY DEF WakerComes, ChanNamed, ChanLocked
<1>. QED  BY <1>1, <1>2, <1>3, <1>4, <1>5, <1>6, <1>7, <1>8

LEMMA SleepOnChanStep ==
  ASSUME ChanInv, NEW t \in ChanThreads, SleepOnChan(t)
  PROVE  ChanInv'
<1>. USE DEF ChanInv, ChanType, SleepOnChan, AtChan, ToChan, LockChan, UnlockChan
<1>1. ChanType'  BY DEF ChanType, ChanPcs
<1>2. ChanNamed'  BY DEF ChanNamed
<1>3. ChanLocked'  BY DEF ChanLocked, ChanNamed, ChanLocked
<1>4. SleepLocked'  BY DEF SleepLocked, ChanLocked
<1>5. UnlockIsEarly'  BY DEF UnlockIsEarly, ChanNamed, ChanLocked
<1>6. OnIsSet'  BY DEF OnIsSet
<1>7. TreeIsSleepers'  BY DEF TreeIsSleepers
<1>8. WakerComes'  BY DEF WakerComes, ChanNamed, ChanLocked
<1>. QED  BY <1>1, <1>2, <1>3, <1>4, <1>5, <1>6, <1>7, <1>8

LEMMA SleepUnlockStep ==
  ASSUME ChanInv, NEW t \in ChanThreads, SleepUnlock(t)
  PROVE  ChanInv'
<1>. USE DEF ChanInv, ChanType, SleepUnlock, AtChan, ToChan, LockChan, UnlockChan
<1>1. ChanType'  BY DEF ChanType, ChanPcs
<1>2. ChanNamed'  BY DEF ChanNamed
<1>3. ChanLocked'
  <2>. SUFFICES ASSUME NEW u \in ChanThreads,
                       chanAt[u].pc' \in {"test", "unlock", "bring", "wakeup", "waking"}
                PROVE  chanLock[chanAt[u].chan]' = {u}
    BY DEF ChanLocked
  <2>1. CASE u = t  BY <2>1 DEF ChanNamed, ChanLocked
  <2>2. CASE u # t
    <3>1. chanAt'[u] = chanAt[u]  BY <2>2
    <3>2. chanLock[chanAt[u].chan] = {u}  BY <3>1 DEF ChanLocked
    <3>3. chanAt[u].chan # chanAt[t].chan  BY <3>2, <2>2 DEF ChanLocked
    <3>. QED  BY <3>1, <3>2, <3>3
  <2>. QED  BY <2>1, <2>2
<1>4. SleepLocked'  BY DEF SleepLocked, ChanLocked
<1>5. UnlockIsEarly'  BY DEF UnlockIsEarly, ChanNamed, ChanLocked
<1>6. OnIsSet'  BY DEF OnIsSet
<1>7. TreeIsSleepers'  BY DEF TreeIsSleepers
<1>8. WakerComes'  BY DEF WakerComes, ChanNamed, ChanLocked, UnlockIsEarly
<1>. QED  BY <1>1, <1>2, <1>3, <1>4, <1>5, <1>6, <1>7, <1>8

LEMMA TtreeWaitStep ==
  ASSUME ChanInv, NEW t \in ChanThreads, TtreeWait(t)
  PROVE  ChanInv'
<1>. USE DEF ChanInv, ChanType, TtreeWait, TtreeAdd, AtChan, ToChan, LockChan, UnlockChan
<1>1. ChanType'
  <2>1. chanAt[t].chan \in Chans  BY DEF ChanNamed
  <2>. QED  BY <2>1 DEF ChanPcs
<1>2. ChanNamed'  BY DEF ChanNamed
<1>3. ChanLocked'  BY DEF ChanLocked, ChanNamed, ChanLocked
<1>4. SleepLocked'  BY DEF SleepLocked, ChanLocked
<1>5. UnlockIsEarly'  BY DEF UnlockIsEarly, ChanNamed, ChanLocked
<1>6. OnIsSet'  BY DEF OnIsSet
<1>7. TreeIsSleepers'  BY DEF TreeIsSleepers
<1>8. WakerComes'  BY DEF WakerComes, ChanNamed, ChanLocked
<1>. QED  BY <1>1, <1>2, <1>3, <1>4, <1>5, <1>6, <1>7, <1>8

LEMMA ChanSwitchStep ==
  ASSUME ChanInv, NEW t \in ChanThreads, ChanSwitch(t)
  PROVE  ChanInv'
<1>. USE DEF ChanInv, ChanType, ChanSwitch, AtChan, ToChan, LockChan, UnlockChan
<1>1. ChanType'  BY DEF ChanType, ChanPcs
<1>2. ChanNamed'  BY DEF ChanNamed
<1>3. ChanLocked'  BY DEF ChanLocked, ChanNamed, ChanLocked
<1>4. SleepLocked'
  <2>1. \A u \in ChanThreads \ {t} : chanAt[u].pc \notin {"unlock", "wait", "switch", "waking"}
    BY DEF SleepLocked
  <2>. QED  BY <2>1 DEF SleepLocked
<1>5. UnlockIsEarly'  BY DEF UnlockIsEarly, ChanNamed, ChanLocked
<1>6. OnIsSet'  BY DEF OnIsSet
<1>7. TreeIsSleepers'  BY DEF TreeIsSleepers
<1>8. WakerComes'  BY DEF WakerComes, ChanNamed, ChanLocked
<1>. QED  BY <1>1, <1>2, <1>3, <1>4, <1>5, <1>6, <1>7, <1>8

LEMMA ClearChanStep ==
  ASSUME ChanInv, NEW t \in ChanThreads, ClearChan(t)
  PROVE  ChanInv'
<1>. USE DEF ChanInv, ChanType, ClearChan, AtChan, ToChan, LockChan, UnlockChan
<1>1. ChanType'  BY DEF ChanType, ChanPcs
<1>2. ChanNamed'  BY DEF ChanNamed
<1>3. ChanLocked'  BY DEF ChanLocked, ChanNamed, ChanLocked
<1>4. SleepLocked'  BY DEF SleepLocked, ChanLocked
<1>5. UnlockIsEarly'  BY DEF UnlockIsEarly, ChanNamed, ChanLocked
<1>6. OnIsSet'  BY DEF OnIsSet
<1>7. TreeIsSleepers'  BY DEF TreeIsSleepers
<1>8. WakerComes'  BY DEF WakerComes, ChanNamed, ChanLocked
<1>. QED  BY <1>1, <1>2, <1>3, <1>4, <1>5, <1>6, <1>7, <1>8

LEMMA ChanRelockStep ==
  ASSUME ChanInv, NEW t \in ChanThreads, ChanRelock(t)
  PROVE  ChanInv'
<1>. USE DEF ChanInv, ChanType, ChanRelock, AtChan, ToChan, LockChan, UnlockChan
<1>1. ChanType'  BY DEF ChanType, ChanPcs
<1>2. ChanNamed'  BY DEF ChanNamed
<1>3. ChanLocked'
  <2>. SUFFICES ASSUME NEW u \in ChanThreads,
                       chanAt[u].pc' \in {"test", "unlock", "bring", "wakeup", "waking"}
                PROVE  chanLock[chanAt[u].chan]' = {u}
    BY DEF ChanLocked
  <2>1. CASE u = t  BY <2>1 DEF ChanNamed, ChanLocked
  <2>2. CASE u # t
    <3>1. chanAt'[u] = chanAt[u]  BY <2>2
    <3>2. chanLock[chanAt[u].chan] = {u}  BY <3>1 DEF ChanLocked
    <3>3. chanAt[u].chan # chanAt[t].chan  BY <3>2, <2>2 DEF ChanLocked
    <3>. QED  BY <3>1, <3>2, <3>3
  <2>. QED  BY <2>1, <2>2
<1>4. SleepLocked'  BY DEF SleepLocked, ChanLocked
<1>5. UnlockIsEarly'  BY DEF UnlockIsEarly, ChanNamed, ChanLocked
<1>6. OnIsSet'  BY DEF OnIsSet
<1>7. TreeIsSleepers'  BY DEF TreeIsSleepers
<1>8. WakerComes'  BY DEF WakerComes, ChanNamed, ChanLocked
<1>. QED  BY <1>1, <1>2, <1>3, <1>4, <1>5, <1>6, <1>7, <1>8

LEMMA ChanBringStep ==
  ASSUME ChanInv, NEW t \in ChanThreads, ChanBring(t)
  PROVE  ChanInv'
<1>. USE DEF ChanInv, ChanType, ChanBring, AtChan, ToChan, LockChan, UnlockChan
<1>1. ChanType'  BY DEF ChanType, ChanPcs
<1>2. ChanNamed'  BY DEF ChanNamed
<1>3. ChanLocked'  BY DEF ChanLocked, ChanNamed, ChanLocked
<1>4. SleepLocked'  BY DEF SleepLocked, ChanLocked
<1>5. UnlockIsEarly'  BY DEF UnlockIsEarly, ChanNamed, ChanLocked
<1>6. OnIsSet'  BY DEF OnIsSet
<1>7. TreeIsSleepers'  BY DEF TreeIsSleepers
<1>8. WakerComes'  BY DEF WakerComes, ChanNamed, ChanLocked
<1>. QED  BY <1>1, <1>2, <1>3, <1>4, <1>5, <1>6, <1>7, <1>8

LEMMA WakeupOnChanStep ==
  ASSUME ChanInv, NEW t \in ChanThreads, WakeupOnChan(t)
  PROVE  ChanInv'
<1>. USE DEF ChanInv, ChanType, WakeupOnChan, AtChan, ToChan, LockChan, UnlockChan
<1>1. ChanType'  BY DEF ChanType, ChanPcs
<1>2. ChanNamed'  BY DEF ChanNamed
<1>3. ChanLocked'  BY DEF ChanLocked, ChanNamed, ChanLocked
<1>4. SleepLocked'  BY DEF SleepLocked, ChanLocked
<1>5. UnlockIsEarly'  BY DEF UnlockIsEarly, ChanNamed, ChanLocked
<1>6. OnIsSet'  BY DEF OnIsSet
<1>7. TreeIsSleepers'  BY DEF TreeIsSleepers
<1>8. WakerComes'  BY DEF WakerComes, ChanNamed, ChanLocked
<1>. QED  BY <1>1, <1>2, <1>3, <1>4, <1>5, <1>6, <1>7, <1>8

\* ttree_wakeup_one finds a waiter as long as one is left under the key.
LEMMA FirstWaiter ==
  ASSUME ChanInv, NEW n \in chanTree
  PROVE  FindKeyMin(n.key) # {}
<1>. USE DEF ChanInv, ChanType
<1>. DEFINE S == {x \in ChanThreads : [key |-> n.key, thread |-> x] \in chanTree}
<1>1. S \in SUBSET Nat /\ n.thread \in S  BY ConsoleShape
<1>2. PICK x \in S : \A y \in S : x <= y  BY <1>1, LeastNat
<1>3. [key |-> n.key, thread |-> x] \in chanTree /\ x \in Nat  BY <1>1, <1>2
<1>4. ASSUME NEW m \in chanTree, m.key >= n.key
      PROVE  WaiterBelow([key |-> n.key, thread |-> x], m)
  <2>1. m.key \in Nat /\ n.key \in Nat /\ m.thread \in ChanThreads  BY ConsoleShape
  <2>2. CASE m.key = n.key
    <3>1. m.thread \in S  BY <2>1, <2>2
    <3>. QED  BY <1>2, <2>2, <3>1 DEF WaiterBelow
  <2>3. CASE m.key > n.key  BY <2>3 DEF WaiterBelow
  <2>4. m.key = n.key \/ m.key > n.key  BY <1>4, <2>1
  <2>. QED  BY <2>2, <2>3, <2>4
<1>. QED  BY <1>3, <1>4 DEF FindKeyMin

LEMMA TtreeWakeupOneStep ==
  ASSUME ChanInv, NEW t \in ChanThreads, TtreeWakeupOne(t)
  PROVE  ChanInv'
<1>. USE DEF ChanInv, ChanType
<1>0. PICK n \in chanTree :
        /\ n.key = chanAt[t].chan /\ AtChan(t, "waking") /\ AtChan(n.thread, "asleep")
        /\ TtreeRemove(n) /\ ToChan(n.thread, "woken")
        /\ UNCHANGED <<chanReady, chanLock, sleepLock>>
  BY DEF TtreeWakeupOne, FindKeyMin
<1>. USE <1>0 DEF AtChan, ToChan, TtreeRemove
<1>1. ChanType'  BY DEF ChanPcs
<1>2. ChanNamed'  BY DEF ChanNamed
<1>3. ChanLocked'  BY DEF ChanLocked
<1>4. SleepLocked'  BY DEF SleepLocked
<1>5. UnlockIsEarly'  BY DEF UnlockIsEarly
<1>6. OnIsSet'  BY DEF OnIsSet
<1>7. TreeIsSleepers'
  <2>1. n = [key |-> chanAt[n.thread].chan, thread |-> n.thread] /\ n.thread \in ChanThreads
    BY DEF TreeIsSleepers
  <2>2. ASSUME NEW u \in ChanThreads
        PROVE  (chanAt[u].pc \in {"switch", "asleep"}
                  <=> [key |-> chanAt[u].chan, thread |-> u] \in chanTree)'
    <3>1. CASE u = n.thread  BY <2>1, <3>1
    <3>2. CASE u # n.thread
      <4>1. chanAt'[u] = chanAt[u]  BY <3>2
      <4>2. [key |-> chanAt[u].chan, thread |-> u] # n  BY <3>2
      <4>. QED  BY <4>1, <4>2 DEF TreeIsSleepers
    <3>. QED  BY <3>1, <3>2
  <2>3. \A m \in chanTree' : chanAt'[m.thread].chan = m.key  BY DEF TreeIsSleepers
  <2>. QED  BY <2>2, <2>3 DEF TreeIsSleepers
<1>8. WakerComes'  BY DEF WakerComes
<1>. QED  BY <1>1, <1>2, <1>3, <1>4, <1>5, <1>6, <1>7, <1>8

\* The waker stops when it finds none: nobody is left asleep on its channel, and nobody is
\* on the way to sleep, for that would need the lock the waker holds.
LEMMA WakeupDoneStep ==
  ASSUME ChanInv, NEW t \in ChanThreads, WakeupDone(t)
  PROVE  ChanInv'
<1>. USE DEF ChanInv, ChanType, WakeupDone, AtChan, ToChan, LockChan, UnlockChan
<1>1. ChanType'  BY DEF ChanPcs
<1>2. ChanNamed'  BY DEF ChanNamed
<1>3. ChanLocked'
  <2>. SUFFICES ASSUME NEW u \in ChanThreads,
                       chanAt[u].pc' \in {"test", "unlock", "bring", "wakeup", "waking"}
                PROVE  chanLock[chanAt[u].chan]' = {u}
    BY DEF ChanLocked
  <2>1. CASE u = t  BY <2>1 DEF ChanNamed, ChanLocked
  <2>2. CASE u # t
    <3>1. chanAt'[u] = chanAt[u]  BY <2>2
    <3>2. chanLock[chanAt[u].chan] = {u}  BY <3>1 DEF ChanLocked
    <3>3. chanAt[u].chan # chanAt[t].chan  BY <3>2, <2>2 DEF ChanLocked
    <3>. QED  BY <3>1, <3>2, <3>3
  <2>. QED  BY <2>1, <2>2
<1>4. SleepLocked'
  <2>1. \A u \in ChanThreads \ {t} : chanAt[u].pc \notin {"unlock", "wait", "switch", "waking"}
    BY DEF SleepLocked
  <2>. QED  BY <2>1 DEF SleepLocked
<1>5. UnlockIsEarly'  BY DEF UnlockIsEarly
<1>6. OnIsSet'  BY DEF OnIsSet
<1>7. TreeIsSleepers'  BY DEF TreeIsSleepers
<1>8. WakerComes'
  <2>. SUFFICES ASSUME NEW u \in ChanThreads,
                       chanAt[u].pc' \in {"wait", "switch", "asleep"}, chanReady[chanAt[u].chan]'
                PROVE  \E w \in ChanThreads : chanAt[w].pc' \in {"wakeup", "waking"}
                                              /\ chanAt[w].chan' = chanAt[u].chan'
    BY DEF WakerComes
  <2>1. u # t /\ chanAt'[u] = chanAt[u]  OBVIOUS
  <2>2. chanAt[u].pc = "asleep"  BY <2>1 DEF SleepLocked
  <2>3. [key |-> chanAt[u].chan, thread |-> u] \in chanTree  BY <2>2 DEF TreeIsSleepers
  <2>4. FindKeyMin(chanAt[u].chan) # {}  BY <2>3, FirstWaiter
  <2>5. chanAt[u].chan # chanAt[t].chan  BY <2>4
  <2>6. PICK w \in ChanThreads : chanAt[w].pc \in {"wakeup", "waking"} /\ chanAt[w].chan = chanAt[u].chan
    BY <2>1, <2>2 DEF WakerComes
  <2>7. w # t /\ chanAt'[w] = chanAt[w]  BY <2>5, <2>6
  <2>. QED  BY <2>1, <2>6, <2>7
<1>. QED  BY <1>1, <1>2, <1>3, <1>4, <1>5, <1>6, <1>7, <1>8

\* For any number of threads and channels: sleep_on_chan, which lets the caller's lock go
\* before it sleeps, and wakeup_on_chan lose no wakeup, the tree holds exactly the sleepers,
\* and a waker never waits for a thread's CPU.
THEOREM ChanLosesNoWakeup == ChanSpec => []NoChanWakeupLost
<1>1. ChanInit => ChanInv  BY ChanInvInit
<1>2. ChanInv /\ [ChanNext]_chanVars => ChanInv'
  <2>1. ASSUME ChanInv, ChanNext PROVE ChanInv'
    BY <2>1, ChanCallStep, ChanTakeStep, SleepOnChanStep, SleepUnlockStep, TtreeWaitStep, ChanSwitchStep,
       ClearChanStep, ChanRelockStep, ChanBringStep, WakeupOnChanStep, TtreeWakeupOneStep, WakeupDoneStep
       DEF ChanNext
  <2>2. ASSUME ChanInv, UNCHANGED chanVars PROVE ChanInv'
    BY <2>2 DEF chanVars, ChanInv, ChanType, ChanNamed, ChanLocked, SleepLocked, UnlockIsEarly, OnIsSet,
       TreeIsSleepers, WakerComes
  <2>. QED  BY <2>1, <2>2
<1>3. ChanInv => NoChanWakeupLost  BY ChanInvImplies
<1>. QED  BY <1>1, <1>2, <1>3, PTL DEF ChanSpec

=============================================================================
