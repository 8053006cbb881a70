---------------------------- MODULE SignalProofs ----------------------------
(***************************************************************************)
(* Proofs about Signal: for every number of threads, whatever is sent,     *)
(* blocked, handled or waited for, the flag of a thread covers its own     *)
(* pending signals and pause() does not sleep past one.                    *)
(*                                                                         *)
(* The flag part is inductive together with the types.  The sleep is not:  *)
(* GInv adds that a thread asleep in pause() is INTERRUPTIBLE, so that the *)
(* wakeup finds the state it wants, and that the sender who still owes the *)
(* wakeup read the mask the thread has now (MaskIsCurrent), so that its    *)
(* test of the pending signals comes out the same.                         *)
(***************************************************************************)
EXTENDS Signal, SequenceTheorems, TLAPS

SharedRecord == [pending : SUBSET Signals, queue : 0..MaxInfo]

\* The flag of a thread record covers what is pending in it.
Covered(g) == g.pending \ g.mask # {} => g.flag

\* Between the store of the state and the look at the flag, pause() may be woken.
PauseState ==
    \A t \in SigThreads :
        /\ at[t].pc = "pause" => run[t].state \in {"INTERRUPTIBLE", "RUNNING"}
        /\ at[t].pc = "paused" /\ ~run[t].queued => run[t].state = "INTERRUPTIBLE"

\* The mask the sender copied under the lock is still the sleeper's.
MaskIsCurrent ==
    \A t \in SigThreads :
        at[t].pc = "paused" /\ ~run[t].queued /\ sig[t].pending \ sig[t].mask # {} =>
            sender.mask = sig[t].mask

\* A thread about to deliver has a signal in hand, the one its handler then blocks.
SignalInHand == \A t \in SigThreads : at[t].pc = "deliver" => at[t].signo \in Signals

GInv == SigTypeOK /\ FlagCoversPending /\ PauseIsWoken /\ PauseState /\ MaskIsCurrent /\ SignalInHand

-----------------------------------------------------------------------------
(* The operators on records                                                 *)

LEMMA RecalcFields ==
    ASSUME NEW g \in SigRecord, NEW sh \in SharedRecord
    PROVE  /\ Recalc(g, sh) \in SigRecord
           /\ Recalc(g, sh).pending = g.pending /\ Recalc(g, sh).mask = g.mask
           /\ Covered(Recalc(g, sh))
BY DEF Recalc, SigRecord, SharedRecord, Covered

LEMMA DequeuedOwn ==
    ASSUME NEW g \in SigRecord, NEW s
    PROVE  Dequeued(g, s) \in SigRecord
<1> DEFINE q == IF s = SIGUSR1 /\ g.queue > 0 THEN g.queue - 1 ELSE IF s = SIGUSR1 THEN 0 ELSE g.queue
           p == IF s = SIGUSR1 /\ q > 0 THEN g.pending ELSE g.pending \ {s}
<1>1. q \in 0..MaxInfo BY SignalAssumption DEF SigRecord
<1>2. p \in SUBSET Signals BY DEF SigRecord
<1>3. Dequeued(g, s) = [g EXCEPT !.queue = q, !.pending = p] BY DEF Dequeued, SigRecord
<1> HIDE DEF p, q
<1>4. QED BY <1>1, <1>2, <1>3 DEF SigRecord

LEMMA DequeuedShared ==
    ASSUME NEW g \in SharedRecord, NEW s
    PROVE  Dequeued(g, s) \in SharedRecord
<1> DEFINE q == IF s = SIGUSR1 /\ g.queue > 0 THEN g.queue - 1 ELSE IF s = SIGUSR1 THEN 0 ELSE g.queue
           p == IF s = SIGUSR1 /\ q > 0 THEN g.pending ELSE g.pending \ {s}
<1>1. q \in 0..MaxInfo BY SignalAssumption DEF SharedRecord
<1>2. p \in SUBSET Signals BY DEF SharedRecord
<1>3. Dequeued(g, s) = [g EXCEPT !.queue = q, !.pending = p] BY DEF Dequeued, SharedRecord
<1> HIDE DEF p, q
<1>4. QED BY <1>1, <1>2, <1>3 DEF SharedRecord

LEMMA EnqueuedType ==
    ASSUME NEW q \in 0..MaxInfo
    PROVE  Enqueued(q) \subseteq 0..MaxInfo
BY SignalAssumption DEF Enqueued

\* The lowest signal of a set exists.
LEMMA LowestSignal ==
    ASSUME NEW M \in SUBSET Signals, M # {}
    PROVE  (CHOOSE x \in M : \A y \in M : x <= y) \in M
<1>1. \E x \in M : \A y \in M : x <= y
    <2> USE DEF Signals, SIGKILL, SIGUSR1, SIGCONT, SIGSTOP
    <2>1. CASE SIGKILL \in M BY <2>1
    <2>2. CASE SIGKILL \notin M /\ SIGUSR1 \in M BY <2>2
    <2>3. CASE SIGKILL \notin M /\ SIGUSR1 \notin M /\ SIGCONT \in M BY <2>3
    <2>4. CASE SIGKILL \notin M /\ SIGUSR1 \notin M /\ SIGCONT \notin M
        <3>1. SIGSTOP \in M BY <2>4
        <3>2. QED BY <3>1, <2>4
    <2>5. QED BY <2>1, <2>2, <2>3, <2>4
<1>2. QED BY <1>1

\* A wakeup changes one thread, and that one to RUNNING and queued, or nothing.
LEMMA WakeEffect ==
    ASSUME NEW r \in [SigThreads -> RunRecord], NEW t \in SigThreads, NEW states
    PROVE  /\ Wake(r, t, states) \in [SigThreads -> RunRecord]
           /\ \A u \in SigThreads \ {t} : Wake(r, t, states)[u] = r[u]
           /\ r[t].state \in states => Wake(r, t, states)[t] = [state |-> "RUNNING", queued |-> TRUE]
           /\ r[t].state \notin states => Wake(r, t, states)[t] = r[t]
BY DEF Wake, RunRecord

-----------------------------------------------------------------------------

LEMMA InitGInv == SignalInit => GInv
<1> SUFFICES ASSUME SignalInit PROVE GInv OBVIOUS
<1> USE DEF SignalInit, UserMode, Idle
<1>1. SigTypeOK
    <2>1. <<>> \in Seq(SUBSET Signals) OBVIOUS
    <2>2. QED BY <2>1, SignalAssumption DEF SigTypeOK, SigRecord, RunRecord, AtRecord, Actions
<1>2. FlagCoversPending BY DEF FlagCoversPending
<1>3. PauseIsWoken BY DEF PauseIsWoken
<1>4. PauseState BY DEF PauseState
<1>5. MaskIsCurrent BY DEF MaskIsCurrent
<1>6. SignalInHand BY DEF SignalInHand
<1>7. QED BY <1>1, <1>2, <1>3, <1>4, <1>5, <1>6 DEF GInv

\* A step of one thread on its own records: it is enough to look at what these become.
LEMMA OwnStep ==
    ASSUME GInv, NEW t \in SigThreads,
           NEW g \in SigRecord, NEW r \in RunRecord, NEW a \in AtRecord,
           sig' = [sig EXCEPT ![t] = g], run' = [run EXCEPT ![t] = r], at' = [at EXCEPT ![t] = a],
           usr' \in Actions, shared' \in SharedRecord, UNCHANGED sender,
           Covered(g),
           a.pc = "deliver" => a.signo \in Signals,
           a.pc = "pause" => r.state \in {"INTERRUPTIBLE", "RUNNING"},
           a.pc = "paused" /\ ~r.queued => r.state = "INTERRUPTIBLE" /\ g.pending \ g.mask = {}
    PROVE  GInv'
<1>1. SigTypeOK' BY DEF GInv, SigTypeOK, SharedRecord
<1>2. /\ sig'[t] = g /\ run'[t] = r /\ at'[t] = a
      /\ \A u \in SigThreads \ {t} : sig'[u] = sig[u] /\ run'[u] = run[u] /\ at'[u] = at[u]
    BY DEF GInv, SigTypeOK
<1>3. FlagCoversPending' BY <1>2 DEF GInv, FlagCoversPending, Alive, Covered
<1>4. PauseIsWoken' BY <1>2 DEF GInv, PauseIsWoken
<1>5. PauseState' BY <1>2 DEF GInv, PauseState
<1>6. MaskIsCurrent' BY <1>2 DEF GInv, MaskIsCurrent
<1>7. SignalInHand' BY <1>2 DEF GInv, SignalInHand
<1>8. QED BY <1>1, <1>3, <1>4, <1>5, <1>6, <1>7 DEF GInv

\* The same for a step that leaves the state of the thread alone.
LEMMA OwnSigStep ==
    ASSUME GInv, NEW t \in SigThreads, NEW g \in SigRecord, NEW a \in AtRecord,
           sig' = [sig EXCEPT ![t] = g], at' = [at EXCEPT ![t] = a], UNCHANGED run,
           usr' \in Actions, shared' \in SharedRecord, UNCHANGED sender,
           Covered(g), a.pc \notin {"pause", "paused"}, a.pc = "deliver" => a.signo \in Signals
    PROVE  GInv'
<1>1. run[t] \in RunRecord /\ run' = [run EXCEPT ![t] = run[t]] BY DEF GInv, SigTypeOK
<1>2. QED BY <1>1, OwnStep

\* The same for a step that leaves its signals alone.
LEMMA OwnRunStep ==
    ASSUME GInv, NEW t \in SigThreads, at[t].pc # "gone", NEW r \in RunRecord, NEW a \in AtRecord,
           UNCHANGED <<usr, sig, shared, sender>>,
           run' = [run EXCEPT ![t] = r], at' = [at EXCEPT ![t] = a], a.pc # "deliver",
           a.pc = "pause" => r.state \in {"INTERRUPTIBLE", "RUNNING"},
           a.pc = "paused" /\ ~r.queued =>
               r.state = "INTERRUPTIBLE" /\ sig[t].pending \ sig[t].mask = {}
    PROVE  GInv'
<1>1. sig[t] \in SigRecord /\ sig' = [sig EXCEPT ![t] = sig[t]] BY DEF GInv, SigTypeOK
<1>2. Covered(sig[t]) BY DEF GInv, FlagCoversPending, Covered, Alive
<1>3. usr' \in Actions /\ shared' \in SharedRecord BY DEF GInv, SigTypeOK, SharedRecord
<1>4. QED BY <1>1, <1>2, <1>3, OwnStep

\* What To(t, pc) leaves in the thread's place.
LEMMA ToPlace ==
    ASSUME SigTypeOK, NEW t \in SigThreads, NEW pc, To(t, pc),
           pc \in {"user", "handle", "pause", "paused", "suspend", "wait", "woken", "sigwait",
                   "stop", "deliver", "finish", "exit", "panic", "gone"}
    PROVE  \E a \in AtRecord : at' = [at EXCEPT ![t] = a] /\ a.pc = pc
<1> DEFINE a == [at[t] EXCEPT !.pc = pc]
<1>1. at[t] \in AtRecord BY DEF SigTypeOK
<1>2. a \in AtRecord /\ a.pc = pc BY <1>1 DEF AtRecord
<1>3. at' = [at EXCEPT ![t] = a] BY <1>1 DEF To, SigTypeOK, AtRecord
<1> HIDE DEF a
<1>4. QED BY <1>2, <1>3

\* What a thread that runs knows of its own records.
LEMMA OwnTypes ==
    ASSUME GInv, NEW t \in SigThreads
    PROVE  /\ SigTypeOK /\ sig[t] \in SigRecord /\ run[t] \in RunRecord /\ at[t] \in AtRecord
           /\ shared \in SharedRecord /\ usr \in Actions
           /\ at[t].pc # "gone" => Covered(sig[t])
BY DEF GInv, SigTypeOK, SharedRecord, FlagCoversPending, Covered, Alive

-----------------------------------------------------------------------------
(* The senders                                                              *)

LEMMA SendType ==
    ASSUME GInv, MaySend, NEW how \in {"thread", "one", "all"}, NEW t \in SigThreads,
           NEW s \in Signals, NEW mask \in SUBSET Signals, Send(how, t, s, mask)
    PROVE  /\ sender' \in [how : {"none", "thread", "one", "all"}, to : SigThreads,
                           signo : Signals \cup {0}, mask : SUBSET Signals, sent : 0..MaxSends]
           /\ sender'.how = how /\ sender'.to = t /\ sender'.mask = mask
BY SignalAssumption DEF GInv, SigTypeOK, Send, MaySend

LEMMA IdleType ==
    ASSUME NEW n \in 0..MaxSends
    PROVE  Idle(n) \in [how : {"none", "thread", "one", "all"}, to : SigThreads,
                        signo : Signals \cup {0}, mask : SUBSET Signals, sent : 0..MaxSends]
BY SignalAssumption DEF Idle

\* With nobody sending, who sleeps in pause() has nothing of its own to take.
LEMMA NobodyOwed ==
    ASSUME GInv, sender.how # "thread"
    PROVE  \A t \in SigThreads : at[t].pc = "paused" /\ ~run[t].queued => sig[t].pending \ sig[t].mask = {}
BY DEF GInv, PauseIsWoken

LEMMA ThreadSendKeeps ==
    ASSUME GInv, NEW t \in SigThreads, NEW s \in ToThread, ThreadSend(t, s)
    PROVE  GInv'
<1>1. MaySend /\ SendLocked(t, s) /\ Send("thread", t, s, sig[t].mask) /\ UNCHANGED <<usr, shared, run, at>>
    BY DEF ThreadSend
<1>2. s \in Signals BY SignalAssumption
<1>3. sig[t] \in SigRecord /\ shared \in SharedRecord /\ SigTypeOK BY OwnTypes
<1>4. PICK q \in IF HasInfo(s) THEN Enqueued(sig[t].queue) ELSE {sig[t].queue} :
        sig' = [sig EXCEPT ![t] = Recalc([sig[t] EXCEPT !.pending = @ \cup {s}, !.queue = q], shared)]
    BY <1>1 DEF SendLocked
<1>5. q \in 0..MaxInfo BY <1>3, EnqueuedType DEF SigRecord
<1> DEFINE h == [sig[t] EXCEPT !.pending = @ \cup {s}, !.queue = q]
           g == Recalc(h, shared)
<1>6. h \in SigRecord /\ h.mask = sig[t].mask BY <1>2, <1>3, <1>5 DEF SigRecord
<1>7. sig' = [sig EXCEPT ![t] = g] BY <1>4
<1> HIDE DEF h
<1>8. g \in SigRecord /\ Covered(g) /\ g.mask = sig[t].mask BY <1>3, <1>6, RecalcFields
<1> HIDE DEF g
<1>9. /\ sig' \in [SigThreads -> SigRecord] /\ sig'[t] = g
      /\ \A u \in SigThreads \ {t} : sig'[u] = sig[u]
    BY <1>3, <1>7, <1>8 DEF SigTypeOK
<1>10. sig[t].mask \in SUBSET Signals BY <1>3 DEF SigRecord
<1>11. /\ sender' \in [how : {"none", "thread", "one", "all"}, to : SigThreads,
                       signo : Signals \cup {0}, mask : SUBSET Signals, sent : 0..MaxSends]
       /\ sender'.how = "thread" /\ sender'.to = t /\ sender'.mask = sig[t].mask
    BY <1>1, <1>2, <1>10, SendType
<1>12. \A u \in SigThreads : at[u].pc = "paused" /\ ~run[u].queued => sig[u].pending \ sig[u].mask = {}
    BY <1>1, NobodyOwed DEF MaySend
<1>13. SigTypeOK' BY <1>1, <1>3, <1>9, <1>11 DEF SigTypeOK
<1>14. FlagCoversPending' BY <1>1, <1>8, <1>9 DEF GInv, FlagCoversPending, Alive, Covered
<1>15. PauseIsWoken' BY <1>1, <1>9, <1>11, <1>12 DEF PauseIsWoken
<1>16. PauseState' BY <1>1 DEF GInv, PauseState
<1>17. MaskIsCurrent' BY <1>1, <1>8, <1>9, <1>11, <1>12 DEF MaskIsCurrent
<1>18. SignalInHand' BY <1>1 DEF GInv, SignalInHand
<1>19. QED BY <1>13, <1>14, <1>15, <1>16, <1>17, <1>18 DEF GInv

LEMMA ThreadSendWakeKeeps ==
    ASSUME GInv, ThreadSendWake
    PROVE  GInv'
<1> DEFINE t == sender.to
           s == sender.signo
           r1 == IF s \in SigStop \ sender.mask THEN Wake(run, t, {"INTERRUPTIBLE"}) ELSE run
           r2 == IF s \in (SigCont \ sender.mask) \cup SigTerm THEN Wake(r1, t, {"STOPPED"}) ELSE r1
           r3 == IF sig[t].pending \ sender.mask # {} THEN Wake(r2, t, {"INTERRUPTIBLE"}) ELSE r2
<1>1. /\ sender.how = "thread" /\ sender' = Idle(sender.sent) /\ UNCHANGED <<usr, shared, at>>
      /\ sig' = [sig EXCEPT ![t].killed = @ \/ s \in SigTerm] /\ run' = r3
    BY DEF ThreadSendWake
<1>2. t \in SigThreads /\ SigTypeOK /\ sender.sent \in 0..MaxSends BY DEF GInv, SigTypeOK
<1>3. /\ sig' \in [SigThreads -> SigRecord]
      /\ \A u \in SigThreads : /\ sig'[u].pending = sig[u].pending /\ sig'[u].mask = sig[u].mask
                               /\ sig'[u].flag = sig[u].flag
    <2> DEFINE g == [sig[t] EXCEPT !.killed = @ \/ s \in SigTerm]
    <2>1. sig[t] \in SigRecord /\ sig' = [sig EXCEPT ![t] = g] BY <1>1, <1>2 DEF SigTypeOK
    <2>2. (sig[t].killed \/ s \in SigTerm) \in BOOLEAN OBVIOUS
    <2>3. g \in SigRecord /\ g.pending = sig[t].pending /\ g.mask = sig[t].mask /\ g.flag = sig[t].flag
        BY <2>1, <2>2 DEF SigRecord
    <2> HIDE DEF g
    <2>4. QED BY <1>2, <2>1, <2>3 DEF SigTypeOK
<1>4. /\ r1 \in [SigThreads -> RunRecord] /\ \A u \in SigThreads \ {t} : r1[u] = run[u]
      /\ r1[t] = run[t] \/ r1[t] = [state |-> "RUNNING", queued |-> TRUE]
    BY <1>2, WakeEffect DEF SigTypeOK
<1>5. /\ r2 \in [SigThreads -> RunRecord] /\ \A u \in SigThreads \ {t} : r2[u] = run[u]
      /\ r2[t] = run[t] \/ r2[t] = [state |-> "RUNNING", queued |-> TRUE]
    <2> HIDE DEF r1
    <2>1. /\ Wake(r1, t, {"STOPPED"}) \in [SigThreads -> RunRecord]
          /\ \A u \in SigThreads \ {t} : Wake(r1, t, {"STOPPED"})[u] = r1[u]
          /\ \/ Wake(r1, t, {"STOPPED"})[t] = r1[t]
             \/ Wake(r1, t, {"STOPPED"})[t] = [state |-> "RUNNING", queued |-> TRUE]
        BY <1>2, <1>4, WakeEffect
    <2> HIDE DEF t, s
    <2>2. QED BY <1>4, <2>1
<1>6. /\ r3 \in [SigThreads -> RunRecord] /\ \A u \in SigThreads \ {t} : r3[u] = run[u]
      /\ r3[t] = run[t] \/ r3[t] = [state |-> "RUNNING", queued |-> TRUE]
      /\ sig[t].pending \ sender.mask # {} /\ run[t].state = "INTERRUPTIBLE" => r3[t].queued
    <2> HIDE DEF r2
    <2>1. /\ Wake(r2, t, {"INTERRUPTIBLE"}) \in [SigThreads -> RunRecord]
          /\ \A u \in SigThreads \ {t} : Wake(r2, t, {"INTERRUPTIBLE"})[u] = r2[u]
          /\ \/ Wake(r2, t, {"INTERRUPTIBLE"})[t] = r2[t]
             \/ Wake(r2, t, {"INTERRUPTIBLE"})[t] = [state |-> "RUNNING", queued |-> TRUE]
          /\ r2[t].state = "INTERRUPTIBLE" => Wake(r2, t, {"INTERRUPTIBLE"})[t] = [state |-> "RUNNING", queued |-> TRUE]
        BY <1>2, <1>5, WakeEffect
    <2> HIDE DEF t, s
    <2>2. QED BY <1>5, <2>1
<1> HIDE DEF r1, r2, r3, s
<1>7. sender' \in [how : {"none", "thread", "one", "all"}, to : SigThreads,
                   signo : Signals \cup {0}, mask : SUBSET Signals, sent : 0..MaxSends]
    BY <1>1, <1>2, IdleType
<1>8. ASSUME NEW u \in SigThreads, at[u].pc = "paused", ~run'[u].queued
      PROVE  sig[u].pending \ sig[u].mask = {} /\ run'[u] = run[u]
    <2>1. CASE u # t BY <1>1, <1>6, <1>8, <2>1 DEF GInv, PauseIsWoken
    <2>2. CASE u = t
        <3>1. run'[t] = run[t] BY <1>1, <1>6, <1>8, <2>2
        <3>2. run[t].state = "INTERRUPTIBLE" BY <1>2, <1>8, <2>2, <3>1 DEF GInv, PauseState
        <3>3. sig[t].pending \ sender.mask = {} BY <1>1, <1>6, <1>8, <2>2, <3>2
        <3>4. QED BY <1>2, <1>8, <2>2, <3>1, <3>3 DEF GInv, MaskIsCurrent
    <2>3. QED BY <2>1, <2>2
<1>9. SigTypeOK' BY <1>1, <1>2, <1>3, <1>6, <1>7 DEF SigTypeOK
<1>10. FlagCoversPending' BY <1>1, <1>3 DEF GInv, FlagCoversPending, Alive
<1>11. PauseIsWoken' BY <1>1, <1>3, <1>8 DEF PauseIsWoken
<1>12. PauseState'
    <2>1. \A u \in SigThreads : run'[u] = run[u] \/ run'[u] = [state |-> "RUNNING", queued |-> TRUE]
        BY <1>1, <1>6
    <2>2. QED BY <1>1, <2>1 DEF GInv, PauseState
<1>13. MaskIsCurrent' BY <1>1, <1>3, <1>8 DEF MaskIsCurrent
<1>14. SignalInHand' BY <1>1 DEF GInv, SignalInHand
<1>15. QED BY <1>9, <1>10, <1>11, <1>12, <1>13, <1>14 DEF GInv

\* A step of the group's sender: pending sets only shrink, masks stay, flags only rise,
\* and threads are only woken.
LEMMA GroupStep ==
    ASSUME GInv, sender.how # "thread", UNCHANGED <<usr, at>>, shared' \in SharedRecord,
           sig' \in [SigThreads -> SigRecord], run' \in [SigThreads -> RunRecord],
           sender' \in [how : {"none", "thread", "one", "all"}, to : SigThreads,
                        signo : Signals \cup {0}, mask : SUBSET Signals, sent : 0..MaxSends],
           \A t \in SigThreads : /\ sig'[t].pending \subseteq sig[t].pending
                                 /\ sig'[t].mask = sig[t].mask /\ (sig[t].flag => sig'[t].flag),
           \A t \in SigThreads : run'[t] = run[t] \/ run'[t] = [state |-> "RUNNING", queued |-> TRUE]
    PROVE  GInv'
<1>1. \A t \in SigThreads : at'[t].pc = "paused" /\ ~run'[t].queued => sig'[t].pending \ sig'[t].mask = {}
    BY NobodyOwed
<1>2. SigTypeOK' BY DEF GInv, SigTypeOK, SharedRecord
<1>3. FlagCoversPending'
    <2>1. \A t \in SigThreads : sig'[t].pending \ sig'[t].mask \subseteq sig[t].pending \ sig[t].mask
        OBVIOUS
    <2>2. QED BY <2>1 DEF GInv, FlagCoversPending, Alive
<1>4. PauseIsWoken' BY <1>1 DEF PauseIsWoken
<1>5. PauseState' BY DEF GInv, PauseState
<1>6. MaskIsCurrent' BY <1>1 DEF MaskIsCurrent
<1>7. SignalInHand' BY DEF GInv, SignalInHand
<1>8. QED BY <1>2, <1>3, <1>4, <1>5, <1>6, <1>7 DEF GInv

LEMMA GroupKillKeeps ==
    ASSUME GInv, GroupKill
    PROVE  GInv'
<1>1. /\ MaySend /\ UNCHANGED <<usr, shared, at>> /\ sender' = Idle(sender.sent + 1)
      /\ sig' = [t \in SigThreads |-> IF Alive(t) THEN [sig[t] EXCEPT !.killed = TRUE, !.flag = TRUE]
                                      ELSE sig[t]]
      /\ run' = [t \in SigThreads |-> IF Alive(t) THEN Wake(run, t, {"INTERRUPTIBLE", "STOPPED"})[t]
                                      ELSE run[t]]
    BY DEF GroupKill
<1>2. SigTypeOK BY DEF GInv
<1>3. /\ sig' \in [SigThreads -> SigRecord]
      /\ \A t \in SigThreads : /\ sig'[t].pending = sig[t].pending
                               /\ sig'[t].mask = sig[t].mask /\ (sig[t].flag => sig'[t].flag)
    <2> DEFINE g(t) == IF Alive(t) THEN [sig[t] EXCEPT !.killed = TRUE, !.flag = TRUE] ELSE sig[t]
    <2>1. sig' = [t \in SigThreads |-> g(t)] BY <1>1
    <2>2. ASSUME NEW t \in SigThreads
          PROVE  /\ g(t) \in SigRecord /\ g(t).pending = sig[t].pending
                 /\ g(t).mask = sig[t].mask /\ (sig[t].flag => g(t).flag)
        <3>1. sig[t] \in SigRecord BY <1>2 DEF SigTypeOK
        <3>2. QED BY <3>1 DEF SigRecord
    <2> HIDE DEF g
    <2>3. QED BY <2>1, <2>2
<1>4. /\ run' \in [SigThreads -> RunRecord]
      /\ \A t \in SigThreads : run'[t] = run[t] \/ run'[t] = [state |-> "RUNNING", queued |-> TRUE]
    <2> DEFINE g(t) == IF Alive(t) THEN Wake(run, t, {"INTERRUPTIBLE", "STOPPED"})[t] ELSE run[t]
    <2>1. run' = [t \in SigThreads |-> g(t)] BY <1>1
    <2>2. ASSUME NEW t \in SigThreads
          PROVE  g(t) \in RunRecord /\ (g(t) = run[t] \/ g(t) = [state |-> "RUNNING", queued |-> TRUE])
        <3>1. run \in [SigThreads -> RunRecord] BY <1>2 DEF SigTypeOK
        <3>2. QED BY <3>1, WakeEffect
    <2> HIDE DEF g
    <2>3. QED BY <2>1, <2>2
<1>6. sender.sent + 1 \in 0..MaxSends
    <2>1. sender.sent \in 0..MaxSends /\ sender.sent < MaxSends BY <1>1, <1>2 DEF MaySend, SigTypeOK
    <2>2. QED BY <2>1, SignalAssumption
<1>7. sender' \in [how : {"none", "thread", "one", "all"}, to : SigThreads,
                   signo : Signals \cup {0}, mask : SUBSET Signals, sent : 0..MaxSends]
    BY <1>1, <1>6, IdleType
<1>8. shared' \in SharedRecord BY <1>1, <1>2 DEF SigTypeOK, SharedRecord
<1>9. sender.how # "thread" BY <1>1 DEF MaySend
<1>10. QED BY <1>1, <1>3, <1>4, <1>7, <1>8, <1>9, GroupStep

LEMMA GroupSendKeeps ==
    ASSUME GInv, NEW s \in ToGroup, GroupSend(s)
    PROVE  GInv'
<1> DEFINE cancels == IF s \in SigCont THEN SigStop ELSE IF s \in SigStop THEN SigCont ELSE {}
           sh == [shared EXCEPT !.pending = @ \ cancels]
           sg == [t \in SigThreads |-> [sig[t] EXCEPT !.pending = @ \ cancels]]
<1>1. MaySend /\ UNCHANGED <<usr, run, at>> BY DEF GroupSend
<1>2. SigTypeOK /\ s \in Signals /\ shared \in SharedRecord BY SignalAssumption DEF GInv, SigTypeOK, SharedRecord
<1>3. /\ sg \in [SigThreads -> SigRecord]
      /\ \A t \in SigThreads : /\ sg[t].pending \subseteq sig[t].pending
                               /\ sg[t].mask = sig[t].mask /\ sg[t].flag = sig[t].flag
    <2> HIDE DEF cancels
    <2> DEFINE g(t) == [sig[t] EXCEPT !.pending = @ \ cancels]
    <2>1. sg = [t \in SigThreads |-> g(t)] OBVIOUS
    <2>2. ASSUME NEW t \in SigThreads
          PROVE  /\ g(t) \in SigRecord /\ g(t).pending \subseteq sig[t].pending
                 /\ g(t).mask = sig[t].mask /\ g(t).flag = sig[t].flag
        <3>1. sig[t] \in SigRecord BY <1>2 DEF SigTypeOK
        <3>2. QED BY <3>1 DEF SigRecord
    <2> HIDE DEF g, sg
    <2>3. QED BY <2>1, <2>2
<1>4. sh \in SharedRecord
    <2> HIDE DEF cancels
    <2>1. QED BY <1>2 DEF SharedRecord
<1>5. \/ shared' = sh /\ sig' = sg /\ sender' = Idle(sender.sent + 1)
      \/ \E q \in IF HasInfo(s) THEN Enqueued(sh.queue) ELSE {sh.queue} :
            /\ shared' = [pending |-> sh.pending \cup {s}, queue |-> q]
            /\ \/ Send("all", main, s, {}) /\ sig' = sg
               \/ \E t \in PickThread(s) : Send("one", t, s, {}) /\ sig' = [sg EXCEPT ![t].flag = TRUE]
    BY DEF GroupSend
<1>6. sender.how # "thread" BY <1>1 DEF MaySend
<1>7. run' \in [SigThreads -> RunRecord] /\ \A t \in SigThreads : run'[t] = run[t]
    BY <1>1, <1>2 DEF SigTypeOK
<1> HIDE DEF cancels, sh, sg
<1>8. CASE shared' = sh /\ sig' = sg /\ sender' = Idle(sender.sent + 1)
    <2>1. sender.sent + 1 \in 0..MaxSends BY <1>1, <1>2, SignalAssumption DEF MaySend, SigTypeOK
    <2>2. sender' \in [how : {"none", "thread", "one", "all"}, to : SigThreads,
                       signo : Signals \cup {0}, mask : SUBSET Signals, sent : 0..MaxSends]
        BY <1>8, <2>1, IdleType
    <2>3. QED BY <1>1, <1>3, <1>4, <1>6, <1>7, <1>8, <2>2, GroupStep
<1>9. ASSUME NEW q \in IF HasInfo(s) THEN Enqueued(sh.queue) ELSE {sh.queue},
             shared' = [pending |-> sh.pending \cup {s}, queue |-> q]
      PROVE  shared' \in SharedRecord
    <2>1. q \in 0..MaxInfo BY <1>4, EnqueuedType DEF SharedRecord
    <2>2. QED BY <1>2, <1>4, <1>9, <2>1 DEF SharedRecord
<1>10. CASE shared' \in SharedRecord /\ Send("all", main, s, {}) /\ sig' = sg
    <2>1. sender' \in [how : {"none", "thread", "one", "all"}, to : SigThreads,
                       signo : Signals \cup {0}, mask : SUBSET Signals, sent : 0..MaxSends]
        BY <1>1, <1>2, <1>10, SendType, SignalAssumption
    <2>2. QED BY <1>1, <1>3, <1>6, <1>7, <1>10, <2>1, GroupStep
<1>11. ASSUME NEW t \in PickThread(s), shared' \in SharedRecord, Send("one", t, s, {}),
              sig' = [sg EXCEPT ![t].flag = TRUE]
       PROVE  GInv'
    <2>1. t \in SigThreads BY SignalAssumption DEF PickThread
    <2>2. sender' \in [how : {"none", "thread", "one", "all"}, to : SigThreads,
                       signo : Signals \cup {0}, mask : SUBSET Signals, sent : 0..MaxSends]
        BY <1>1, <1>2, <1>11, <2>1, SendType
    <2>3. /\ sig' \in [SigThreads -> SigRecord]
          /\ \A u \in SigThreads : /\ sig'[u].pending = sg[u].pending /\ sig'[u].mask = sg[u].mask
                                   /\ (sg[u].flag => sig'[u].flag)
        BY <1>3, <1>11, <2>1 DEF SigRecord
    <2>4. QED BY <1>1, <1>3, <1>6, <1>7, <1>11, <2>2, <2>3, GroupStep
<1>12. QED BY <1>5, <1>8, <1>9, <1>10, <1>11

LEMMA GroupSendWakeKeeps ==
    ASSUME GInv, GroupSendWake
    PROVE  GInv'
<1>1. /\ sender.how \in {"all", "one"} /\ sender' = Idle(sender.sent) /\ UNCHANGED <<usr, shared, at>>
      /\ SigTypeOK
    BY DEF GroupSendWake, GInv
<1>2. sender' \in [how : {"none", "thread", "one", "all"}, to : SigThreads,
                   signo : Signals \cup {0}, mask : SUBSET Signals, sent : 0..MaxSends]
    BY <1>1, IdleType DEF SigTypeOK
<1>3. shared' \in SharedRecord /\ run \in [SigThreads -> RunRecord] /\ sender.to \in SigThreads
    BY <1>1 DEF SigTypeOK, SharedRecord
<1>4. CASE sender.how = "all"
    <2>1. /\ sig' = [t \in SigThreads |-> [sig[t] EXCEPT !.flag = @ \/ Alive(t)]]
          /\ run' = [t \in SigThreads |-> Wake(run, t, {"STOPPED", "INTERRUPTIBLE"})[t]]
        BY <1>4 DEF GroupSendWake
    <2>2. \A t \in SigThreads : Alive(t) \in BOOLEAN BY DEF Alive
    <2>3. /\ sig' \in [SigThreads -> SigRecord]
          /\ \A t \in SigThreads : /\ sig'[t].pending = sig[t].pending /\ sig'[t].mask = sig[t].mask
                                   /\ (sig[t].flag => sig'[t].flag)
        <3> DEFINE g(t) == [sig[t] EXCEPT !.flag = @ \/ Alive(t)]
        <3>1. sig' = [t \in SigThreads |-> g(t)] BY <2>1
        <3>2. ASSUME NEW t \in SigThreads
              PROVE  /\ g(t) \in SigRecord /\ g(t).pending = sig[t].pending
                     /\ g(t).mask = sig[t].mask /\ (sig[t].flag => g(t).flag)
            <4>1. sig[t] \in SigRecord BY <1>1 DEF SigTypeOK
            <4>2. (sig[t].flag \/ Alive(t)) \in BOOLEAN OBVIOUS
            <4>3. QED BY <4>1, <4>2 DEF SigRecord
        <3> HIDE DEF g
        <3>3. QED BY <3>1, <3>2
    <2>4. ASSUME NEW t \in SigThreads
          PROVE  /\ run'[t] \in RunRecord
                 /\ run'[t] = run[t] \/ run'[t] = [state |-> "RUNNING", queued |-> TRUE]
        <3>1. run'[t] = Wake(run, t, {"STOPPED", "INTERRUPTIBLE"})[t] BY <2>1
        <3>2. QED BY <3>1, <1>3, WakeEffect
    <2>5. run' \in [SigThreads -> RunRecord] BY <2>1, <2>4
    <2>6. QED BY <1>1, <1>2, <1>3, <2>3, <2>4, <2>5, GroupStep
<1>5. CASE sender.how = "one"
    <2> DEFINE states == {"INTERRUPTIBLE"} \cup IF sender.signo \in SigTerm THEN {"STOPPED"} ELSE {}
    <2>1. sig' = sig /\ run' = Wake(run, sender.to, states) BY <1>5 DEF GroupSendWake
    <2> HIDE DEF states
    <2>2. /\ run' \in [SigThreads -> RunRecord]
          /\ \A t \in SigThreads : run'[t] = run[t] \/ run'[t] = [state |-> "RUNNING", queued |-> TRUE]
        BY <1>3, <2>1, WakeEffect
    <2>3. sig' \in [SigThreads -> SigRecord] BY <1>1, <2>1 DEF SigTypeOK
    <2>4. QED BY <1>1, <1>2, <1>3, <2>1, <2>2, <2>3, GroupStep
<1>6. QED BY <1>1, <1>4, <1>5

-----------------------------------------------------------------------------
(* The threads                                                              *)

LEMMA PauseKeeps ==
    ASSUME GInv, NEW t \in SigThreads, Pause(t)
    PROVE  GInv'
<1>1. at[t].pc # "gone" BY DEF Pause, Calls, On
<1>2. SigTypeOK /\ run[t] \in RunRecord BY OwnTypes
<1>3. PICK a \in AtRecord : at' = [at EXCEPT ![t] = a] /\ a.pc = "pause"
    BY <1>2, ToPlace DEF Pause
<1> DEFINE r == [run[t] EXCEPT !.state = "INTERRUPTIBLE"]
<1>4. r \in RunRecord /\ r.state = "INTERRUPTIBLE" BY <1>2 DEF RunRecord
<1>5. run' = [run EXCEPT ![t] = r] BY <1>2 DEF Pause, SigTypeOK
<1> HIDE DEF r
<1>6. UNCHANGED <<usr, sig, shared, sender>> BY DEF Pause
<1>7. QED BY <1>1, <1>3, <1>4, <1>5, <1>6, OwnRunStep

LEMMA PauseCheckKeeps ==
    ASSUME GInv, NEW t \in SigThreads, PauseCheck(t)
    PROVE  GInv'
<1>1. /\ at[t].pc = "pause" /\ UNCHANGED <<usr, sig, shared, sender>>
      /\ run[t].state \in {"INTERRUPTIBLE", "RUNNING"}
    BY DEF PauseCheck, On, GInv, PauseState
<1>2. SigTypeOK /\ run[t] \in RunRecord /\ Covered(sig[t]) BY <1>1, OwnTypes
<1>3. CASE sig[t].flag
    <2>1. PICK a \in AtRecord : at' = [at EXCEPT ![t] = a] /\ a.pc = "handle"
        BY <1>2, <1>3, ToPlace DEF PauseCheck
    <2> DEFINE r == [run[t] EXCEPT !.state = "RUNNING"]
    <2>2. r \in RunRecord BY <1>2 DEF RunRecord
    <2>3. run' = [run EXCEPT ![t] = r] BY <1>2, <1>3 DEF PauseCheck, SigTypeOK
    <2> HIDE DEF r
    <2>4. QED BY <1>1, <2>1, <2>2, <2>3, OwnRunStep
<1>4. CASE ~sig[t].flag
    <2>1. PICK a \in AtRecord : at' = [at EXCEPT ![t] = a] /\ a.pc = "paused"
        BY <1>2, <1>4, ToPlace DEF PauseCheck
    <2> DEFINE r == [run[t] EXCEPT !.queued = run[t].state = "RUNNING"]
    <2>2. (run[t].state = "RUNNING") \in BOOLEAN OBVIOUS
    <2>3. r \in RunRecord /\ r.state = run[t].state /\ r.queued = (run[t].state = "RUNNING")
        BY <1>2, <2>2 DEF RunRecord
    <2>4. run' = [run EXCEPT ![t] = r] BY <1>2, <1>4 DEF PauseCheck, SigTypeOK, Slept
    <2> HIDE DEF r
    <2>5. sig[t].pending \ sig[t].mask = {} BY <1>2, <1>4 DEF Covered
    <2>6. QED BY <1>1, <2>1, <2>3, <2>4, <2>5, OwnRunStep
<1>5. QED BY <1>3, <1>4

\* The sleeps that do not look: sigsuspend, sigwait, and the stop.
LEMMA SleepKeeps ==
    ASSUME GInv, NEW t \in SigThreads,
           SigsuspendSleep(t) \/ SigwaitSleep(t) \/ StopSelf(t)
    PROVE  GInv'
<1>1. at[t].pc # "gone" /\ UNCHANGED <<usr, sig, shared, sender>>
    BY DEF SigsuspendSleep, SigwaitSleep, StopSelf, On
<1>2. SigTypeOK BY OwnTypes
<1>3. \E a \in AtRecord : at' = [at EXCEPT ![t] = a] /\ a.pc \in {"handle", "woken"}
    <2>1. CASE To(t, "handle") BY <1>2, <2>1, ToPlace
    <2>2. CASE To(t, "woken") BY <1>2, <2>2, ToPlace
    <2>3. QED BY <2>1, <2>2 DEF SigsuspendSleep, SigwaitSleep, StopSelf
<1>4. \E r \in RunRecord : run' = [run EXCEPT ![t] = r]
    BY DEF SigsuspendSleep, SigwaitSleep, StopSelf, RunRecord
<1>5. QED BY <1>1, <1>3, <1>4, OwnRunStep

LEMMA TrapKeeps ==
    ASSUME GInv, NEW t \in SigThreads, Trap(t)
    PROVE  GInv'
<1>1. at[t].pc # "gone" /\ UNCHANGED <<usr, sig, shared, run, sender>> BY DEF Trap, On
<1>2. SigTypeOK /\ run[t] \in RunRecord /\ run' = [run EXCEPT ![t] = run[t]]
    BY <1>1, OwnTypes DEF SigTypeOK
<1>3. PICK a \in AtRecord : at' = [at EXCEPT ![t] = a] /\ a.pc = "handle" BY <1>2, ToPlace DEF Trap
<1>4. QED BY <1>1, <1>2, <1>3, OwnRunStep

LEMMA SigactionKeeps ==
    ASSUME GInv, NEW t \in SigThreads, NEW act \in SigActs, Sigaction(t, act)
    PROVE  GInv'
<1> DEFINE g == IF act = "DFL" /\ SIGUSR1 \in sig[t].pending \ sig[t].mask
                THEN [sig[t] EXCEPT !.killed = TRUE] ELSE sig[t]
           h == [g EXCEPT !.pending = @ \ {SIGUSR1}, !.queue = 0]
<1>1. at[t].pc # "gone" /\ UNCHANGED <<run, sender>> BY DEF Sigaction, Calls, On
<1>2. SigTypeOK /\ sig[t] \in SigRecord /\ shared \in SharedRecord /\ Covered(sig[t])
    BY <1>1, OwnTypes
<1>3. PICK a \in AtRecord : at' = [at EXCEPT ![t] = a] /\ a.pc = "handle"
    BY <1>2, ToPlace DEF Sigaction
<1>4. usr' \in Actions BY SignalAssumption DEF Sigaction, Actions
<1>5. g \in SigRecord /\ Covered(g) BY <1>2 DEF SigRecord, Covered
<1>6. \/ /\ sig' = [sig EXCEPT ![t] = Recalc(h, shared)]
         /\ shared' = [pending |-> shared.pending \ {SIGUSR1}, queue |-> 0]
      \/ sig' = [sig EXCEPT ![t] = g] /\ UNCHANGED shared
    BY DEF Sigaction
<1> HIDE DEF g
<1>7. 0 \in 0..MaxInfo BY SignalAssumption
<1>8. h \in SigRecord BY <1>5, <1>7 DEF SigRecord
<1> HIDE DEF h
<1>9. Recalc(h, shared) \in SigRecord /\ Covered(Recalc(h, shared)) BY <1>2, <1>8, RecalcFields
<1>10. shared' \in SharedRecord BY <1>2, <1>6, <1>7 DEF SharedRecord
<1>11. QED BY <1>1, <1>3, <1>4, <1>5, <1>6, <1>9, <1>10, OwnSigStep

LEMMA SetMaskType ==
    ASSUME NEW g \in SigRecord, NEW m \in SUBSET Signals, shared \in SharedRecord
    PROVE  SetMask(g, m) \in SigRecord /\ Covered(SetMask(g, m))
<1> DEFINE h == [g EXCEPT !.mask = m \ Mandatory, !.saved = m \ Mandatory]
           g1 == Recalc(h, shared)
           k == (g1.pending \ g1.mask) \cap SigTerm # {}
<1>1. h \in SigRecord BY DEF SigRecord
<1>2. SetMask(g, m) = [g1 EXCEPT !.killed = @ \/ k] BY DEF SetMask
<1> HIDE DEF h
<1>3. g1 \in SigRecord /\ Covered(g1) BY <1>1, RecalcFields
<1> HIDE DEF g1
<1>4. (g1.killed \/ k) \in BOOLEAN OBVIOUS
<1>5. QED BY <1>2, <1>3, <1>4 DEF SigRecord, Covered

LEMMA SigprocmaskKeeps ==
    ASSUME GInv, NEW t \in SigThreads, NEW set \in SigMasks, Sigprocmask(t, set)
    PROVE  GInv'
<1>1. at[t].pc # "gone" /\ UNCHANGED <<usr, shared, run, sender>> BY DEF Sigprocmask, Calls, On
<1>2. SigTypeOK /\ sig[t] \in SigRecord /\ shared \in SharedRecord /\ usr \in Actions BY OwnTypes
<1>3. PICK a \in AtRecord : at' = [at EXCEPT ![t] = a] /\ a.pc = "handle"
    BY <1>2, ToPlace DEF Sigprocmask
<1>4. PICK m \in {set, sig[t].mask \cup set, sig[t].mask \ set} :
        sig' = [sig EXCEPT ![t] = SetMask(sig[t], m)]
    BY DEF Sigprocmask
<1>5. m \in SUBSET Signals BY <1>2, SignalAssumption DEF SigRecord
<1>6. SetMask(sig[t], m) \in SigRecord /\ Covered(SetMask(sig[t], m)) BY <1>2, <1>5, SetMaskType
<1>7. QED BY <1>1, <1>2, <1>3, <1>4, <1>6, OwnSigStep

LEMMA SigsuspendKeeps ==
    ASSUME GInv, NEW t \in SigThreads, NEW set \in SigMasks, Sigsuspend(t, set)
    PROVE  GInv'
<1> DEFINE g == [sig[t] EXCEPT !.saved = sig[t].mask, !.mask = set \ Mandatory]
           h == [sig[t] EXCEPT !.saved = sig[t].mask]
<1>1. at[t].pc # "gone" /\ UNCHANGED <<usr, shared, run, sender>> BY DEF Sigsuspend, Calls, On
<1>2. SigTypeOK /\ sig[t] \in SigRecord /\ shared \in SharedRecord /\ usr \in Actions BY OwnTypes
<1>3. set \in SUBSET Signals BY SignalAssumption
<1>4. g \in SigRecord /\ h \in SigRecord BY <1>2, <1>3 DEF SigRecord
<1>5. \/ sig' = [sig EXCEPT ![t] = Recalc(h, shared)] /\ To(t, "handle")
      \/ sig' = [sig EXCEPT ![t] = Recalc(g, shared)] /\ To(t, "suspend")
    BY DEF Sigsuspend
<1> HIDE DEF g, h
<1>6. \A x \in SigRecord : Recalc(x, shared) \in SigRecord /\ Covered(Recalc(x, shared))
    BY <1>2, RecalcFields
<1>7. \E a \in AtRecord : at' = [at EXCEPT ![t] = a] /\ a.pc \in {"handle", "suspend"}
    BY <1>2, <1>5, ToPlace
<1>8. QED BY <1>1, <1>2, <1>4, <1>5, <1>6, <1>7, OwnSigStep

LEMMA SigwaitKeeps ==
    ASSUME GInv, NEW t \in SigThreads, NEW set \in SigMasks, Sigwait(t, set)
    PROVE  GInv'
<1> DEFINE found == (sig[t].pending \cup shared.pending) \cap set
           s == CHOOSE x \in found : \A y \in found : x <= y
           h == [sig[t] EXCEPT !.mask = @ \ (set \cup Mandatory)]
           a == [UserMode EXCEPT !.pc = "wait", !.saved = sig[t].mask, !.set = set]
           b == [UserMode EXCEPT !.pc = "handle"]
<1>1. UNCHANGED <<usr, run, sender>> BY DEF Sigwait
<1>2. SigTypeOK /\ sig[t] \in SigRecord /\ shared \in SharedRecord /\ usr \in Actions BY OwnTypes
<1>3. set \in SUBSET Signals BY SignalAssumption
<1>4. /\ \/ sig' = [sig EXCEPT ![t] = Recalc(Dequeued(sig[t], s), shared)] /\ UNCHANGED shared
         \/ shared' = TgDequeued(s) /\ sig' = [sig EXCEPT ![t] = Recalc(sig[t], TgDequeued(s))]
         \/ sig' = [sig EXCEPT ![t] = Recalc(h, shared)] /\ UNCHANGED shared
      /\ at' = [at EXCEPT ![t] = a] \/ at' = [at EXCEPT ![t] = b]
    BY DEF Sigwait
<1>5. h \in SigRecord BY <1>2 DEF SigRecord
<1>6. a \in AtRecord /\ b \in AtRecord /\ a.pc = "wait" /\ b.pc = "handle"
    BY <1>2, <1>3 DEF SigRecord, AtRecord, UserMode, Actions
<1> HIDE DEF h, s, a, b
<1>7. Dequeued(sig[t], s) \in SigRecord /\ TgDequeued(s) \in SharedRecord
    BY <1>2, DequeuedOwn, DequeuedShared DEF TgDequeued
<1>8. \A x \in SigRecord, y \in SharedRecord : Recalc(x, y) \in SigRecord /\ Covered(Recalc(x, y))
    BY RecalcFields
<1>9. shared' \in SharedRecord /\ \E g \in SigRecord : sig' = [sig EXCEPT ![t] = g] /\ Covered(g)
    BY <1>2, <1>4, <1>5, <1>7, <1>8
<1>10. QED BY <1>1, <1>2, <1>4, <1>6, <1>9, OwnSigStep

LEMMA SigwaitRestoreKeeps ==
    ASSUME GInv, NEW t \in SigThreads, SigwaitRestore(t)
    PROVE  GInv'
<1> DEFINE h == [sig[t] EXCEPT !.mask = at[t].saved]
           a == IF sig[t].killed THEN [UserMode EXCEPT !.pc = "handle"]
                ELSE [UserMode EXCEPT !.pc = "sigwait", !.set = at[t].set]
<1>1. /\ UNCHANGED <<usr, shared, run, sender>>
      /\ sig' = [sig EXCEPT ![t] = Recalc(h, shared)] /\ at' = [at EXCEPT ![t] = a]
    BY DEF SigwaitRestore
<1>2. /\ SigTypeOK /\ sig[t] \in SigRecord /\ at[t] \in AtRecord
      /\ shared \in SharedRecord /\ usr \in Actions
    BY OwnTypes
<1>3. h \in SigRecord BY <1>2 DEF SigRecord, AtRecord
<1>4. a \in AtRecord /\ a.pc \in {"handle", "sigwait"} BY <1>2 DEF AtRecord, UserMode, Actions
<1> HIDE DEF h, a
<1>5. Recalc(h, shared) \in SigRecord /\ Covered(Recalc(h, shared)) BY <1>2, <1>3, RecalcFields
<1>6. QED BY <1>1, <1>2, <1>4, <1>5, OwnSigStep

LEMMA SigreturnKeeps ==
    ASSUME GInv, NEW t \in SigThreads, Sigreturn(t)
    PROVE  GInv'
<1> DEFINE f == sig[t].frames
           rest == SubSeq(f, 1, Len(f) - 1)
           mask == IF rest = <<>> THEN sig[t].saved ELSE TopFrame(sig[t]) \cup sig[t].saved
           h == [sig[t] EXCEPT !.frames = rest, !.mask = mask \ Mandatory]
<1>1. at[t].pc # "gone" /\ UNCHANGED <<usr, shared, run, sender>> BY DEF Sigreturn, Calls, On
<1>2. /\ SigTypeOK /\ sig[t] \in SigRecord /\ shared \in SharedRecord /\ usr \in Actions
      /\ Covered(sig[t])
    BY <1>1, OwnTypes
<1>3. f \in Seq(SUBSET Signals) /\ f # <<>> BY <1>2 DEF Sigreturn, SigRecord
<1>4. rest \in Seq(SUBSET Signals) /\ f[Len(f)] \in SUBSET Signals
    <2> HIDE DEF f
    <2>1. Len(f) \in Nat \ {0} BY <1>3
    <2>2. QED BY <1>3, <2>1
<1>5. mask \in SUBSET Signals BY <1>2, <1>4 DEF TopFrame, SigRecord
<1>6. \/ sig' = [sig EXCEPT ![t] = Recalc(h, shared)] /\ To(t, "handle")
      \/ sig' = sig /\ To(t, "exit")
    BY DEF Sigreturn, SignalRestore
<1> HIDE DEF rest, mask
<1>7. h \in SigRecord BY <1>2, <1>4, <1>5 DEF SigRecord
<1> HIDE DEF h
<1>8. Recalc(h, shared) \in SigRecord /\ Covered(Recalc(h, shared)) BY <1>2, <1>7, RecalcFields
<1>9. \E g \in SigRecord : sig' = [sig EXCEPT ![t] = g] /\ Covered(g)
    <2>1. sig = [sig EXCEPT ![t] = sig[t]] BY <1>2 DEF SigTypeOK
    <2>2. QED BY <1>2, <1>6, <1>8, <2>1
<1>10. \E a \in AtRecord : at' = [at EXCEPT ![t] = a] /\ a.pc \in {"handle", "exit"}
    BY <1>2, <1>6, ToPlace
<1>11. QED BY <1>1, <1>2, <1>9, <1>10, OwnSigStep

\* handle_signal drops stop or continue signals from both sets.
LEMMA WithoutEffect ==
    ASSUME NEW t \in SigThreads, NEW drop, sig[t] \in SigRecord, shared \in SharedRecord, Without(t, drop)
    PROVE  shared' \in SharedRecord /\ \E g \in SigRecord : sig' = [sig EXCEPT ![t] = g] /\ Covered(g)
<1> DEFINE h == [sig[t] EXCEPT !.pending = @ \ drop]
           y == [shared EXCEPT !.pending = @ \ drop]
<1>1. h \in SigRecord BY DEF SigRecord
<1>2. y \in SharedRecord BY DEF SharedRecord
<1>3. shared' = y /\ sig' = [sig EXCEPT ![t] = Recalc(h, y)] BY DEF Without
<1> HIDE DEF h, y
<1>4. QED BY <1>1, <1>2, <1>3, RecalcFields

LEMMA TakeSignalEffect ==
    ASSUME SigTypeOK, NEW t \in SigThreads, NEW s \in Signals, sig[t] \in SigRecord,
           shared \in SharedRecord, Covered(sig[t]), TakeSignal(t, s)
    PROVE  /\ shared' \in SharedRecord
           /\ \E g \in SigRecord : sig' = [sig EXCEPT ![t] = g] /\ Covered(g)
           /\ \E a \in AtRecord : at' = [at EXCEPT ![t] = a] /\ (a.pc = "panic" \/ (a.pc = "deliver" /\ a.signo = s))
<1> DEFINE own == s \in sig[t].pending
           h == IF own THEN Dequeued(sig[t], s) ELSE sig[t]
           y == IF own THEN shared ELSE TgDequeued(s)
           a == [at[t] EXCEPT !.pc = "deliver", !.signo = s, !.act = usr]
<1>1. \/ To(t, "panic") /\ UNCHANGED <<sig, shared>>
      \/ /\ shared' = y /\ sig' = [sig EXCEPT ![t] = Recalc(h, y)]
         /\ at' = [at EXCEPT ![t].pc = "deliver", ![t].signo = s, ![t].act = usr]
    BY DEF TakeSignal
<1>2. h \in SigRecord /\ y \in SharedRecord BY DequeuedOwn, DequeuedShared DEF TgDequeued
<1>3. at[t] \in AtRecord /\ usr \in Actions BY DEF SigTypeOK
<1>4. a \in AtRecord /\ a.pc = "deliver" /\ a.signo = s BY <1>3 DEF AtRecord
<1>5. CASE To(t, "panic") /\ UNCHANGED <<sig, shared>>
    <2>1. sig' = [sig EXCEPT ![t] = sig[t]] BY <1>5 DEF SigTypeOK
    <2>2. \E x \in AtRecord : at' = [at EXCEPT ![t] = x] /\ x.pc = "panic" BY <1>5, ToPlace
    <2> HIDE DEF a, h, y
    <2>3. shared' \in SharedRecord BY <1>5
    <2>4. \E g \in SigRecord : sig' = [sig EXCEPT ![t] = g] /\ Covered(g) BY <2>1
    <2>5. \E x \in AtRecord : at' = [at EXCEPT ![t] = x] /\ (x.pc = "panic" \/ (x.pc = "deliver" /\ x.signo = s))
        BY <2>2
    <2>6. QED BY <2>3, <2>4, <2>5
<1>6. CASE /\ shared' = y /\ sig' = [sig EXCEPT ![t] = Recalc(h, y)]
           /\ at' = [at EXCEPT ![t].pc = "deliver", ![t].signo = s, ![t].act = usr]
    <2>1. at' = [at EXCEPT ![t] = a] BY <1>3, <1>6 DEF SigTypeOK, AtRecord
    <2> HIDE DEF h, y, a
    <2>2. QED BY <1>2, <1>4, <1>6, <2>1, RecalcFields
<1>7. QED BY <1>1, <1>5, <1>6

LEMMA HandleSignalKeeps ==
    ASSUME GInv, NEW t \in SigThreads, HandleSignal(t)
    PROVE  GInv'
<1> DEFINE masked == (sig[t].pending \cup shared.pending) \ sig[t].mask
           s == CHOOSE x \in masked : \A y \in masked : x <= y
<1>1. at[t].pc # "gone" /\ UNCHANGED <<usr, run, sender>> BY DEF HandleSignal, On
<1>2. /\ SigTypeOK /\ sig[t] \in SigRecord /\ shared \in SharedRecord /\ usr \in Actions
      /\ Covered(sig[t])
    BY <1>1, OwnTypes
<1>3. masked \in SUBSET Signals BY <1>2 DEF SigRecord, SharedRecord
<1>4. \/ sig' = [sig EXCEPT ![t].killed = TRUE] /\ To(t, "finish") /\ UNCHANGED shared
      \/ Without(t, SigStop \cup (masked \cap SigCont)) /\ To(t, "handle")
      \/ Without(t, masked \cap SigStop) /\ To(t, "stop")
      \/ To(t, "finish") /\ UNCHANGED <<sig, shared>>
      \/ masked # {} /\ TakeSignal(t, s)
    BY DEF HandleSignal
<1> HIDE DEF masked
<1>5. CASE sig' = [sig EXCEPT ![t].killed = TRUE] /\ To(t, "finish") /\ UNCHANGED shared
    <2> DEFINE g == [sig[t] EXCEPT !.killed = TRUE]
    <2>1. sig' = [sig EXCEPT ![t] = g] BY <1>2, <1>5 DEF SigTypeOK
    <2>2. g \in SigRecord /\ Covered(g) BY <1>2 DEF SigRecord, Covered
    <2> HIDE DEF g
    <2>3. PICK a \in AtRecord : at' = [at EXCEPT ![t] = a] /\ a.pc = "finish" BY <1>2, <1>5, ToPlace
    <2>4. QED BY <1>1, <1>2, <1>5, <2>1, <2>2, <2>3, OwnSigStep
<1>6. CASE \/ Without(t, SigStop \cup (masked \cap SigCont)) /\ To(t, "handle")
           \/ Without(t, masked \cap SigStop) /\ To(t, "stop")
    <2>1. \E a \in AtRecord : at' = [at EXCEPT ![t] = a] /\ a.pc \in {"handle", "stop"}
        BY <1>2, <1>6, ToPlace
    <2>2. shared' \in SharedRecord /\ \E g \in SigRecord : sig' = [sig EXCEPT ![t] = g] /\ Covered(g)
        BY <1>2, <1>6, WithoutEffect
    <2>3. QED BY <1>1, <1>2, <2>1, <2>2, OwnSigStep
<1>7. CASE To(t, "finish") /\ UNCHANGED <<sig, shared>>
    <2>1. sig' = [sig EXCEPT ![t] = sig[t]] BY <1>2, <1>7 DEF SigTypeOK
    <2>2. PICK a \in AtRecord : at' = [at EXCEPT ![t] = a] /\ a.pc = "finish" BY <1>2, <1>7, ToPlace
    <2>3. QED BY <1>1, <1>2, <1>7, <2>1, <2>2, OwnSigStep
<1>8. CASE masked # {} /\ TakeSignal(t, s)
    <2>1. s \in Signals BY <1>3, <1>8, LowestSignal
    <2> HIDE DEF s
    <2>2. /\ shared' \in SharedRecord
          /\ \E g \in SigRecord : sig' = [sig EXCEPT ![t] = g] /\ Covered(g)
          /\ \E a \in AtRecord : at' = [at EXCEPT ![t] = a] /\ (a.pc = "panic" \/ (a.pc = "deliver" /\ a.signo = s))
        BY <1>2, <1>8, <2>1, TakeSignalEffect
    <2>3. PICK g \in SigRecord : sig' = [sig EXCEPT ![t] = g] /\ Covered(g) BY <2>2
    <2>4. PICK a \in AtRecord : at' = [at EXCEPT ![t] = a] /\ (a.pc = "panic" \/ (a.pc = "deliver" /\ a.signo = s))
        BY <2>2
    <2>5. usr' \in Actions BY <1>1, <1>2
    <2>6. a.pc \notin {"pause", "paused"} /\ (a.pc = "deliver" => a.signo \in Signals) BY <2>1, <2>4
    <2>7. QED BY <1>1, <2>2, <2>3, <2>4, <2>5, <2>6, OwnSigStep
<1>9. QED BY <1>4, <1>5, <1>6, <1>7, <1>8

LEMMA DeliverKeeps ==
    ASSUME GInv, NEW t \in SigThreads, Deliver(t)
    PROVE  GInv'
<1> DEFINE p == PushFrame(sig[t])
           h == [p EXCEPT !.mask = @ \cup {at[t].signo}]
<1>1. at[t].pc = "deliver" /\ UNCHANGED <<shared, run, sender>> BY DEF Deliver, On
<1>2. /\ SigTypeOK /\ sig[t] \in SigRecord /\ shared \in SharedRecord /\ usr \in Actions
      /\ Covered(sig[t]) /\ at[t].signo \in Signals
    BY <1>1, OwnTypes DEF GInv, SignalInHand
<1>3. \/ To(t, "finish") /\ UNCHANGED <<usr, sig>>
      \/ /\ sig' = [sig EXCEPT ![t] = Recalc(h, shared)]
         /\ usr' = IF at[t].act = "RESETHAND" THEN "DFL" ELSE usr
         /\ To(t, "finish")
      \/ To(t, "exit") /\ UNCHANGED <<usr, sig>>
      \/ To(t, "panic") /\ UNCHANGED <<usr, sig>>
    BY DEF Deliver
<1>4. p \in SigRecord
    <2> DEFINE q == Append(sig[t].frames, sig[t].mask)
    <2>1. sig[t].frames \in Seq(SUBSET Signals) /\ sig[t].mask \in SUBSET Signals BY <1>2 DEF SigRecord
    <2>2. q \in Seq(SUBSET Signals) BY <2>1, AppendProperties
    <2>3. p = [sig[t] EXCEPT !.frames = q] BY <1>2 DEF SigRecord, PushFrame
    <2> HIDE DEF p, q
    <2>4. QED BY <1>2, <2>2, <2>3 DEF SigRecord
<1> HIDE DEF p
<1>5. h \in SigRecord BY <1>2, <1>4 DEF SigRecord
<1> HIDE DEF h
<1>6. Recalc(h, shared) \in SigRecord /\ Covered(Recalc(h, shared)) BY <1>2, <1>5, RecalcFields
<1>7. usr' \in Actions BY <1>2, <1>3 DEF Actions
<1>8. sig = [sig EXCEPT ![t] = sig[t]] BY <1>2 DEF SigTypeOK
<1>9. \E g \in SigRecord : sig' = [sig EXCEPT ![t] = g] /\ Covered(g) BY <1>2, <1>3, <1>6, <1>8
<1>10. \E a \in AtRecord : at' = [at EXCEPT ![t] = a] /\ a.pc \in {"finish", "exit", "panic"}
    BY <1>2, <1>3, ToPlace
<1>11. QED BY <1>1, <1>2, <1>7, <1>9, <1>10, OwnSigStep

LEMMA HandleFinishKeeps ==
    ASSUME GInv, NEW t \in SigThreads, HandleFinish(t)
    PROVE  GInv'
<1> DEFINE f == (sig[t].pending \cup shared.pending) \ sig[t].mask # {}
           g == [sig[t] EXCEPT !.flag = f]
           a == [UserMode EXCEPT !.pc = IF sig[t].killed THEN "exit" ELSE "user"]
<1>1. UNCHANGED <<usr, shared, run, sender>> BY DEF HandleFinish
<1>2. SigTypeOK /\ sig[t] \in SigRecord /\ shared \in SharedRecord /\ usr \in Actions BY OwnTypes
<1>3. sig' = [sig EXCEPT ![t] = g] /\ at' = [at EXCEPT ![t] = a]
    BY <1>2 DEF HandleFinish, SigTypeOK
<1>4. f \in BOOLEAN /\ (sig[t].pending \ sig[t].mask # {} => f) OBVIOUS
<1>5. a \in AtRecord /\ a.pc \in {"exit", "user"} BY DEF AtRecord, UserMode, Actions
<1> HIDE DEF f, a
<1>6. g \in SigRecord /\ Covered(g) BY <1>2, <1>4 DEF SigRecord, Covered
<1> HIDE DEF g
<1>7. QED BY <1>1, <1>2, <1>3, <1>5, <1>6, OwnSigStep

LEMMA ExitThreadKeeps ==
    ASSUME GInv, NEW t \in SigThreads, ExitThread(t)
    PROVE  GInv'
<1> DEFINE g == [sig[t] EXCEPT !.pending = {}, !.queue = 0, !.flag = FALSE,
                               !.mask = {}, !.saved = {}, !.frames = <<>>]
           a == [UserMode EXCEPT !.pc = "gone"]
           r == [state |-> "ZOMBIE", queued |-> FALSE]
<1>1. /\ UNCHANGED <<usr, shared, sender>> /\ sig' = [sig EXCEPT ![t] = g]
      /\ at' = [at EXCEPT ![t] = a] /\ run' = [run EXCEPT ![t] = r]
    BY DEF ExitThread
<1>2. SigTypeOK /\ sig[t] \in SigRecord /\ shared \in SharedRecord /\ usr \in Actions BY OwnTypes
<1>3. a \in AtRecord /\ a.pc = "gone" BY DEF AtRecord, UserMode, Actions
<1>4. r \in RunRecord BY DEF RunRecord
<1>5. g \in SigRecord /\ Covered(g)
    <2>1. 0 \in 0..MaxInfo /\ <<>> \in Seq(SUBSET Signals) BY SignalAssumption
    <2>2. QED BY <1>2, <2>1 DEF SigRecord, Covered
<1> HIDE DEF g, a, r
<1>6. QED BY <1>1, <1>2, <1>3, <1>4, <1>5, OwnStep

-----------------------------------------------------------------------------

LEMMA StepGInv ==
    ASSUME GInv, [SignalNext]_sigVars
    PROVE  GInv'
<1>1. CASE UNCHANGED sigVars
    <2> USE <1>1 DEF sigVars
    <2>1. SigTypeOK' BY DEF GInv, SigTypeOK
    <2>2. FlagCoversPending' BY DEF GInv, FlagCoversPending, Alive
    <2>3. PauseIsWoken' BY DEF GInv, PauseIsWoken
    <2>4. PauseState' BY DEF GInv, PauseState
    <2>5. MaskIsCurrent' BY DEF GInv, MaskIsCurrent
    <2>6. SignalInHand' BY DEF GInv, SignalInHand
    <2>7. QED BY <2>1, <2>2, <2>3, <2>4, <2>5, <2>6 DEF GInv
<1>2. CASE \/ \E t \in SigThreads, s \in ToThread : ThreadSend(t, s)
           \/ \E s \in ToGroup : GroupSend(s)
           \/ ThreadSendWake \/ GroupKill \/ GroupSendWake
    BY <1>2, ThreadSendKeeps, GroupSendKeeps, ThreadSendWakeKeeps, GroupKillKeeps, GroupSendWakeKeeps
<1>3. CASE \E t \in SigThreads :
             \/ Pause(t) \/ \E act \in SigActs : Sigaction(t, act)
             \/ \E set \in SigMasks : Sigprocmask(t, set) \/ Sigsuspend(t, set) \/ Sigwait(t, set)
    BY <1>3, PauseKeeps, SigactionKeeps, SigprocmaskKeeps, SigsuspendKeeps, SigwaitKeeps
<1>4. CASE \E t \in SigThreads :
             \/ PauseCheck(t) \/ SigsuspendSleep(t) \/ SigwaitSleep(t) \/ SigwaitRestore(t)
             \/ Sigreturn(t) \/ Trap(t) \/ HandleSignal(t) \/ StopSelf(t) \/ Deliver(t)
             \/ HandleFinish(t) \/ ExitThread(t)
    BY <1>4, PauseCheckKeeps, SleepKeeps, SigwaitRestoreKeeps, SigreturnKeeps, TrapKeeps,
       HandleSignalKeeps, DeliverKeeps, HandleFinishKeeps, ExitThreadKeeps
<1>5. QED BY <1>1, <1>2, <1>3, <1>4 DEF SignalNext

\* For every number of threads and every order of sends, masks, handlers, waits and
\* stops: the TIF_SIGPENDING flag covers the thread's own signals, and a thread asleep in
\* sys_pause() has none to take unless __signal_send is about to wake it.
THEOREM SignalArrives == SignalSpec => []SignalsArrive
<1>1. SignalInit => GInv BY InitGInv
<1>2. GInv /\ [SignalNext]_sigVars => GInv' BY StepGInv
<1>3. GInv => SignalsArrive BY DEF GInv, SignalsArrive
<1>4. QED BY <1>1, <1>2, <1>3, PTL DEF SignalSpec
=============================================================================
