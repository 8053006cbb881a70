------------------------------- MODULE Signal -------------------------------
(***************************************************************************)
(* Signals within one thread group: kernel/proc/signal.c, the sending half *)
(* of thread_group.c, the system calls of sys_signal.c, and the frames of  *)
(* irq/trap.c.  The threads share one sigacts, whose lock protects masks,  *)
(* pending sets and queues: a step is one critical section of it, one      *)
(* store to a thread's state (with the yield that follows it, which a      *)
(* wakeup in between makes return), or one round of wakeups.  A sender out *)
(* of the group sends one signal at a time.  A siginfo is only counted.    *)
(*                                                                         *)
(* The four masks of sigacts (term, ignore, stop, cont) follow from each   *)
(* signal's action: __sig_reset_act_mask leaves SIGSTOP in sa_sigstop and  *)
(* SIGCONT in sa_sigcont whatever the action.                              *)
(***************************************************************************)
EXTENDS Integers, FiniteSets, Sequences

CONSTANTS SigThreads, main,   \* the threads of the group, and its leader
          SigActs,            \* the actions sigaction installs for SIGUSR1
          SigMasks,           \* the sets given to sigprocmask, sigsuspend, sigwait
          ToThread, ToGroup,  \* the signals sent to a thread and to the group
          Callers,            \* the threads that make the calls below; the others only trap
          MaxInfo,            \* MAX_SIGINFO_PER_SIGNAL
          MaxFrames,          \* bound: handlers nested on a thread's stack
          MaxSends            \* bound: signals sent

SIGKILL == 9
SIGUSR1 == 10
SIGCONT == 18
SIGSTOP == 19
Signals == {SIGKILL, SIGUSR1, SIGCONT, SIGSTOP}
Mandatory == {SIGKILL, SIGSTOP}

ASSUME SignalAssumption ==
    /\ main \in SigThreads /\ MaxInfo \in Nat \ {0} /\ MaxFrames \in Nat /\ MaxSends \in Nat
    /\ SigActs \subseteq {"DFL", "IGN", "HANDLER", "SIGINFO", "RESETHAND"}
    /\ SigMasks \subseteq SUBSET Signals
    /\ ToThread \cup ToGroup \subseteq Signals /\ Callers \subseteq SigThreads

VARIABLES usr,      \* the action of SIGUSR1; the others keep the default
          sig,      \* per thread: pending, queued infos, masks, flags, handler frames
          shared,   \* tg->shared_pending: pending, queued infos
          run,      \* per thread: state, and whether it is on a run queue
          at,       \* where each thread is
          sender    \* the signal being sent, between the lock and the wakeups

sigVars == <<usr, sig, shared, run, at, sender>>

Idle(n) == [how |-> "none", to |-> main, signo |-> 0, mask |-> {}, sent |-> n]
UserMode == [pc |-> "user", signo |-> 0, act |-> "DFL", saved |-> {}, set |-> {}]

SignalInit ==
    /\ usr = "DFL"
    /\ sig = [t \in SigThreads |-> [pending |-> {}, queue |-> 0, mask |-> {}, saved |-> {},
                                    flag |-> FALSE, killed |-> FALSE, frames |-> <<>>]]
    /\ shared = [pending |-> {}, queue |-> 0]
    /\ run = [t \in SigThreads |-> [state |-> "RUNNING", queued |-> TRUE]]
    /\ at = [t \in SigThreads |-> UserMode]
    /\ sender = Idle(0)

Alive(t) == at[t].pc # "gone"
Panicked == \E t \in SigThreads : at[t].pc = "panic"
MaySend == ~Panicked /\ sender.how = "none" /\ sender.sent < MaxSends
Send(how, t, s, mask) == sender' = [how |-> how, to |-> t, signo |-> s, mask |-> mask,
                                    sent |-> sender.sent + 1]
On(t, pc) == ~Panicked /\ run[t].queued /\ at[t].pc = pc
\* usertrap: a killed thread makes no more system calls.
Calls(t) == On(t, "user") /\ ~sig[t].killed
To(t, pc) == at' = [at EXCEPT ![t].pc = pc]

\* signo_default_action and __sig_setdefault
SigTerm == {SIGKILL} \cup IF usr = "DFL" THEN {SIGUSR1} ELSE {}
SigIgnore == IF usr = "IGN" THEN {SIGUSR1} ELSE {}
SigStop == {SIGSTOP}
SigCont == {SIGCONT}
HasInfo(s) == s = SIGUSR1 /\ usr = "SIGINFO"

\* recalc_sigpending_tsk on the thread record g: it only sets the flag.
Recalc(g, sh) == [g EXCEPT !.flag = @ \/ (g.pending \cup sh.pending) \ g.mask # {}]

\* One more info, the oldest dropped at the cap, or none when there is no memory.
Enqueued(q) == {q, IF q < MaxInfo THEN q + 1 ELSE q}
\* One info taken; the pending bit goes with the last.
Dequeued(rec, s) ==
    LET q == IF s = SIGUSR1 /\ rec.queue > 0 THEN rec.queue - 1 ELSE IF s = SIGUSR1 THEN 0 ELSE rec.queue
    IN  [rec EXCEPT !.queue = q, !.pending = IF s = SIGUSR1 /\ q > 0 THEN @ ELSE @ \ {s}]

\* tg_dequeue_signal: the same on the group's queue.
TgDequeued(s) == Dequeued(shared, s)

Wake(r, t, states) ==
    IF r[t].state \in states THEN [r EXCEPT ![t] = [state |-> "RUNNING", queued |-> TRUE]] ELSE r

\* scheduler_yield: a thread that was woken meanwhile stays on its run queue.
Slept(t) == [run EXCEPT ![t].queued = run[t].state = "RUNNING"]

-----------------------------------------------------------------------------
(* __signal_send (tkill, tgkill) and tg_signal_send (kill)                  *)

\* Under sigacts->lock: the info, the pending bit, the flag.
SendLocked(t, s) ==
    \E q \in IF HasInfo(s) THEN Enqueued(sig[t].queue) ELSE {sig[t].queue} :
        sig' = [sig EXCEPT ![t] = Recalc([sig[t] EXCEPT !.pending = @ \cup {s}, !.queue = q], shared)]

ThreadSend(t, s) ==
    /\ MaySend
    /\ Alive(t) /\ ~sig[t].killed
    /\ s \notin SigIgnore
    /\ SendLocked(t, s)
    /\ Send("thread", t, s, sig[t].mask)
    /\ UNCHANGED <<usr, shared, run, at>>

\* After the lock: a signal that terminates kills at once, masked or not.
ThreadSendWake ==
    /\ ~Panicked /\ sender.how = "thread"
    /\ LET t == sender.to  s == sender.signo
           r1 == IF s \in SigStop \ sender.mask THEN Wake(run, t, {"INTERRUPTIBLE"}) ELSE run
           r2 == IF s \in (SigCont \ sender.mask) \cup SigTerm THEN Wake(r1, t, {"STOPPED"}) ELSE r1
       IN  /\ sig' = [sig EXCEPT ![t].killed = @ \/ s \in SigTerm]
           /\ run' = IF sig[t].pending \ sender.mask # {} THEN Wake(r2, t, {"INTERRUPTIBLE"}) ELSE r2
    /\ sender' = Idle(sender.sent)
    /\ UNCHANGED <<usr, shared, at>>

\* tg_signal_send of SIGKILL kills every thread and wakes those that sleep.
GroupKill ==
    /\ MaySend /\ \E t \in SigThreads : Alive(t)
    /\ sig' = [t \in SigThreads |-> IF Alive(t) THEN [sig[t] EXCEPT !.killed = TRUE, !.flag = TRUE]
                                    ELSE sig[t]]
    /\ run' = [t \in SigThreads |-> IF Alive(t) THEN Wake(run, t, {"INTERRUPTIBLE", "STOPPED"})[t]
                                    ELSE run[t]]
    /\ sender' = Idle(sender.sent + 1)
    /\ UNCHANGED <<usr, shared, at>>

\* __tg_pick_thread: the leader if it can take s, else a thread that can, else the leader.
PickThread(s) ==
    LET able == {t \in SigThreads : Alive(t) /\ s \notin sig[t].mask}
    IN  IF main \in able THEN {main} ELSE IF able # {} THEN able ELSE {main}

\* Any other signal: SIGCONT and SIGSTOP cancel each other, a signal already pending
\* is not sent twice, the target is flagged.
GroupSend(s) ==
    /\ MaySend /\ s # SIGKILL
    /\ Alive(main) /\ s \notin SigIgnore
    /\ LET cancels == IF s \in SigCont THEN SigStop ELSE IF s \in SigStop THEN SigCont ELSE {}
           sh == [shared EXCEPT !.pending = @ \ cancels]
           sg == [t \in SigThreads |-> [sig[t] EXCEPT !.pending = @ \ cancels]]
       IN  IF ~HasInfo(s) /\ s \in sh.pending /\ s \notin SigCont
           THEN shared' = sh /\ sig' = sg /\ sender' = Idle(sender.sent + 1)
           ELSE \E q \in IF HasInfo(s) THEN Enqueued(sh.queue) ELSE {sh.queue} :
                    /\ shared' = [pending |-> sh.pending \cup {s}, queue |-> q]
                    /\ IF s \in SigCont
                       THEN /\ Send("all", main, s, {})
                            /\ sig' = sg
                       ELSE \E t \in PickThread(s) :
                            /\ Send("one", t, s, {})
                            /\ sig' = [sg EXCEPT ![t].flag = TRUE]
    /\ UNCHANGED <<usr, run, at>>

\* The wakeups: SIGCONT of everybody, the others of the target.
GroupSendWake ==
    /\ ~Panicked /\ sender.how \in {"all", "one"}
    /\ IF sender.how = "all"
       THEN /\ sig' = [t \in SigThreads |-> [sig[t] EXCEPT !.flag = @ \/ Alive(t)]]
            /\ run' = [t \in SigThreads |-> Wake(run, t, {"STOPPED", "INTERRUPTIBLE"})[t]]
       ELSE /\ run' = Wake(run, sender.to,
                           {"INTERRUPTIBLE"} \cup IF sender.signo \in SigTerm THEN {"STOPPED"} ELSE {})
            /\ UNCHANGED sig
    /\ sender' = Idle(sender.sent)
    /\ UNCHANGED <<usr, shared, at>>

-----------------------------------------------------------------------------
(* The calls of a thread                                                    *)

\* sigaction(SIGUSR1): ignoring it discards what is pending for the caller and the
\* group; the default may kill the caller.
Sigaction(t, act) ==
    /\ Calls(t) /\ usr' = act
    /\ LET g == IF act = "DFL" /\ SIGUSR1 \in sig[t].pending \ sig[t].mask
                THEN [sig[t] EXCEPT !.killed = TRUE] ELSE sig[t]
           sh == [pending |-> shared.pending \ {SIGUSR1}, queue |-> 0]
       IN  IF act = "IGN"
           THEN /\ sig' = [sig EXCEPT ![t] = Recalc([g EXCEPT !.pending = @ \ {SIGUSR1}, !.queue = 0], shared)]
                /\ shared' = sh
           ELSE sig' = [sig EXCEPT ![t] = g] /\ UNCHANGED shared
    /\ To(t, "handle")
    /\ UNCHANGED <<run, sender>>

\* What sigprocmask does to the caller.
SetMask(g, m) ==
    LET g1 == Recalc([g EXCEPT !.mask = m \ Mandatory, !.saved = m \ Mandatory], shared)
    IN  [g1 EXCEPT !.killed = @ \/ (g1.pending \ g1.mask) \cap SigTerm # {}]

\* SIG_SETMASK, SIG_BLOCK or SIG_UNBLOCK of set.
Sigprocmask(t, set) ==
    /\ Calls(t)
    /\ \E m \in {set, sig[t].mask \cup set, sig[t].mask \ set} :
        sig' = [sig EXCEPT ![t] = SetMask(sig[t], m)]
    /\ To(t, "handle")
    /\ UNCHANGED <<usr, shared, run, sender>>

\* sys_pause: INTERRUPTIBLE first, ...
Pause(t) ==
    /\ Calls(t)
    /\ run' = [run EXCEPT ![t].state = "INTERRUPTIBLE"]
    /\ To(t, "pause")
    /\ UNCHANGED <<usr, sig, shared, sender>>
\* Bug: pause does not look at the flag again.
PauseBlind(t) ==
    /\ On(t, "pause")
    /\ run' = Slept(t)
    /\ To(t, "paused")
    /\ UNCHANGED <<usr, sig, shared, sender>>
\* ... then the flag, then scheduler_yield, which returns at once after a wakeup.
PauseCheck(t) ==
    /\ On(t, "pause")
    /\ IF sig[t].flag
       THEN run' = [run EXCEPT ![t].state = "RUNNING"] /\ To(t, "handle")
       ELSE run' = Slept(t) /\ To(t, "paused")
    /\ UNCHANGED <<usr, sig, shared, sender>>

\* sigsuspend: the mask is swapped unless a signal is pending already; the state is
\* set after the lock is dropped.
Sigsuspend(t, set) ==
    /\ Calls(t)
    /\ LET g == [sig[t] EXCEPT !.saved = sig[t].mask, !.mask = set \ Mandatory]
       IN  IF (sig[t].pending \cup shared.pending) \ g.mask # {}
           THEN /\ sig' = [sig EXCEPT ![t] = Recalc([sig[t] EXCEPT !.saved = sig[t].mask], shared)]
                /\ To(t, "handle")
           ELSE sig' = [sig EXCEPT ![t] = Recalc(g, shared)] /\ To(t, "suspend")
    /\ UNCHANGED <<usr, shared, run, sender>>
SigsuspendSleep(t) ==
    /\ On(t, "suspend")
    /\ run' = [run EXCEPT ![t] = [state |-> "INTERRUPTIBLE", queued |-> FALSE]]
    /\ To(t, "handle")
    /\ UNCHANGED <<usr, sig, shared, sender>>

\* sigwait takes the lowest signal of the set that is pending, or unblocks the set
\* while it sleeps.
Sigwait(t, set) ==
    /\ Calls(t) \/ (On(t, "sigwait") /\ set = at[t].set)
    /\ LET found == (sig[t].pending \cup shared.pending) \cap set
           s == CHOOSE x \in found : \A y \in found : x <= y
       IN  IF found # {}
           THEN /\ IF s \in sig[t].pending
                   THEN sig' = [sig EXCEPT ![t] = Recalc(Dequeued(sig[t], s), shared)] /\ UNCHANGED shared
                   ELSE /\ shared' = TgDequeued(s)
                        /\ sig' = [sig EXCEPT ![t] = Recalc(sig[t], TgDequeued(s))]
                /\ at' = [at EXCEPT ![t] = [UserMode EXCEPT !.pc = "handle"]]
           ELSE /\ sig' = [sig EXCEPT ![t] = Recalc([sig[t] EXCEPT !.mask = @ \ (set \cup Mandatory)],
                                                    shared)]
                /\ at' = [at EXCEPT ![t] = [UserMode EXCEPT !.pc = "wait", !.saved = sig[t].mask,
                                                            !.set = set]]
                /\ UNCHANGED shared
    /\ UNCHANGED <<usr, run, sender>>
SigwaitSleep(t) ==
    /\ On(t, "wait")
    /\ run' = [run EXCEPT ![t] = [state |-> "INTERRUPTIBLE", queued |-> FALSE]]
    /\ To(t, "woken")
    /\ UNCHANGED <<usr, sig, shared, sender>>
SigwaitRestore(t) ==
    /\ On(t, "woken")
    /\ sig' = [sig EXCEPT ![t] = Recalc([sig[t] EXCEPT !.mask = at[t].saved], shared)]
    /\ at' = [at EXCEPT ![t] = IF sig[t].killed THEN [UserMode EXCEPT !.pc = "handle"]
                               ELSE [UserMode EXCEPT !.pc = "sigwait", !.set = at[t].set]]
    /\ UNCHANGED <<usr, shared, run, sender>>

\* push_sigframe: the frame on the user stack keeps the mask.
PushFrame(g) == [g EXCEPT !.frames = Append(@, g.mask)]
\* restore_sigframe: the innermost frame.
TopFrame(g) == g.frames[Len(g.frames)]

\* signal_restore: the saved mask when the frame was the outermost.
SignalRestore(g) ==
    LET rest == SubSeq(g.frames, 1, Len(g.frames) - 1)
        mask == IF rest = <<>> THEN g.saved ELSE TopFrame(g) \cup g.saved
    IN  Recalc([g EXCEPT !.frames = rest, !.mask = mask \ Mandatory], shared)

\* sigreturn; the thread exits when the frame cannot be read back.
Sigreturn(t) ==
    /\ Calls(t) /\ sig[t].frames # <<>>
    /\ \/ sig' = [sig EXCEPT ![t] = SignalRestore(sig[t])] /\ To(t, "handle")
       \/ To(t, "exit") /\ UNCHANGED sig
    /\ UNCHANGED <<usr, shared, run, sender>>

\* Any other trap.
Trap(t) ==
    /\ On(t, "user")
    /\ To(t, "handle")
    /\ UNCHANGED <<usr, sig, shared, run, sender>>

-----------------------------------------------------------------------------
(* usertrapret and handle_signal, which also finds a thread that was killed  *)

\* Both pending sets without the signals of drop.
Without(t, drop) ==
    /\ shared' = [shared EXCEPT !.pending = @ \ drop]
    /\ sig' = [sig EXCEPT ![t] = Recalc([sig[t] EXCEPT !.pending = @ \ drop],
                                        [shared EXCEPT !.pending = @ \ drop])]

\* The lowest signal is dequeued with the action copied: from the thread's own set
\* first.  The asserts: an own signal is not ignored and has infos only with SA_SIGINFO,
\* and with SA_SIGINFO there is an info to deliver.
TakeSignal(t, s) ==
    LET own == s \in sig[t].pending
        queue == IF own THEN sig[t].queue ELSE shared.queue
        asserts == /\ own => usr # "IGN" /\ (usr # "SIGINFO" => queue = 0)
                   /\ usr = "SIGINFO" => queue > 0
    IN  IF ~asserts THEN To(t, "panic") /\ UNCHANGED <<sig, shared>>
        ELSE /\ shared' = IF own THEN shared ELSE TgDequeued(s)
             /\ sig' = [sig EXCEPT ![t] = Recalc(IF own THEN Dequeued(sig[t], s) ELSE sig[t],
                                                 IF own THEN shared ELSE TgDequeued(s))]
             /\ at' = [at EXCEPT ![t].pc = "deliver", ![t].signo = s, ![t].act = usr]

\* One turn of the loop, under sigacts->lock: terminate, continue, stop, or take the
\* lowest signal that is pending and not blocked.  SIGCONT has the default action
\* here, so it is consumed.
HandleSignal(t) ==
    /\ On(t, "handle") \/ On(t, "paused")
    /\ LET masked == (sig[t].pending \cup shared.pending) \ sig[t].mask
           s == CHOOSE x \in masked : \A y \in masked : x <= y
       IN  \/ /\ masked \cap SigTerm # {} \/ sig[t].killed
              /\ sig' = [sig EXCEPT ![t].killed = TRUE]
              /\ To(t, "finish") /\ UNCHANGED shared
           \/ /\ masked \cap SigTerm = {} /\ ~sig[t].killed
              /\ \/ /\ masked \cap SigCont # {}
                    /\ Without(t, SigStop \cup (masked \cap SigCont))
                    /\ To(t, "handle")
                 \/ /\ masked \cap SigCont = {} /\ masked \cap SigStop # {}
                    /\ Without(t, masked \cap SigStop)
                    /\ To(t, "stop")
                 \/ /\ masked = {}
                    /\ To(t, "finish") /\ UNCHANGED <<sig, shared>>
                 \/ /\ masked # {} /\ masked \cap (SigCont \cup SigStop) = {}
                    /\ TakeSignal(t, s)
    /\ UNCHANGED <<usr, run, sender>>

\* The thread stops: the state is stored after the lock is dropped.
StopSelf(t) ==
    /\ On(t, "stop")
    /\ run' = [run EXCEPT ![t] = [state |-> "STOPPED", queued |-> FALSE]]
    /\ To(t, "handle")
    /\ UNCHANGED <<usr, sig, shared, sender>>

\* __deliver_signal: a frame with the current mask is pushed on the user stack, or
\* the thread exits because the stack cannot grow, or the copy fails and the kernel
\* panics; then the signal is blocked.
Deliver(t) ==
    /\ On(t, "deliver")
    /\ IF at[t].act = "IGN"
       THEN To(t, "finish") /\ UNCHANGED <<usr, sig>>
       ELSE \/ /\ Len(sig[t].frames) < MaxFrames
               /\ sig' = [sig EXCEPT ![t] =
                     Recalc([PushFrame(sig[t]) EXCEPT !.mask = @ \cup {at[t].signo}], shared)]
               /\ usr' = IF at[t].act = "RESETHAND" THEN "DFL" ELSE usr
               /\ To(t, "finish")
            \/ To(t, "exit") /\ UNCHANGED <<usr, sig>>
            \/ To(t, "panic") /\ UNCHANGED <<usr, sig>>
    /\ UNCHANGED <<shared, run, sender>>

\* recalc_sigpending, which alone clears the flag, and the last look at KILLED.
HandleFinish(t) ==
    /\ On(t, "finish")
    /\ sig' = [sig EXCEPT ![t].flag = (sig[t].pending \cup shared.pending) \ sig[t].mask # {}]
    /\ at' = [at EXCEPT ![t] = [UserMode EXCEPT !.pc = IF sig[t].killed THEN "exit" ELSE "user"]]
    /\ UNCHANGED <<usr, shared, run, sender>>

\* exit(): sigpending_empty discards the thread's own signals.
ExitThread(t) ==
    /\ On(t, "exit")
    /\ at' = [at EXCEPT ![t] = [UserMode EXCEPT !.pc = "gone"]]
    /\ sig' = [sig EXCEPT ![t] = [sig[t] EXCEPT !.pending = {}, !.queue = 0, !.flag = FALSE,
                                           !.mask = {}, !.saved = {}, !.frames = <<>>]]
    /\ run' = [run EXCEPT ![t] = [state |-> "ZOMBIE", queued |-> FALSE]]
    /\ UNCHANGED <<usr, shared, sender>>

SignalNext ==
    \/ \E t \in SigThreads, s \in ToThread : ThreadSend(t, s)
    \/ \E s \in ToGroup : GroupSend(s)
    \/ ThreadSendWake \/ GroupKill \/ GroupSendWake
    \/ \E t \in SigThreads :
        \/ /\ t \in Callers
           /\ \/ Pause(t) \/ \E act \in SigActs : Sigaction(t, act)
              \/ \E set \in SigMasks : Sigprocmask(t, set) \/ Sigsuspend(t, set) \/ Sigwait(t, set)
        \/ PauseCheck(t)
        \/ SigsuspendSleep(t) \/ SigwaitSleep(t) \/ SigwaitRestore(t)
        \/ Sigreturn(t) \/ Trap(t)
        \/ HandleSignal(t) \/ StopSelf(t) \/ Deliver(t) \/ HandleFinish(t)
        \/ ExitThread(t)

SignalSpec == SignalInit /\ [][SignalNext]_sigVars

-----------------------------------------------------------------------------
(* Properties                                                               *)

Actions == {"DFL", "IGN", "HANDLER", "SIGINFO", "RESETHAND"}
SigRecord == [pending : SUBSET Signals, queue : 0..MaxInfo, mask : SUBSET Signals,
              saved : SUBSET Signals, flag : BOOLEAN, killed : BOOLEAN,
              frames : Seq(SUBSET Signals)]
RunRecord == [state : {"RUNNING", "INTERRUPTIBLE", "STOPPED", "ZOMBIE"}, queued : BOOLEAN]
AtRecord == [pc : {"user", "handle", "pause", "paused", "suspend", "wait", "woken", "sigwait",
                   "stop", "deliver", "finish", "exit", "panic", "gone"},
             signo : Signals \cup {0}, act : Actions, saved : SUBSET Signals, set : SUBSET Signals]

\* Among the types: a queue never holds more than MAX_SIGINFO_PER_SIGNAL infos.
SigTypeOK ==
    /\ usr \in Actions
    /\ sig \in [SigThreads -> SigRecord]
    /\ shared \in [pending : SUBSET Signals, queue : 0..MaxInfo]
    /\ run \in [SigThreads -> RunRecord] /\ at \in [SigThreads -> AtRecord]
    /\ sender \in [how : {"none", "thread", "one", "all"}, to : SigThreads,
                   signo : Signals \cup {0}, mask : SUBSET Signals, sent : 0..MaxSends]

\* A thread with a signal of its own pending and not blocked has its flag set,
\* through every change of the mask, every delivery and every nested handler:
\* pause() and the return paths look at nothing else.
FlagCoversPending ==
    \A t \in SigThreads : Alive(t) /\ sig[t].pending \ sig[t].mask # {} => sig[t].flag

\* A thread asleep in pause() has no signal of its own to take, unless the sender is
\* still to wake it: sys_pause sets its state before it looks, so nothing is lost.
PauseIsWoken ==
    \A t \in SigThreads :
        at[t].pc = "paused" /\ ~run[t].queued /\ sig[t].pending \ sig[t].mask # {} =>
            sender.how = "thread" /\ sender.to = t

\* The flag every sleep trusts covers the signals a thread may take, whatever changed
\* its mask, and pause() does not sleep past one.
SignalsArrive == SigTypeOK /\ FlagCoversPending /\ PauseIsWoken

=============================================================================
