------------------------------ MODULE Process ------------------------------
(***************************************************************************)
(* Threads and processes: kernel/proc/{pid,thread,clone,exit,              *)
(* thread_group}.c.  A thread is the page that holds its stack and         *)
(* descriptor, so a freed thread is used again; a group is a slab object.  *)
(*                                                                         *)
(* Kernel code is not preempted.  A step is one critical section of        *)
(* pid_lock, one store to a thread's state, or one call of the scheduler.  *)
(* Sections that write hold pid_lock alone and are single steps; wait()    *)
(* reads under it over several.  The scheduler is what it promises: a      *)
(* thread that yields while its state is a sleeping one leaves the run     *)
(* queue, and a wakeup that finds the state it wants makes it RUNNING and  *)
(* queues it.  Exit statuses, names and the resources shared by clone      *)
(* (address space, files) are left out.                                    *)
(***************************************************************************)
EXTENDS Integers, FiniteSets

CONSTANTS Threads,    \* pages for threads, initproc one of them
          Groups,     \* slots for struct thread_group
          initproc,
          NR_THREAD, MAXPID,
          CloneKinds, \* the calls of thread_clone and kthread_create tried
          Lookers     \* the threads that look others up by pid

ASSUME ProcessAssumption ==
    /\ IsFiniteSet(Threads) /\ initproc \in Threads
    /\ "none" \notin Threads \cup Groups
    /\ NR_THREAD \in Nat \ {0} /\ MAXPID \in Nat /\ MAXPID > NR_THREAD
    /\ CloneKinds \subseteq {"fork", "vfork", "thread", "kthread"}
    /\ Lookers \subseteq Threads

None == "none"

VARIABLES thr,            \* the threads
          group,          \* the thread groups
          call,           \* where each thread is in the kernel
          nextpid, allocated_cnt,
          readers,        \* the holders of pid_rlock
          grace           \* per destroyed thread, who may still use it

procVars == <<thr, group, call, nextpid, allocated_cnt, readers, grace>>

\* struct thread: live is FALSE while the page is free.
FreeThread == [live |-> FALSE, state |-> "UNUSED", queued |-> FALSE, pid |-> 0, parent |-> None,
               kids |-> {}, tg |-> None, vfork |-> None, kind |-> "process", killed |-> FALSE]
\* struct thread_group: members is thread_list, ref and live its counters.
FreeGroup == [used |-> FALSE, leader |-> None, tgid |-> 0, live |-> 0, ref |-> 0,
              exiting |-> FALSE, members |-> {}]
InUser == [pc |-> "user", kind |-> None, child |-> None, last |-> FALSE]

\* thread_group_alloc: a group with one member.
NewGroup(t, pid) == [used |-> TRUE, leader |-> t, tgid |-> pid, live |-> 1, ref |-> 1,
                     exiting |-> FALSE, members |-> {t}]

\* userinit: the first process.
ProcessInit ==
    \E g \in Groups :
        /\ thr = [t \in Threads |-> IF t = initproc
                                    THEN [FreeThread EXCEPT !.live = TRUE, !.state = "RUNNING",
                                                            !.queued = TRUE, !.pid = 1, !.tg = g]
                                    ELSE FreeThread]
        /\ group = [h \in Groups |-> IF h = g THEN NewGroup(initproc, 1) ELSE FreeGroup]
        /\ call = [t \in Threads |-> InUser]
        /\ nextpid = 2 /\ allocated_cnt = 1
        /\ readers = {} /\ grace = [t \in Threads |-> {}]

\* A thread with CLONE_THREAD that is not its group's leader.
SelfReaps(t) == thr[t].kind = "thread" /\ group[thr[t].tg].leader # t
Runs(t) == thr[t].live /\ thr[t].queued
At(t, pc) == Runs(t) /\ call[t].pc = pc
\* In user space and about to make a system call; a killed thread exits instead.
MayCall(t) == At(t, "user") /\ ~thr[t].killed /\ thr[t].kind # "kthread"
Then(t, pc) == call' = [call EXCEPT ![t].pc = pc]
Sleeping(s) == s \in {"INTERRUPTIBLE", "UNINTERRUPTIBLE"}

\* scheduler_wakeup and scheduler_wakeup_interruptible of p, in th.
Woken(th, p, states) ==
    IF p = None \/ ~th[p].live \/ th[p].state \notin states THEN th
    ELSE [th EXCEPT ![p].state = "RUNNING", ![p].queued = TRUE]
WakeAny(th, p) == Woken(th, p, {"INTERRUPTIBLE", "UNINTERRUPTIBLE"})
WakeInterruptible(th, p) == Woken(th, p, {"INTERRUPTIBLE"})

\* A context switch, or a return to user space: t holds no pointer it looked up.
Quiescent(t) == grace' = [d \in Threads |-> grace[d] \ {t}]
\* scheduler_yield with the state read when it decides.
Yield(t) ==
    /\ thr' = [thr EXCEPT ![t].queued = ~Sleeping(thr[t].state)]
    /\ Quiescent(t)

-----------------------------------------------------------------------------
(* pid.c                                                                    *)

\* The thread that pid finds in proc_table.procs.
Registered == {t \in Threads : thr[t].live /\ thr[t].pid # 0}
Pids == 1 .. MAXPID - 1
UsedPids == {thr[t].pid : t \in Registered}
IncPid(p) == IF p + 1 >= MAXPID THEN 2 ELSE p + 1

\* proctab_proc_add: the first unused number from nextpid on, which wraps to 2.
FirstPid ==
    LET Steps(p) == IF p >= nextpid THEN p - nextpid ELSE p + (MAXPID - 2) - nextpid
    IN  CHOOSE p \in Pids \ (UsedPids \cup {1}) :
            \A q \in Pids \ (UsedPids \cup {1}) : Steps(p) <= Steps(q)

\* __free_pid
FreePid == allocated_cnt' = allocated_cnt - 1

\* thread_group_put of g in gr: the last reference frees it.
GroupPut(gr, g) ==
    IF g = None THEN gr
    ELSE [gr EXCEPT ![g] = IF @.ref = 1 THEN FreeGroup ELSE [@ EXCEPT !.ref = gr[g].ref - 1]]

\* Bug: the page is freed at once.
FreesNow(c) == grace' = [grace EXCEPT ![c] = {}]
\* call_rcu in thread_destroy: the page is freed when every thread now in the kernel
\* has switched.
DestroyLater(c) == grace' = [grace EXCEPT ![c] = {t \in Threads : Runs(t) /\ call[t].pc # "user"}]

\* The RCU callback of thread_destroy frees the page.
RcuFree(c) ==
    /\ thr[c].live /\ thr[c].state \in {"ZOMBIE", "UNUSED"} /\ call[c].pc = "destroyed"
    /\ grace[c] = {}
    /\ thr' = [thr EXCEPT ![c] = FreeThread]
    /\ call' = [call EXCEPT ![c] = InUser]
    /\ UNCHANGED <<group, nextpid, allocated_cnt, readers, grace>>

-----------------------------------------------------------------------------
(* clone.c, and kthread_create of thread.c                                  *)

\* The checks of the arguments are passed; __alloc_pid reserves a slot or fails.
CloneReserve(t, kind) ==
    /\ IF kind = "kthread" THEN At(t, "user") /\ (t = initproc \/ thr[t].kind = "kthread")
       ELSE MayCall(t)
    /\ allocated_cnt < NR_THREAD
    /\ allocated_cnt' = allocated_cnt + 1
    /\ call' = [call EXCEPT ![t].pc = "create", ![t].kind = kind]
    /\ UNCHANGED <<thr, group, nextpid, readers, grace>>

\* thread_create and the copies of what is not shared.  A vfork caller's own state
\* says it sleeps before the child can run.
CloneCreate(t) ==
    /\ At(t, "create")
    /\ \E c \in Threads :
        /\ ~thr[c].live
        /\ thr' = [thr EXCEPT
               ![c] = [FreeThread EXCEPT !.live = TRUE, !.state = "UNINTERRUPTIBLE",
                          !.vfork = IF call[t].kind = "vfork" THEN t ELSE None,
                          !.kind = CASE call[t].kind = "thread" -> "thread"
                                      [] call[t].kind = "kthread" -> "kthread"
                                      [] OTHER -> "process"],
               ![t].state = IF call[t].kind = "vfork" THEN "UNINTERRUPTIBLE" ELSE @]
        /\ call' = [call EXCEPT ![t].pc = "attach", ![t].child = c, ![c] = [InUser EXCEPT !.pc = "new"]]
    /\ UNCHANGED <<group, nextpid, allocated_cnt, readers, grace>>

\* A step of the creation fails: nothing was made, or thread_destroy undoes it.
CloneFail(t) ==
    /\ At(t, "create")
    /\ \/ UNCHANGED thr /\ Quiescent(t) /\ call' = [call EXCEPT ![t] = InUser]
       \/ \E c \in Threads :
            /\ ~thr[c].live
            /\ thr' = [thr EXCEPT ![c] = [FreeThread EXCEPT !.live = TRUE]]
            /\ call' = [call EXCEPT ![t] = InUser, ![c] = [InUser EXCEPT !.pc = "destroyed"]]
            /\ DestroyLater(c)
    /\ FreePid
    /\ UNCHANGED <<group, nextpid, readers>>

\* attach_child
Attached(th, p, c) == [th EXCEPT ![c].parent = p, ![p].kids = @ \cup {c}]

\* Under pid_wlock: the parent, the pid, the group.  A thread of the group is on
\* nobody's list of children; a kernel thread is a child of init and gets its group
\* after the lock is dropped.
CloneAttach(t) ==
    /\ At(t, "attach") /\ readers = {}
    /\ LET c == call[t].child  kind == call[t].kind  pid == FirstPid IN
        /\ nextpid' = IncPid(pid)
        /\ \/ /\ kind = "thread"
              /\ thr' = [thr EXCEPT ![c].parent = thr[t].parent, ![c].pid = pid, ![c].tg = thr[t].tg]
              /\ group' = [group EXCEPT ![thr[t].tg].live = @ + 1, ![thr[t].tg].ref = @ + 1,
                                        ![thr[t].tg].members = @ \cup {c}]
           \/ /\ kind \in {"fork", "vfork"}
              /\ \E g \in Groups :
                    /\ ~group[g].used
                    /\ group' = [group EXCEPT ![g] = NewGroup(c, pid)]
                    /\ thr' = [Attached(thr, t, c) EXCEPT ![c].pid = pid, ![c].tg = g]
           \/ /\ kind = "kthread"
              /\ thr' = [Attached(thr, initproc, c) EXCEPT ![c].pid = pid]
              /\ UNCHANGED group
        /\ Then(t, IF kind = "kthread" THEN "group" ELSE "start")
    /\ UNCHANGED <<allocated_cnt, readers, grace>>

\* kthread_create goes on without its group when there is no memory for one.
KthreadGroup(t) ==
    /\ At(t, "group")
    /\ \/ \E g \in Groups :
            /\ ~group[g].used
            /\ group' = [group EXCEPT ![g] = NewGroup(call[t].child, thr[call[t].child].pid)]
            /\ thr' = [thr EXCEPT ![call[t].child].tg = g]
       \/ UNCHANGED <<group, thr>>
    /\ Then(t, "start")
    /\ UNCHANGED <<nextpid, allocated_cnt, readers, grace>>

\* scheduler_wakeup of the child, which starts in user space (or in its entry).
CloneStart(t) ==
    /\ At(t, "start")
    /\ thr' = WakeAny(thr, call[t].child)
    /\ IF call[t].kind = "vfork"
       THEN /\ call' = [call EXCEPT ![call[t].child] = InUser, ![t].pc = "vfork"]
            /\ UNCHANGED grace
       ELSE /\ call' = [call EXCEPT ![call[t].child] = InUser, ![t] = InUser]
            /\ Quiescent(t)
    /\ UNCHANGED <<group, nextpid, allocated_cnt, readers>>

\* The caller of vfork yields; it runs again when it is woken.
VforkYield(t) ==
    /\ At(t, "vfork")
    /\ Yield(t)
    /\ call' = [call EXCEPT ![t] = InUser]
    /\ UNCHANGED <<group, nextpid, allocated_cnt, readers>>

\* vfork_done
VforkDone(t) == WakeAny([thr EXCEPT ![t].vfork = None], thr[t].vfork)

\* exec has replaced the address space of t.
Exec(t) ==
    /\ MayCall(t) /\ thr[t].vfork # None
    /\ thr' = VforkDone(t)
    /\ UNCHANGED <<group, call, nextpid, allocated_cnt, readers, grace>>

-----------------------------------------------------------------------------
(* exit.c: exit()                                                           *)

\* (killed stands for "killed or exiting": nothing reads it later.)
\* exit() is called, or usertrapret finds the thread killed.  init never exits.
ExitCall(t) ==
    /\ At(t, "user") /\ t # initproc
    /\ thr' = [VforkDone(t) EXCEPT ![t].killed = TRUE]
    /\ Then(t, IF SelfReaps(t) THEN "reparent" ELSE "leave")
    /\ UNCHANGED <<group, nextpid, allocated_cnt, readers, grace>>

\* thread_group_remove
Leave(g, t) == [group EXCEPT ![g].live = @ - 1, ![g].members = @ \ {t}]

\* The leader, or the only thread, leaves its group first.
ExitLeave(t) ==
    /\ At(t, "leave") /\ readers = {}
    /\ IF thr[t].tg = None
       THEN group' = group /\ call' = [call EXCEPT ![t].pc = "reparent", ![t].last = TRUE]
       ELSE /\ group' = Leave(thr[t].tg, t)
            /\ call' = [call EXCEPT ![t].pc = "reparent", ![t].last = group[thr[t].tg].live <= 1]
    /\ UNCHANGED <<thr, nextpid, allocated_cnt, readers, grace>>

\* reparent, under pid_wlock: the children go to init, which is woken when one of
\* them is a zombie.
Reparent(t) ==
    LET next == IF SelfReaps(t) THEN "remove" ELSE "zombie" IN
    /\ thr' = [c \in Threads |-> IF c = t THEN [thr[t] EXCEPT !.kids = {}]
                                 ELSE IF c = initproc THEN [thr[c] EXCEPT !.kids = @ \cup thr[t].kids]
                                 ELSE IF c \in thr[t].kids THEN [thr[c] EXCEPT !.parent = initproc]
                                 ELSE thr[c]]
    /\ call' = [call EXCEPT ![t].pc = IF \E c \in thr[t].kids : thr[c].state = "ZOMBIE"
                                      THEN "wakeinit" ELSE next,
                            ![t].kind = IF \E c \in thr[t].kids : thr[c].state = "ZOMBIE"
                                        THEN next ELSE None]

ExitReparent(t) ==
    /\ At(t, "reparent") /\ readers = {}
    /\ Reparent(t)
    /\ UNCHANGED <<group, nextpid, allocated_cnt, readers, grace>>

ExitWakeInit(t) ==
    /\ At(t, "wakeinit")
    /\ thr' = WakeInterruptible(thr, initproc)
    /\ call' = [call EXCEPT ![t].pc = call[t].kind, ![t].kind = None]
    /\ UNCHANGED <<group, nextpid, allocated_cnt, readers, grace>>

\* A thread that is not the leader: under pid_wlock it leaves the group and the table.
ExitRemove(t) ==
    /\ At(t, "remove") /\ readers = {}
    /\ group' = Leave(thr[t].tg, t)
    /\ thr' = [thr EXCEPT ![t].pid = 0]
    /\ FreePid
    /\ Then(t, IF group[thr[t].tg].live <= 1 THEN "lastout" ELSE "release")
    /\ UNCHANGED <<nextpid, readers, grace>>

\* The last thread of the group reads its leader's parent.  Nothing keeps the leader:
\* wait() may have reaped it, and what is read from a page that was freed is the
\* parent of any thread.
ExitLastOut(t) ==
    /\ At(t, "lastout")
    /\ LET l == group[thr[t].tg].leader IN
       \E p \in IF thr[l].live /\ thr[l].tg = thr[t].tg THEN {thr[l].parent} ELSE Threads \cup {None} :
            call' = [call EXCEPT ![t].pc = "notify", ![t].child = p, ![t].kind = "release"]
    /\ UNCHANGED <<thr, group, nextpid, allocated_cnt, readers, grace>>

\* The state becomes ZOMBIE under tcb_lock.
ExitZombie(t) ==
    /\ At(t, "zombie")
    /\ thr' = [thr EXCEPT ![t].state = "ZOMBIE"]
    /\ Then(t, "readparent")
    /\ UNCHANGED <<group, nextpid, allocated_cnt, readers, grace>>

\* The parent is read under pid_rlock; only the last of the group tells it.
ExitReadParent(t) ==
    /\ At(t, "readparent")
    /\ call' = [call EXCEPT ![t] = IF call[t].last
                                    THEN [@ EXCEPT !.pc = "notify", !.child = thr[t].parent,
                                                   !.kind = "switch"]
                                    ELSE [@ EXCEPT !.pc = "switch"]]
    /\ UNCHANGED <<thr, group, nextpid, allocated_cnt, readers, grace>>

\* Wake the parent and send it the exit signal, which wakes it too.
ExitNotify(t) ==
    /\ At(t, "notify")
    /\ thr' = WakeInterruptible(thr, call[t].child)
    /\ call' = [call EXCEPT ![t].pc = call[t].kind, ![t].child = None, ![t].kind = None]
    /\ UNCHANGED <<group, nextpid, allocated_cnt, readers, grace>>

\* What thread_destroy would do, done by the thread itself: ZOMBIE and SELF_REAP.
ExitRelease(t) ==
    /\ At(t, "release")
    /\ group' = GroupPut(group, thr[t].tg)
    /\ thr' = [thr EXCEPT ![t].tg = None, ![t].state = "ZOMBIE"]
    /\ Then(t, "selfreap")
    /\ UNCHANGED <<nextpid, allocated_cnt, readers, grace>>

\* context_switch_finish for a thread that reaps itself: its page is freed now.
SelfReap(t) ==
    /\ At(t, "selfreap")
    /\ thr' = [thr EXCEPT ![t] = FreeThread]
    /\ call' = [call EXCEPT ![t] = InUser]
    /\ Quiescent(t)
    /\ UNCHANGED <<group, nextpid, allocated_cnt, readers>>

\* context_switch_finish for any other zombie: on_cpu is cleared.
ExitSwitch(t) ==
    /\ At(t, "switch")
    /\ thr' = [thr EXCEPT ![t].queued = FALSE]
    /\ Then(t, "dead")
    /\ Quiescent(t)
    /\ UNCHANGED <<group, nextpid, allocated_cnt, readers>>

-----------------------------------------------------------------------------
(* exit.c: wait()                                                           *)

\* pid_rlock, and the state that says the caller sleeps.
WaitPrepare(t) ==
    /\ MayCall(t) \/ At(t, "wait")
    /\ readers' = readers \cup {t}
    /\ thr' = [thr EXCEPT ![t].state = "INTERRUPTIBLE"]
    /\ Then(t, "scan")
    /\ UNCHANGED <<group, nextpid, allocated_cnt, grace>>

Zombies(t) == {c \in thr[t].kids : thr[c].state = "ZOMBIE"}

\* A zombie that has left its CPU is taken.
WaitFind(t, c) ==
    /\ At(t, "scan") /\ c \in Zombies(t) /\ ~thr[c].queued
    /\ thr' = [thr EXCEPT ![t].state = "RUNNING"]
    /\ call' = [call EXCEPT ![t].pc = "reap", ![t].child = c]
    /\ UNCHANGED <<group, nextpid, allocated_cnt, readers, grace>>

\* It has not left its CPU for a thousand turns: yield without the lock, and spin again.
WaitSpin(t, c) ==
    /\ At(t, "scan") /\ c \in Zombies(t) /\ thr[c].queued
    /\ thr' = [thr EXCEPT ![t].state = "RUNNING"]
    /\ readers' = readers \ {t}
    /\ Then(t, "wait")
    /\ Quiescent(t)
    /\ UNCHANGED <<group, nextpid, allocated_cnt>>

\* No zombie: return -1 without children, sleep otherwise.
WaitNone(t) ==
    /\ At(t, "scan") /\ Zombies(t) = {}
    /\ readers' = readers \ {t}
    /\ IF thr[t].kids = {}
       THEN /\ thr' = [thr EXCEPT ![t].state = "RUNNING"]
            /\ call' = [call EXCEPT ![t] = InUser]
            /\ Quiescent(t)
       ELSE Then(t, "sleep") /\ UNCHANGED <<thr, grace>>
    /\ UNCHANGED <<group, nextpid, allocated_cnt>>

\* Bug: the state is set when the lock is dropped, after the scan.
SetsStateLate(t) ==
    /\ At(t, "sleep")
    /\ thr' = [thr EXCEPT ![t].state = "INTERRUPTIBLE", ![t].queued = FALSE]
    /\ Quiescent(t)
    /\ Then(t, "wait")
    /\ UNCHANGED <<group, nextpid, allocated_cnt, readers>>
WaitSleep(t) ==
    /\ At(t, "sleep")
    /\ Yield(t)
    /\ Then(t, "wait")
    /\ UNCHANGED <<group, nextpid, allocated_cnt, readers>>

\* detach_child, proctab_proc_remove, __free_pid and thread_destroy.
Reap(t, c) ==
    /\ thr' = [thr EXCEPT ![t].kids = @ \ {c}, ![c].parent = None, ![c].pid = 0, ![c].tg = None]
    /\ group' = GroupPut(group, thr[c].tg)
    /\ FreePid
    /\ DestroyLater(c)
    /\ call' = [call EXCEPT ![t] = InUser, ![c] = [InUser EXCEPT !.pc = "destroyed"]]

\* The read lock is upgraded, or dropped and taken again for writing.
WaitReap(t) ==
    /\ At(t, "reap")
    /\ \/ readers = {t} /\ Reap(t, call[t].child)
       \/ Then(t, "reaplocked") /\ UNCHANGED <<thr, group, allocated_cnt, grace>>
    /\ readers' = readers \ {t}
    /\ UNCHANGED nextpid

WaitReapLocked(t) ==
    /\ At(t, "reaplocked") /\ readers = {}
    /\ Reap(t, call[t].child)
    /\ UNCHANGED <<nextpid, readers>>

-----------------------------------------------------------------------------
(* thread_group.c: exit_group and SIGKILL; pid.c: lookups                   *)

\* The first caller of exit_group wins; the others just exit.
GroupExitCall(t) ==
    /\ MayCall(t) /\ t # initproc /\ thr[t].tg # None
    /\ IF group[thr[t].tg].exiting
       THEN thr' = [VforkDone(t) EXCEPT ![t].killed = TRUE] /\ UNCHANGED group
            /\ Then(t, IF SelfReaps(t) THEN "reparent" ELSE "leave")
       ELSE group' = [group EXCEPT ![thr[t].tg].exiting = TRUE] /\ Then(t, "killothers") /\ UNCHANGED thr
    /\ UNCHANGED <<nextpid, allocated_cnt, readers, grace>>

\* Under pid_rlock: the others are killed; the state of a sleeper is set to RUNNING
\* by hand, which puts it on no run queue.
GroupExitKill(t) ==
    /\ At(t, "killothers")
    /\ LET others == group[thr[t].tg].members \ {t} IN
       thr' = [o \in Threads |->
                  IF o \notin others THEN thr[o]
                  ELSE [thr[o] EXCEPT !.killed = TRUE,
                                      !.state = IF Sleeping(@) THEN "RUNNING" ELSE @]]
    /\ call' = [call EXCEPT ![t].pc = "user"]
    /\ UNCHANGED <<group, nextpid, allocated_cnt, readers, grace>>

\* tg_signal_send of SIGKILL: every member is killed, and woken if it may be.
KillGroup(g) ==
    /\ group[g].used /\ group[g].live > 0 /\ group[g].leader # initproc
    /\ thr' = [o \in Threads |->
                  IF o \notin group[g].members THEN thr[o]
                  ELSE [WakeInterruptible(thr, o)[o] EXCEPT !.killed = TRUE]]
    /\ UNCHANGED <<group, call, nextpid, allocated_cnt, readers, grace>>

\* get_pid_thread in tkill and tgkill: a pointer found without a lock, used ...
Lookup(t, p) ==
    /\ MayCall(t) /\ t \in Lookers /\ p \in Registered \ {t}
    /\ call' = [call EXCEPT ![t].pc = "lookup", ![t].child = p,
                            ![t].kind = thr[p].kind]
    /\ UNCHANGED <<thr, group, nextpid, allocated_cnt, readers, grace>>
\* ... until the read section ends.
LookupDone(t) ==
    /\ At(t, "lookup")
    /\ call' = [call EXCEPT ![t] = InUser]
    /\ Quiescent(t)
    /\ UNCHANGED <<thr, group, nextpid, allocated_cnt, readers>>

ProcessNext ==
    \/ \E t \in Threads :
        \/ \E kind \in CloneKinds : CloneReserve(t, kind)
        \/ CloneCreate(t) \/ CloneFail(t) \/ CloneAttach(t) \/ KthreadGroup(t) \/ CloneStart(t)
        \/ VforkYield(t) \/ Exec(t)
        \/ ExitCall(t) \/ ExitLeave(t) \/ ExitReparent(t) \/ ExitWakeInit(t) \/ ExitRemove(t)
        \/ ExitLastOut(t) \/ ExitZombie(t) \/ ExitReadParent(t) \/ ExitNotify(t)
        \/ ExitRelease(t) \/ SelfReap(t) \/ ExitSwitch(t)
        \/ WaitPrepare(t) \/ WaitNone(t) \/ WaitSleep(t) \/ WaitReap(t)
        \/ WaitReapLocked(t)
        \/ GroupExitCall(t) \/ GroupExitKill(t) \/ LookupDone(t) \/ RcuFree(t)
        \/ \E c \in Threads : WaitFind(t, c) \/ WaitSpin(t, c) \/ Lookup(t, c)
    \/ \E g \in Groups : KillGroup(g)

-----------------------------------------------------------------------------
(* Properties                                                               *)

\* PIDs are exact: registered threads have distinct pids, and allocated_cnt counts
\* the registered threads and the reservations of clones under way, so a slot is
\* neither leaked nor freed twice when a clone fails or a child is reaped.
PidsAreExact ==
    /\ \A t, u \in Registered : t # u => thr[t].pid # thr[u].pid
    /\ allocated_cnt = Cardinality(Registered)
                       + Cardinality({t \in Threads : Runs(t) /\ call[t].pc \in {"create", "attach"}})

\* A group's counters agree with the threads that refer to it, and no thread refers
\* to a freed group: thread_group_put and thread_group_remove run once per thread,
\* whoever reaps it.
GroupsAreExact ==
    \A g \in Groups :
        LET refs == {t \in Threads : thr[t].live /\ thr[t].tg = g} IN
        /\ group[g].used <=> refs # {}
        /\ group[g].used => group[g].ref = Cardinality(refs)
        /\ group[g].live = Cardinality(group[g].members)
        /\ \A t \in group[g].members : thr[t].live /\ thr[t].state # "ZOMBIE" /\ thr[t].tg = g

\* t sleeps in wait(), its child c can be reaped, and nobody is about to wake t.
Forgotten(t, c) ==
    /\ thr[t].live /\ ~thr[t].queued /\ thr[t].state = "INTERRUPTIBLE"
    /\ c \in thr[t].kids /\ thr[c].state = "ZOMBIE" /\ ~thr[c].queued
    /\ thr[c].tg # None => group[thr[c].tg].live = 0
    /\ \A u \in Threads : Runs(u) => call[u].pc \notin {"lastout", "wakeinit", "notify"}

\* A thread asleep in wait() has no child to reap that was the last of its group:
\* between its scan and its sleep no exit and no reparenting goes unnoticed.
WaiterIsTold == \A t, c \in Threads : call[c].last => ~Forgotten(t, c)

\* The caller of vfork asleep has a child that still owes it the wakeup.
VforkIsReleased ==
    \A t \in Threads :
        (thr[t].live /\ ~thr[t].queued /\ thr[t].state = "UNINTERRUPTIBLE" /\ call[t].pc = "user")
        => \E c \in Threads : thr[c].live /\ thr[c].vfork = t

\* Parents and lists of children agree, and no parent is a freed thread: a parent's
\* exit and its children's exits may interleave anyhow.
FamilyAgrees ==
    \A c \in Threads :
        thr[c].live /\ thr[c].kind # "thread" =>
            /\ \A t \in Threads : c \in thr[t].kids <=> thr[c].parent = t
            /\ thr[c].parent # None => thr[thr[c].parent].live /\ thr[thr[c].parent].pid # 0

\* A pointer from get_pid_thread points at a live thread while the read section
\* lasts, unless the thread reaped itself, which frees its page without waiting.
LookupIsSafe ==
    \A t \in Threads : Runs(t) /\ call[t].pc = "lookup" /\ call[t].kind # "thread" =>
        thr[call[t].child].live

=============================================================================
