---------------------------- MODULE ProcessProofs ----------------------------
(***************************************************************************)
(* For any finite set of threads, any groups and any limits: pids, slots   *)
(* and thread groups are given back exactly once, parents and lists of     *)
(* children agree, a thread found by its pid lives as long as the reader   *)
(* looks at it, and nobody sleeps in wait() or after vfork past what it    *)
(* waits for.                                                              *)
(*                                                                         *)
(* None of this is inductive.  That a count is right after exit, wait or a *)
(* failed clone depends on how far each thread has come: CountInv says     *)
(* what a thread's place in the kernel implies about its record (Sound),   *)
(* who owns a thread that is being made (ChildIsNew, OneCreator) or reaped *)
(* (ZombieIsTaken), whom a grace period waits for (LookedUp), and who is   *)
(* still in the list of a group (Members).                                 *)
(*                                                                         *)
(* There is one lemma per action, <Action>Keeps.  Most actions move one    *)
(* thread and at most wake others; OneMoves and its special cases show     *)
(* once what such a step keeps.  The steps that make, attach, detach or    *)
(* free a thread have lemmas of their own about the pids, the groups and   *)
(* the families.                                                           *)
(*                                                                         *)
(* A sleeper is told because a step that makes a zombie child, or hands    *)
(* one over, leaves somebody who is about to wake the parent (Told), and   *)
(* a child of vfork keeps its creator's name until it wakes it             *)
(* (VforkOwing).  SleepInv rests on CountInv: who is whose child, and that *)
(* whoever is about to tell is on a CPU.  Most steps are calm (Calm): they *)
(* put nobody to sleep and stop nobody who tells.                          *)
(***************************************************************************)
EXTENDS MCProcess, FiniteSetTheorems, WellFoundedInduction, TLAPS

\* The values of the records and variables of Process.
States == {"UNUSED", "RUNNING", "INTERRUPTIBLE", "UNINTERRUPTIBLE", "ZOMBIE"}
Kinds == {"process", "thread", "kthread"}
ThreadRecord ==
    [live : BOOLEAN, state : States, queued : BOOLEAN, pid : 0 .. MAXPID - 1,
     parent : Threads \cup {None}, kids : SUBSET Threads, tg : Groups \cup {None},
     vfork : Threads \cup {None}, kind : Kinds, killed : BOOLEAN]
GroupRecord ==
    [used : BOOLEAN, leader : Threads \cup {None}, tgid : Nat, live : Int, ref : Int,
     exiting : BOOLEAN, members : SUBSET Threads]
Pcs == {"user", "create", "attach", "group", "start", "vfork", "new", "leave", "reparent",
        "wakeinit", "remove", "lastout", "zombie", "readparent", "notify", "release",
        "selfreap", "switch", "dead", "destroyed", "scan", "reap", "reaplocked", "wait",
        "sleep", "killothers", "lookup"}
CallKindSet == {None, "fork", "vfork", "thread", "kthread", "process", "remove", "zombie",
                "release", "switch"}
CallRecord == [pc : Pcs, kind : CallKindSet, child : Threads \cup {None}, last : BOOLEAN]

ProcTypeOK ==
    /\ thr \in [Threads -> ThreadRecord]
    /\ group \in [Groups -> GroupRecord]
    /\ call \in [Threads -> CallRecord]
    /\ nextpid \in Nat /\ nextpid >= 2 /\ (nextpid = 2 \/ nextpid < MAXPID)
    /\ allocated_cnt \in Int /\ allocated_cnt <= NR_THREAD
    /\ readers \in SUBSET Threads
    /\ grace \in [Threads -> SUBSET Threads]

-----------------------------------------------------------------------------
(* What the place of a thread in the kernel says of its record              *)

\* SelfReaps, of a thread that has its group.
OwnReaper(t) == /\ thr[t].kind = "thread" /\ thr[t].tg \in Groups
                /\ group[thr[t].tg].leader # t
\* It has given its own pid back.
PidIsBack(k) == k.pc \in {"lastout", "release", "selfreap"} \/ (k.pc = "notify" /\ k.kind = "release")
\* On the way out of a thread that reaps itself, and of one that is reaped.
OwnWay(k) ==
    \/ k.pc \in {"remove", "lastout", "release"}
    \/ k.pc = "notify" /\ k.kind = "release"
    \/ k.pc = "wakeinit" /\ k.kind = "remove"
ZombieWay(k) ==
    \/ k.pc \in {"leave", "zombie", "readparent", "switch", "dead"}
    \/ k.pc = "notify" /\ k.kind = "switch"
    \/ k.pc = "wakeinit" /\ k.kind = "zombie"
\* After reparent a thread has no children; on the way out it is in one of Exiting.
Childless == {"wakeinit", "remove", "lastout", "zombie", "readparent", "notify", "release", "selfreap",
              "switch", "dead", "destroyed", "new"}
Exiting == {"leave", "reparent", "wakeinit", "remove", "lastout", "zombie", "readparent", "notify",
            "release", "selfreap", "switch", "dead"}
\* The pcs of a thread that may be off its CPU.
OffCpu == {"user", "new", "wait", "dead", "destroyed"}

\* Record r and call k of thread t fit together; s says that t reaps itself.
Sound(t, r, k, s) ==
    /\ ~r.live => r = FreeThread /\ k.pc = "user"
    /\ k.pc \in OffCpu \/ r.queued
    /\ r.state = "ZOMBIE" => /\ k.pc \in {"readparent", "notify", "switch", "dead", "selfreap", "destroyed"}
                             /\ k.pc = "notify" => k.kind = "switch"
    /\ PidIsBack(k) \/ k.pc = "destroyed" => r.pid = 0
    /\ r.live /\ r.pid = 0 => PidIsBack(k) \/ k.pc \in {"destroyed", "new"}
    /\ k.pc \in {"selfreap", "destroyed"} => r.tg = None
    /\ r.live /\ r.kind # "kthread" /\ r.tg = None => k.pc \in {"new", "selfreap", "destroyed"}
    /\ OwnWay(k) => s
    /\ ZombieWay(k) => ~s
    /\ k.pc = "selfreap" => r.kind = "thread"
    /\ k.pc = "notify" => k.kind \in {"release", "switch"}
    /\ k.pc = "wakeinit" => k.kind \in {"remove", "zombie"}
    /\ k.pc \in Childless => r.kids = {}
    /\ k.pc = "destroyed" => r.parent = None
    /\ t \notin r.kids
    /\ k.pc = "killothers" => r.tg # None
    /\ k.pc \in {"create", "attach"} =>
          /\ k.kind \in {"fork", "vfork", "thread", "kthread"}
          /\ k.kind # "kthread" => r.kind # "kthread"
    /\ t = initproc => /\ r.live /\ r.pid = 1 /\ r.kind = "process" /\ r.parent = None
                       /\ k.pc \notin Exiting \cup {"new", "destroyed"}
ThreadsSound == \A t \in Threads : Sound(t, thr[t], call[t], OwnReaper(t))

\* clone: the new thread is its creator's alone, and as far as the creator has come.
Creates(t) == call[t].pc \in {"attach", "group", "start"}
Creation(k, r, ck) ==
    /\ ck.pc = "new"
    /\ k.pc = "attach" => /\ r.pid = 0 /\ r.tg = None /\ r.parent = None
                          /\ k.kind = "thread" <=> r.kind = "thread"
                          /\ k.kind = "kthread" <=> r.kind = "kthread"
    /\ k.pc # "attach" => r.pid # 0
    /\ k.pc = "group" => r.tg = None /\ r.kind = "kthread"
    /\ k.pc = "start" => r.kind = "kthread" \/ r.tg # None
ChildIsNew ==
    \A t \in Threads : Creates(t) =>
        /\ call[t].child \in Threads
        /\ Creation(call[t], thr[call[t].child], call[call[t].child])
OneCreator == \A t, u \in Threads : Creates(t) /\ Creates(u) /\ call[t].child = call[u].child => t = u

\* wait: the zombie a reaper took is still its dead child.
ZombieIsTaken ==
    \A t \in Threads : call[t].pc \in {"reap", "reaplocked"} =>
        call[t].child \in thr[t].kids /\ call[call[t].child].pc = "dead"

\* A child is live, is no thread of a group, and knows its parent.
KidsAgree ==
    \A t \in Threads : \A c \in thr[t].kids :
        thr[c].live /\ thr[c].kind # "thread" /\ thr[c].parent = t

\* thread_list holds the threads of the group that have not left it.
Left(k, s) ==
    \/ k.pc \in {"lastout", "release", "selfreap", "zombie", "readparent", "switch", "dead", "notify"}
    \/ k.pc = "wakeinit" /\ k.kind = "zombie"
    \/ k.pc = "reparent" /\ ~s
Members ==
    \A g \in Groups : \A t \in Threads :
        t \in group[g].members <=> thr[t].live /\ thr[t].tg = g /\ ~Left(call[t], OwnReaper(t))
UnusedGroups ==
    \A g \in Groups : /\ ~group[g].used => group[g] = FreeGroup
                      /\ group[g].used => group[g].leader \in Threads

\* The threads that refer to g, and the clones that have reserved a pid.
Refs(g) == {t \in Threads : thr[t].live /\ thr[t].tg = g}
Reserving == {t \in Threads : Runs(t) /\ call[t].pc \in {"create", "attach"}}
GroupsCount ==
    \A g \in Groups :
        /\ group[g].used <=> Refs(g) # {}
        /\ group[g].used => group[g].ref = Cardinality(Refs(g))
        /\ group[g].live = Cardinality(group[g].members)

\* The page of a thread that a reader found waits for that reader.
LookedUp ==
    \A t \in Threads : call[t].pc = "lookup" /\ call[t].kind # "thread" =>
        LET p == call[t].child IN
        /\ p \in Threads /\ thr[p].live /\ thr[p].kind # "thread"
        /\ call[p].pc = "destroyed" => t \in grace[p]

\* The inductive invariant, by subject.
Places == ThreadsSound /\ ChildIsNew /\ OneCreator /\ ZombieIsTaken /\ LookedUp
Families == KidsAgree /\ FamilyAgrees
Counting == PidsAreExact /\ Members /\ UnusedGroups /\ GroupsCount
CountInv == ProcTypeOK /\ Places /\ Families /\ Counting

-----------------------------------------------------------------------------
\* Steps that leave the identity of a thread alone, and steps of others that may
\* at most wake it.
Same(r, q) == /\ q.live = r.live /\ q.pid = r.pid /\ q.parent = r.parent /\ q.kids = r.kids
              /\ q.tg = r.tg /\ q.kind = r.kind
Kept(r, q) == /\ Same(r, q)
              /\ ~r.live => q = r
              /\ r.queued => q.queued
              /\ q.state = "ZOMBIE" => r.state = "ZOMBIE"
SameGroup(g, h) == /\ h.used = g.used /\ h.leader = g.leader /\ h.members = g.members
                   /\ h.live = g.live /\ h.ref = g.ref /\ (~g.used => h = g)

\* The assumptions on the constants, one by one.
LEMMA Consts ==
    /\ IsFiniteSet(Threads) /\ initproc \in Threads /\ None \notin Threads /\ None \notin Groups
    /\ NR_THREAD \in Nat /\ NR_THREAD >= 1 /\ MAXPID \in Nat /\ MAXPID > NR_THREAD
BY ProcessAssumption DEF None

\* A thread that is woken is kept.
LEMMA WokenKeeps ==
    ASSUME NEW th \in [Threads -> ThreadRecord], NEW p \in Threads \cup {None}, NEW states,
           "ZOMBIE" \notin states
    PROVE  /\ Woken(th, p, states) \in [Threads -> ThreadRecord]
           /\ \A u \in Threads : Kept(th[u], Woken(th, p, states)[u])
           /\ \A u \in Threads \ {p} : Woken(th, p, states)[u] = th[u]
           /\ \A u \in Threads : Woken(th, p, states)[u].killed = th[u].killed
                                 /\ Woken(th, p, states)[u].vfork = th[u].vfork
<1>1. CASE p = None \/ ~th[p].live \/ th[p].state \notin states
    <2>1. Woken(th, p, states) = th BY <1>1 DEF Woken
    <2>2. QED BY <2>1 DEF Kept, Same
<1>2. CASE ~(p = None \/ ~th[p].live \/ th[p].state \notin states)
    <2>1. Woken(th, p, states) = [th EXCEPT ![p].state = "RUNNING", ![p].queued = TRUE]
        BY <1>2 DEF Woken
    <2>2. p \in Threads BY <1>2
    <2> DEFINE w == [th[p] EXCEPT !.state = "RUNNING", !.queued = TRUE]
    <2>3. /\ w \in ThreadRecord /\ Same(th[p], w) /\ w.queued /\ w.state = "RUNNING"
          /\ w.killed = th[p].killed /\ w.vfork = th[p].vfork
        <3>1. th[p] \in ThreadRecord BY <2>2
        <3>2. w \in ThreadRecord BY <3>1 DEF ThreadRecord, States
        <3>3. w.state = "RUNNING" /\ w.queued = TRUE BY <3>1 DEF ThreadRecord
        <3>4. Same(th[p], w) BY <3>1 DEF Same, ThreadRecord
        <3>5. w.killed = th[p].killed /\ w.vfork = th[p].vfork BY <3>1 DEF ThreadRecord
        <3>6. QED BY <3>2, <3>3, <3>4, <3>5
    <2>4. Woken(th, p, states) = [th EXCEPT ![p] = w] BY <2>1, <2>2
    <2> HIDE DEF w
    <2>5. QED BY <1>2, <2>2, <2>3, <2>4 DEF Kept, Same
<1>3. QED BY <1>1, <1>2

\* Whether a thread reaps itself depends on what a quiet step keeps.
LEMMA OwnReaperKept ==
    ASSUME NEW t \in Threads, thr'[t].kind = thr[t].kind, thr'[t].tg = thr[t].tg,
           \A g \in Groups : group'[g].leader = group[g].leader
    PROVE  OwnReaper(t)' <=> OwnReaper(t)
BY DEF OwnReaper

\* A thread that is at most woken stays sound where it is.
LEMMA SoundKept ==
    ASSUME NEW t \in Threads, NEW r \in ThreadRecord, NEW q \in ThreadRecord, NEW k \in CallRecord, NEW s,
           Sound(t, r, k, s), Kept(r, q)
    PROVE  Sound(t, q, k, s)
<1> USE DEF Sound, Kept, Same
<1>1. QED OBVIOUS

\* The counts of a step that keeps who is live, who has a pid and who is cloning.
LEMMA PidsKept ==
    ASSUME PidsAreExact, \A u \in Threads : thr'[u].live = thr[u].live /\ thr'[u].pid = thr[u].pid,
           Reserving' = Reserving, allocated_cnt' = allocated_cnt
    PROVE  PidsAreExact'
<1>1. Registered' = Registered BY DEF Registered
<1>2. \A t \in Registered : thr'[t].pid = thr[t].pid BY DEF Registered
<1>3. QED BY <1>1, <1>2 DEF PidsAreExact, Reserving

\* Parents and children agree after a step that keeps who they are.
LEMMA FamiliesKept ==
    ASSUME Families, ProcTypeOK, ThreadsSound, \A u \in Threads : Same(thr[u], thr'[u])
    PROVE  Families'
<1>1. KidsAgree' BY DEF Families, KidsAgree, Same, ProcTypeOK, ThreadRecord
<1>2. FamilyAgrees' 
    <2>1. \A c \in Threads : thr[c].parent \in Threads \cup {None} BY DEF ProcTypeOK, ThreadRecord
    <2>2. QED BY <2>1, Consts DEF Families, FamilyAgrees, Same
<1>3. QED BY <1>1, <1>2 DEF Families

\* The groups are counted after a step that keeps their fields and their threads.
LEMMA GroupsKept ==
    ASSUME GroupsCount, UnusedGroups, \A u \in Threads : Same(thr[u], thr'[u]),
           \A g \in Groups : SameGroup(group[g], group'[g])
    PROVE  GroupsCount' /\ UnusedGroups'
<1>1. \A g \in Groups : Refs(g)' = Refs(g) BY DEF Refs, Same
<1>2. GroupsCount' BY <1>1 DEF GroupsCount, SameGroup
<1>3. UnusedGroups' BY DEF UnusedGroups, SameGroup
<1>4. QED BY <1>2, <1>3
-----------------------------------------------------------------------------
(* One thread moves in the kernel; of the others at most the wakeups change. *)

\* One thread moves from one place to another, the others are kept.
LEMMA OneMoves ==
    ASSUME CountInv, ProcTypeOK', NEW t \in Threads, NEW k \in CallRecord,
           call' = [call EXCEPT ![t] = k],
           \A u \in Threads \ {t} : Kept(thr[u], thr'[u]),
           Same(thr[t], thr'[t]),
           \A g \in Groups : SameGroup(group[g], group'[g]),
           Sound(t, thr'[t], k, OwnReaper(t)),
           Left(k, OwnReaper(t)) <=> Left(call[t], OwnReaper(t)),
           call[t].pc \notin {"new", "dead", "destroyed"},
           k.pc \notin {"attach", "group", "start", "destroyed"},
           k.pc \in {"reap", "reaplocked"} => k.child \in thr[t].kids /\ call[k.child].pc = "dead",
           k.pc = "lookup" /\ k.kind # "thread" =>
               /\ k.child \in Threads /\ thr[k.child].live /\ thr[k.child].kind # "thread"
               /\ call[k.child].pc # "destroyed",
           \A d \in Threads : grace[d] \ {t} \subseteq grace'[d],
           PidsAreExact'
    PROVE  CountInv'
<1>t. ProcTypeOK /\ thr \in [Threads -> ThreadRecord] /\ thr' \in [Threads -> ThreadRecord]
      /\ call \in [Threads -> CallRecord]
    BY DEF CountInv, ProcTypeOK
<1>c. call'[t] = k /\ \A u \in Threads \ {t} : call'[u] = call[u] BY <1>t
<1>s. \A u \in Threads : Same(thr[u], thr'[u]) BY DEF Kept
<1>o. \A u \in Threads : OwnReaper(u)' <=> OwnReaper(u)
    BY <1>s, OwnReaperKept DEF Same, SameGroup
<1>1. ThreadsSound'
    <2> SUFFICES ASSUME NEW u \in Threads PROVE Sound(u, thr'[u], call'[u], OwnReaper(u)')
        BY DEF ThreadsSound
    <2>1. CASE u = t BY <2>1, <1>c, <1>o DEF Sound
    <2>2. CASE u # t
        <3>1. Sound(u, thr[u], call[u], OwnReaper(u)) BY DEF CountInv, Places, ThreadsSound
        <3>2. Sound(u, thr'[u], call[u], OwnReaper(u)) BY <2>2, <3>1, <1>t, SoundKept
        <3>3. QED BY <2>2, <3>2, <1>c, <1>o DEF Sound
    <2>3. QED BY <2>1, <2>2
<1>2. ChildIsNew'
    <2> SUFFICES ASSUME NEW u \in Threads, Creates(u)'
                 PROVE  call'[u].child \in Threads
                        /\ Creation(call'[u], thr'[call'[u].child], call'[call'[u].child])
        BY DEF ChildIsNew
    <2>1. u # t /\ call'[u] = call[u] /\ Creates(u) BY <1>c DEF Creates
    <2>2. call[u].child \in Threads /\ Creation(call[u], thr[call[u].child], call[call[u].child])
        BY <2>1 DEF CountInv, Places, ChildIsNew
    <2>3. call[u].child # t BY <2>2 DEF Creation
    <2>4. call'[call[u].child] = call[call[u].child] /\ Same(thr[call[u].child], thr'[call[u].child])
        BY <2>2, <2>3, <1>c, <1>s
    <2>5. QED BY <2>1, <2>2, <2>4 DEF Creation, Same
<1>3. OneCreator'
    <2>1. \A u \in Threads : Creates(u)' => u # t /\ Creates(u) /\ call'[u] = call[u] BY <1>c DEF Creates
    <2>2. QED BY <2>1 DEF CountInv, Places, OneCreator
<1>4. ZombieIsTaken'
    <2> SUFFICES ASSUME NEW u \in Threads, call'[u].pc \in {"reap", "reaplocked"}
                 PROVE  call'[u].child \in thr'[u].kids /\ call'[call'[u].child].pc = "dead"
        BY DEF ZombieIsTaken
    <2>1. call'[u].child \in thr[u].kids /\ call[call'[u].child].pc = "dead"
        <3>1. CASE u = t BY <3>1, <1>c
        <3>2. CASE u # t BY <3>2, <1>c DEF CountInv, Places, ZombieIsTaken
        <3>3. QED BY <3>1, <3>2
    <2>2. call'[u].child \in Threads /\ call'[u].child # t BY <2>1, <1>t DEF ThreadRecord
    <2>3. QED BY <2>1, <2>2, <1>c, <1>s DEF Same
<1>5. LookedUp'
    <2> SUFFICES ASSUME NEW u \in Threads, call'[u].pc = "lookup", call'[u].kind # "thread"
                 PROVE  LET p == call'[u].child IN
                        /\ p \in Threads /\ thr'[p].live /\ thr'[p].kind # "thread"
                        /\ call'[p].pc = "destroyed" => u \in grace'[p]
        BY DEF LookedUp
    <2> DEFINE p == call'[u].child
    <2>1. CASE u = t
        <3>1. p \in Threads /\ thr[p].live /\ thr[p].kind # "thread" /\ call[p].pc # "destroyed"
            BY <2>1, <1>c
        <3>2. call'[p].pc # "destroyed" BY <3>1, <1>c
        <3>3. QED BY <3>1, <3>2, <1>s DEF Same
    <2>2. CASE u # t
        <3>1. /\ p \in Threads /\ thr[p].live /\ thr[p].kind # "thread"
              /\ call[p].pc = "destroyed" => u \in grace[p]
            BY <2>2, <1>c DEF CountInv, Places, LookedUp
        <3>2. call'[p].pc = "destroyed" => call[p].pc = "destroyed" BY <3>1, <1>c
        <3>3. QED BY <2>2, <3>1, <3>2, <1>s DEF Same
    <2>3. QED BY <2>1, <2>2
<1>6. Families' BY <1>s, <1>t, FamiliesKept DEF CountInv, Places
<1>7. GroupsCount' /\ UnusedGroups' BY <1>s, GroupsKept DEF CountInv, Counting
<1>8. Members'
    <2> SUFFICES ASSUME NEW g \in Groups, NEW u \in Threads
                 PROVE  u \in group'[g].members <=>
                            thr'[u].live /\ thr'[u].tg = g /\ ~Left(call'[u], OwnReaper(u)')
        BY DEF Members
    <2>1. u \in group[g].members <=> thr[u].live /\ thr[u].tg = g /\ ~Left(call[u], OwnReaper(u))
        BY DEF CountInv, Counting, Members
    <2>2. Left(call'[u], OwnReaper(u)') <=> Left(call[u], OwnReaper(u))
        <3>1. CASE u = t BY <3>1, <1>c, <1>o DEF Left
        <3>2. CASE u # t BY <3>2, <1>c, <1>o DEF Left
        <3>3. QED BY <3>1, <3>2
    <2>3. group'[g].members = group[g].members BY DEF SameGroup
    <2>4. QED BY <2>1, <2>2, <2>3, <1>s DEF Same
<1>9. QED BY <1>1, <1>2, <1>3, <1>4, <1>5, <1>6, <1>7, <1>8 DEF CountInv, Places, Counting

\* The same for a step that neither starts a clone nor ends its reservation.
LEMMA QuietMove ==
    ASSUME CountInv, ProcTypeOK', NEW t \in Threads, NEW k \in CallRecord,
           call' = [call EXCEPT ![t] = k],
           \A u \in Threads \ {t} : Kept(thr[u], thr'[u]),
           Same(thr[t], thr'[t]),
           \A g \in Groups : SameGroup(group[g], group'[g]),
           Sound(t, thr'[t], k, OwnReaper(t)),
           Left(k, OwnReaper(t)) <=> Left(call[t], OwnReaper(t)),
           call[t].pc \notin {"new", "dead", "destroyed", "create", "attach"},
           k.pc \notin {"attach", "group", "start", "destroyed", "create"},
           k.pc \in {"reap", "reaplocked"} => k.child \in thr[t].kids /\ call[k.child].pc = "dead",
           k.pc = "lookup" /\ k.kind # "thread" =>
               /\ k.child \in Threads /\ thr[k.child].live /\ thr[k.child].kind # "thread"
               /\ call[k.child].pc # "destroyed",
           \A d \in Threads : grace[d] \ {t} \subseteq grace'[d],
           allocated_cnt' = allocated_cnt
    PROVE  CountInv'
<1>t. call \in [Threads -> CallRecord] BY DEF CountInv, ProcTypeOK
<1>c. call'[t] = k /\ \A u \in Threads \ {t} : call'[u] = call[u] BY <1>t
<1>1. Reserving' = Reserving
    <2> SUFFICES ASSUME NEW u \in Threads
                 PROVE  (Runs(u) /\ call[u].pc \in {"create", "attach"})
                        <=> (Runs(u)' /\ call'[u].pc \in {"create", "attach"})
        BY DEF Reserving
    <2>1. CASE u = t BY <2>1, <1>c
    <2>2. CASE u # t
        <3>1. call'[u] = call[u] /\ Kept(thr[u], thr'[u]) BY <2>2, <1>c
        <3>2. Sound(u, thr[u], call[u], OwnReaper(u)) BY DEF CountInv, Places, ThreadsSound
        <3>3. call[u].pc \in {"create", "attach"} => thr[u].queued BY <3>2 DEF Sound, OffCpu
        <3>4. QED BY <3>1, <3>3 DEF Runs, Kept, Same
    <2>3. QED BY <2>1, <2>2
<1>2. \A u \in Threads : thr'[u].live = thr[u].live /\ thr'[u].pid = thr[u].pid BY DEF Kept, Same
<1>3. PidsAreExact' BY <1>1, <1>2, PidsKept DEF CountInv, Counting
<1>4. QED BY <1>3, OneMoves

\* What a running thread's record is, from the invariant.
LEMMA ThreadFacts ==
    ASSUME CountInv, NEW t \in Threads
    PROVE  /\ thr[t] \in ThreadRecord /\ call[t] \in CallRecord
           /\ Sound(t, thr[t], call[t], OwnReaper(t))
           /\ thr \in [Threads -> ThreadRecord] /\ call \in [Threads -> CallRecord]
           /\ group \in [Groups -> GroupRecord] /\ grace \in [Threads -> SUBSET Threads]
BY DEF CountInv, ProcTypeOK, Places, ThreadsSound

\* A thread on its way to the exit knows its group if it is one of several threads.
LEMMA SelfReapsIs ==
    ASSUME CountInv, NEW t \in Threads, thr[t].live, call[t].pc \notin {"new", "selfreap", "destroyed"}
    PROVE  SelfReaps(t) <=> OwnReaper(t)
<1>1. Sound(t, thr[t], call[t], OwnReaper(t)) /\ thr[t] \in ThreadRecord BY ThreadFacts
<1>2. thr[t].kind = "thread" => thr[t].tg \in Groups BY <1>1 DEF Sound, ThreadRecord
<1>3. QED BY <1>2 DEF SelfReaps, OwnReaper

\* Then(t, pc) changes the pc of t.
LEMMA ThenIs ==
    ASSUME call \in [Threads -> CallRecord], NEW t \in Threads, NEW x \in Pcs, Then(t, x)
    PROVE  \E k \in CallRecord : /\ call' = [call EXCEPT ![t] = k]
                                 /\ k.pc = x /\ k.kind = call[t].kind /\ k.child = call[t].child
                                 /\ k.last = call[t].last
<1> DEFINE k == [call[t] EXCEPT !.pc = x]
<1>1. call[t] \in CallRecord OBVIOUS
<1>2. k \in CallRecord BY <1>1 DEF CallRecord
<1>3. k.pc = x /\ k.kind = call[t].kind /\ k.child = call[t].child /\ k.last = call[t].last
    BY <1>1 DEF CallRecord
<1>4. call' = [call EXCEPT ![t] = k] BY DEF Then
<1>5. QED BY <1>2, <1>3, <1>4

\* The record of a thread in user space.
LEMMA InUserType == InUser \in CallRecord /\ InUser.pc = "user" /\ InUser.kind = None
BY DEF InUser, CallRecord, Pcs, CallKindSet

\* A quiescent state takes one thread out of the grace periods.
LEMMA QuiescentIs ==
    ASSUME grace \in [Threads -> SUBSET Threads], NEW t \in Threads, Quiescent(t)
    PROVE  grace' \in [Threads -> SUBSET Threads] /\ \A d \in Threads : grace[d] \ {t} \subseteq grace'[d]
BY DEF Quiescent

\* A change of the fields that no count depends on.
LEMMA StateField ==
    ASSUME NEW r \in ThreadRecord, NEW x \in States
    PROVE  /\ [r EXCEPT !.state = x] \in ThreadRecord /\ Same(r, [r EXCEPT !.state = x])
           /\ [r EXCEPT !.state = x].state = x /\ [r EXCEPT !.state = x].queued = r.queued
           /\ [r EXCEPT !.state = x].vfork = r.vfork
BY DEF ThreadRecord, Same

\* The same for queued,
LEMMA QueuedField ==
    ASSUME NEW r \in ThreadRecord, NEW x \in BOOLEAN
    PROVE  /\ [r EXCEPT !.queued = x] \in ThreadRecord /\ Same(r, [r EXCEPT !.queued = x])
           /\ [r EXCEPT !.queued = x].state = r.state /\ [r EXCEPT !.queued = x].queued = x
           /\ [r EXCEPT !.queued = x].vfork = r.vfork
BY DEF ThreadRecord, Same

\* for killed,
LEMMA KilledField ==
    ASSUME NEW r \in ThreadRecord
    PROVE  /\ [r EXCEPT !.killed = TRUE] \in ThreadRecord /\ Same(r, [r EXCEPT !.killed = TRUE])
           /\ [r EXCEPT !.killed = TRUE].state = r.state /\ [r EXCEPT !.killed = TRUE].queued = r.queued
           /\ [r EXCEPT !.killed = TRUE].vfork = r.vfork
BY DEF ThreadRecord, Same

\* and for vfork.
LEMMA VforkField ==
    ASSUME NEW r \in ThreadRecord
    PROVE  /\ [r EXCEPT !.vfork = None] \in ThreadRecord /\ Same(r, [r EXCEPT !.vfork = None])
           /\ [r EXCEPT !.vfork = None].state = r.state /\ [r EXCEPT !.vfork = None].queued = r.queued
           /\ [r EXCEPT !.vfork = None].vfork = None
BY DEF ThreadRecord, Same

\* A record that is not changed is kept,
LEMMA KeptRefl == ASSUME NEW r PROVE Kept(r, r) /\ Same(r, r)
BY DEF Kept, Same

\* and so are the groups.
LEMMA GroupsSame == ASSUME UNCHANGED group PROVE \A g \in Groups : SameGroup(group[g], group'[g])
BY DEF SameGroup

\* A step of t from one place to another that no other thread relies on.
Moves(t, k) ==
    /\ Left(k, OwnReaper(t)) <=> Left(call[t], OwnReaper(t))
    /\ call[t].pc \notin {"new", "dead", "destroyed", "create", "attach"}
    /\ k.pc \notin {"attach", "group", "start", "destroyed", "create"}
    /\ k.pc \in {"reap", "reaplocked"} => k.child \in thr[t].kids /\ call[k.child].pc = "dead"
    /\ k.pc = "lookup" /\ k.kind # "thread" =>
          /\ k.child \in Threads /\ thr[k.child].live /\ thr[k.child].kind # "thread"
          /\ call[k.child].pc # "destroyed"

\* Such a step that changes only t's own record.
LEMMA OwnMove ==
    ASSUME CountInv, NEW t \in Threads, NEW r \in ThreadRecord, NEW k \in CallRecord,
           thr' = [thr EXCEPT ![t] = r], Same(thr[t], r), call' = [call EXCEPT ![t] = k],
           Sound(t, r, k, OwnReaper(t)), Moves(t, k),
           readers' \in SUBSET Threads, UNCHANGED grace \/ Quiescent(t),
           UNCHANGED <<group, nextpid, allocated_cnt>>
    PROVE  CountInv'
<1>f. /\ thr \in [Threads -> ThreadRecord] /\ call \in [Threads -> CallRecord]
      /\ grace \in [Threads -> SUBSET Threads]
    BY ThreadFacts
<1>1. grace' \in [Threads -> SUBSET Threads] /\ \A d \in Threads : grace[d] \ {t} \subseteq grace'[d]
    BY <1>f, QuiescentIs
<1>2. ProcTypeOK' BY <1>f, <1>1 DEF CountInv, ProcTypeOK
<1>3. thr'[t] = r /\ \A u \in Threads \ {t} : Kept(thr[u], thr'[u]) BY <1>f, KeptRefl
<1>4. QED BY <1>1, <1>2, <1>3, QuietMove, GroupsSame DEF Moves

\* Such a step that wakes others.
LEMMA WakingMove ==
    ASSUME CountInv, NEW t \in Threads, NEW k \in CallRecord,
           thr' \in [Threads -> ThreadRecord], \A u \in Threads : Kept(thr[u], thr'[u]),
           call' = [call EXCEPT ![t] = k],
           Sound(t, thr[t], k, OwnReaper(t)), Moves(t, k),
           UNCHANGED <<group, nextpid, allocated_cnt, readers, grace>>
    PROVE  CountInv'
<1>f. /\ thr \in [Threads -> ThreadRecord] /\ call \in [Threads -> CallRecord]
    BY ThreadFacts
<1>1. ProcTypeOK' BY <1>f DEF CountInv, ProcTypeOK
<1>2. Sound(t, thr'[t], k, OwnReaper(t)) BY <1>f, SoundKept
<1>3. Same(thr[t], thr'[t]) BY DEF Kept
<1>4. QED BY <1>1, <1>2, <1>3, QuietMove, GroupsSame DEF Moves

\* The caller of vfork yields.
LEMMA VforkYieldKeeps ==
    ASSUME CountInv, NEW t \in Threads, VforkYield(t)
    PROVE  CountInv'
<1> DEFINE r == [thr[t] EXCEPT !.queued = ~Sleeping(thr[t].state)]
<1>f. /\ thr[t] \in ThreadRecord /\ call[t] \in CallRecord /\ Sound(t, thr[t], call[t], OwnReaper(t))
    BY ThreadFacts
<1>1. /\ thr[t].live /\ thr[t].queued /\ call[t].pc = "vfork"
      /\ thr' = [thr EXCEPT ![t] = r] /\ Quiescent(t) /\ call' = [call EXCEPT ![t] = InUser]
      /\ UNCHANGED <<group, nextpid, allocated_cnt, readers>>
    BY DEF VforkYield, At, Runs, Yield
<1>2. (~Sleeping(thr[t].state)) \in BOOLEAN BY DEF Sleeping
<1>3. r \in ThreadRecord /\ Same(thr[t], r) /\ r.state = thr[t].state BY <1>f, <1>2, QueuedField
<1> HIDE DEF r
<1>4. Sound(t, r, InUser, OwnReaper(t))
    BY <1>f, <1>1, <1>3, InUserType
       DEF Sound, Same, OffCpu, PidIsBack, OwnWay, ZombieWay, Childless, Exiting
<1>5. Moves(t, InUser) BY <1>1, InUserType DEF Moves, Left
<1>6. readers' \in SUBSET Threads BY <1>1 DEF CountInv, ProcTypeOK
<1>9. QED BY <1>1, <1>3, <1>4, <1>5, <1>6, OwnMove, InUserType

\* exit: the state becomes ZOMBIE.
LEMMA ExitZombieKeeps ==
    ASSUME CountInv, NEW t \in Threads, ExitZombie(t)
    PROVE  CountInv'
<1> DEFINE r == [thr[t] EXCEPT !.state = "ZOMBIE"]
<1>f. /\ thr[t] \in ThreadRecord /\ call[t] \in CallRecord /\ Sound(t, thr[t], call[t], OwnReaper(t))
      /\ call \in [Threads -> CallRecord]
    BY ThreadFacts
<1>1. /\ thr[t].live /\ thr[t].queued /\ call[t].pc = "zombie"
      /\ thr' = [thr EXCEPT ![t] = r] /\ Then(t, "readparent")
      /\ UNCHANGED <<group, nextpid, allocated_cnt, readers, grace>>
    BY DEF ExitZombie, At, Runs
<1>2. r \in ThreadRecord /\ Same(thr[t], r) /\ r.state = "ZOMBIE" /\ r.queued = thr[t].queued
    BY <1>f, StateField DEF States
<1> HIDE DEF r
<1>3. PICK k \in CallRecord : call' = [call EXCEPT ![t] = k] /\ k.pc = "readparent"
    BY <1>f, <1>1, ThenIs DEF Pcs
<1>4. Sound(t, r, k, OwnReaper(t))
    BY <1>f, <1>1, <1>2, <1>3
       DEF Sound, Same, OffCpu, PidIsBack, OwnWay, ZombieWay, Childless, Exiting
<1>5. Moves(t, k) BY <1>1, <1>3 DEF Moves, Left
<1>6. readers' \in SUBSET Threads BY <1>1 DEF CountInv, ProcTypeOK
<1>7. QED BY <1>1, <1>2, <1>3, <1>4, <1>5, <1>6, OwnMove

\* exit: the zombie leaves its CPU.
LEMMA ExitSwitchKeeps ==
    ASSUME CountInv, NEW t \in Threads, ExitSwitch(t)
    PROVE  CountInv'
<1> DEFINE r == [thr[t] EXCEPT !.queued = FALSE]
<1>f. /\ thr[t] \in ThreadRecord /\ call[t] \in CallRecord /\ Sound(t, thr[t], call[t], OwnReaper(t))
      /\ call \in [Threads -> CallRecord]
    BY ThreadFacts
<1>1. /\ thr[t].live /\ thr[t].queued /\ call[t].pc = "switch"
      /\ thr' = [thr EXCEPT ![t] = r] /\ Then(t, "dead") /\ Quiescent(t)
      /\ UNCHANGED <<group, nextpid, allocated_cnt, readers>>
    BY DEF ExitSwitch, At, Runs
<1>2. r \in ThreadRecord /\ Same(thr[t], r) /\ r.state = thr[t].state
    BY <1>f, QueuedField
<1> HIDE DEF r
<1>3. PICK k \in CallRecord : call' = [call EXCEPT ![t] = k] /\ k.pc = "dead"
    BY <1>f, <1>1, ThenIs DEF Pcs
<1>4. Sound(t, r, k, OwnReaper(t))
    BY <1>f, <1>1, <1>2, <1>3
       DEF Sound, Same, OffCpu, PidIsBack, OwnWay, ZombieWay, Childless, Exiting
<1>5. Moves(t, k) BY <1>1, <1>3 DEF Moves, Left
<1>6. readers' \in SUBSET Threads BY <1>1 DEF CountInv, ProcTypeOK
<1>7. QED BY <1>1, <1>2, <1>3, <1>4, <1>5, <1>6, OwnMove

\* exit: the parent is read.
LEMMA ExitReadParentKeeps ==
    ASSUME CountInv, NEW t \in Threads, ExitReadParent(t)
    PROVE  CountInv'
<1> DEFINE k == IF call[t].last
                THEN [call[t] EXCEPT !.pc = "notify", !.child = thr[t].parent, !.kind = "switch"]
                ELSE [call[t] EXCEPT !.pc = "switch"]
<1>f. /\ thr[t] \in ThreadRecord /\ call[t] \in CallRecord /\ Sound(t, thr[t], call[t], OwnReaper(t))
      /\ thr \in [Threads -> ThreadRecord]
    BY ThreadFacts
<1>1. /\ thr[t].live /\ thr[t].queued /\ call[t].pc = "readparent"
      /\ call' = [call EXCEPT ![t] = k] /\ thr' = [thr EXCEPT ![t] = thr[t]]
      /\ UNCHANGED <<group, nextpid, allocated_cnt, readers, grace>>
    BY <1>f DEF ExitReadParent, At, Runs
<1>2. k \in CallRecord /\ (k.pc = "switch" \/ (k.pc = "notify" /\ k.kind = "switch"))
    <2>1. thr[t].parent \in Threads \cup {None} BY <1>f DEF ThreadRecord
    <2>2. QED BY <1>f, <2>1 DEF CallRecord, Pcs, CallKindSet
<1> HIDE DEF k
<1>4. Sound(t, thr[t], k, OwnReaper(t))
    BY <1>f, <1>1, <1>2
       DEF Sound, Same, OffCpu, PidIsBack, OwnWay, ZombieWay, Childless, Exiting
<1>5. Moves(t, k) BY <1>1, <1>2 DEF Moves, Left
<1>6. readers' \in SUBSET Threads BY <1>1 DEF CountInv, ProcTypeOK
<1>7. QED BY <1>1, <1>2, <1>f, <1>4, <1>5, <1>6, OwnMove, KeptRefl

\* exit: the last thread reads its leader's parent.
LEMMA ExitLastOutKeeps ==
    ASSUME CountInv, NEW t \in Threads, ExitLastOut(t)
    PROVE  CountInv'
<1>f. /\ thr[t] \in ThreadRecord /\ call[t] \in CallRecord /\ Sound(t, thr[t], call[t], OwnReaper(t))
      /\ thr \in [Threads -> ThreadRecord]
    BY ThreadFacts
<1>0. \A l \in Threads : thr[l].parent \in Threads \cup {None} BY <1>f DEF ThreadRecord
<1>1. /\ thr[t].live /\ thr[t].queued /\ call[t].pc = "lastout"
      /\ thr' = [thr EXCEPT ![t] = thr[t]]
      /\ UNCHANGED <<group, nextpid, allocated_cnt, readers, grace>>
    BY <1>f DEF ExitLastOut, At, Runs
<1>2. thr[t].tg \in Groups /\ group[thr[t].tg].leader \in Threads
    <2>1. thr[t].tg \in Groups BY <1>f, <1>1 DEF Sound, OwnWay, OwnReaper
    <2>2. t \in Refs(thr[t].tg) BY <1>1 DEF Refs
    <2>3. group[thr[t].tg].used BY <2>1, <2>2 DEF CountInv, Counting, GroupsCount
    <2>4. QED BY <2>1, <2>3 DEF CountInv, Counting, UnusedGroups
<1>3. PICK p \in Threads \cup {None} :
          call' = [call EXCEPT ![t].pc = "notify", ![t].child = p, ![t].kind = "release"]
    BY <1>0, <1>2 DEF ExitLastOut
<1> DEFINE k == [call[t] EXCEPT !.pc = "notify", !.child = p, !.kind = "release"]
<1>4. call' = [call EXCEPT ![t] = k] BY <1>3, ThreadFacts
<1>5. k \in CallRecord /\ k.pc = "notify" /\ k.kind = "release" BY <1>f DEF CallRecord, Pcs, CallKindSet
<1> HIDE DEF k
<1>6. Sound(t, thr[t], k, OwnReaper(t))
    BY <1>f, <1>1, <1>5
       DEF Sound, Same, OffCpu, PidIsBack, OwnWay, ZombieWay, Childless, Exiting
<1>7. Moves(t, k) BY <1>1, <1>5 DEF Moves, Left
<1>8. readers' \in SUBSET Threads BY <1>1 DEF CountInv, ProcTypeOK
<1>9. QED BY <1>1, <1>4, <1>5, <1>6, <1>f, <1>7, <1>8, OwnMove, KeptRefl

\* vfork_done drops the pointer and wakes the caller of vfork.
LEMMA VforkDoneKeeps ==
    ASSUME CountInv, NEW t \in Threads, thr[t].live
    PROVE  VforkDone(t) \in [Threads -> ThreadRecord] /\ \A u \in Threads : Kept(thr[u], VforkDone(t)[u])
<1> DEFINE r == [thr[t] EXCEPT !.vfork = None]
           th == [thr EXCEPT ![t] = r]
           W == {"INTERRUPTIBLE", "UNINTERRUPTIBLE"}
<1>f. thr[t] \in ThreadRecord /\ thr \in [Threads -> ThreadRecord] BY ThreadFacts
<1>1. r \in ThreadRecord /\ Same(thr[t], r) /\ r.state = thr[t].state /\ r.queued = thr[t].queued
    BY <1>f, VforkField
<1>2. VforkDone(t) = Woken(th, thr[t].vfork, W) BY DEF VforkDone, WakeAny
<1>3. thr[t].vfork \in Threads \cup {None} BY <1>f DEF ThreadRecord
<1> HIDE DEF r
<1>4. th \in [Threads -> ThreadRecord] BY <1>f, <1>1
<1>5. \A u \in Threads : Kept(thr[u], th[u])
    <2>1. Kept(thr[t], r) BY <1>1 DEF Kept
    <2>2. QED BY <1>f, <2>1, KeptRefl
<1> HIDE DEF th
<1>6. /\ Woken(th, thr[t].vfork, W) \in [Threads -> ThreadRecord]
      /\ \A u \in Threads : Kept(th[u], Woken(th, thr[t].vfork, W)[u])
    BY <1>3, <1>4, WokenKeeps
<1>7. \A u \in Threads : Kept(thr[u], Woken(th, thr[t].vfork, W)[u])
    BY <1>5, <1>6 DEF Kept, Same
<1>8. QED BY <1>2, <1>6, <1>7

\* exec releases the caller of vfork.
LEMMA ExecKeeps ==
    ASSUME CountInv, NEW t \in Threads, Exec(t)
    PROVE  CountInv'
<1>f. /\ call[t] \in CallRecord /\ Sound(t, thr[t], call[t], OwnReaper(t)) /\ call \in [Threads -> CallRecord]
    BY ThreadFacts
<1>1. /\ thr[t].live /\ call[t].pc = "user" /\ thr' = VforkDone(t) /\ call' = [call EXCEPT ![t] = call[t]]
      /\ UNCHANGED <<group, nextpid, allocated_cnt, readers, grace>>
    BY <1>f DEF Exec, MayCall, At, Runs
<1>2. Moves(t, call[t]) BY <1>1 DEF Moves
<1>3. QED BY <1>f, <1>1, <1>2, VforkDoneKeeps, WakingMove

\* exit() and the losers of exit_group.
LEMMA ExitStarts ==
    ASSUME CountInv, NEW t \in Threads, At(t, "user"), t # initproc,
           thr' = [VforkDone(t) EXCEPT ![t].killed = TRUE],
           Then(t, IF SelfReaps(t) THEN "reparent" ELSE "leave"),
           UNCHANGED <<group, nextpid, allocated_cnt, readers, grace>>
    PROVE  CountInv'
<1>f. /\ thr[t] \in ThreadRecord /\ Sound(t, thr[t], call[t], OwnReaper(t))
      /\ call \in [Threads -> CallRecord]
    BY ThreadFacts
<1>1. thr[t].live /\ thr[t].queued /\ call[t].pc = "user" BY DEF At, Runs
<1> DEFINE x == IF SelfReaps(t) THEN "reparent" ELSE "leave"
<1>2. PICK k \in CallRecord : call' = [call EXCEPT ![t] = k] /\ k.pc = x
    BY <1>f, ThenIs DEF Pcs
<1>3. SelfReaps(t) <=> OwnReaper(t) BY <1>1, SelfReapsIs
<1>4. Sound(t, thr[t], k, OwnReaper(t))
    BY <1>f, <1>1, <1>2, <1>3 DEF Sound, OffCpu, PidIsBack, OwnWay, ZombieWay, Childless, Exiting
<1>5. Moves(t, k) BY <1>1, <1>2, <1>3 DEF Moves, Left
<1> DEFINE th == VforkDone(t)
           r == [th[t] EXCEPT !.killed = TRUE]
<1>6. th \in [Threads -> ThreadRecord] /\ \A u \in Threads : Kept(thr[u], th[u]) BY <1>1, VforkDoneKeeps
<1>7. r \in ThreadRecord /\ Same(th[t], r) /\ r.state = th[t].state /\ r.queued = th[t].queued
    BY <1>6, KilledField
<1>8. thr' = [th EXCEPT ![t] = r] OBVIOUS
<1> HIDE DEF th, r
<1>9. Kept(thr[t], r) BY <1>1, <1>6, <1>7 DEF Kept, Same
<1>10. thr' \in [Threads -> ThreadRecord] /\ \A u \in Threads : Kept(thr[u], thr'[u])
    BY <1>6, <1>7, <1>8, <1>9
<1>11. QED BY <1>2, <1>4, <1>5, <1>10, WakingMove

\* exit is called.
LEMMA ExitCallKeeps ==
    ASSUME CountInv, NEW t \in Threads, ExitCall(t)
    PROVE  CountInv'
BY ExitStarts DEF ExitCall

\* exit: init is woken.
LEMMA ExitWakeInitKeeps ==
    ASSUME CountInv, NEW t \in Threads, ExitWakeInit(t)
    PROVE  CountInv'
<1>f. /\ thr[t] \in ThreadRecord /\ call[t] \in CallRecord /\ Sound(t, thr[t], call[t], OwnReaper(t))
      /\ thr \in [Threads -> ThreadRecord] /\ call \in [Threads -> CallRecord]
    BY ThreadFacts
<1> DEFINE k == [call[t] EXCEPT !.pc = call[t].kind, !.kind = None]
<1>1. /\ thr[t].live /\ thr[t].queued /\ call[t].pc = "wakeinit"
      /\ thr' = Woken(thr, initproc, {"INTERRUPTIBLE"}) /\ call' = [call EXCEPT ![t] = k]
      /\ UNCHANGED <<group, nextpid, allocated_cnt, readers, grace>>
    BY DEF ExitWakeInit, At, Runs, WakeInterruptible
<1>2. call[t].kind \in {"remove", "zombie"} BY <1>f, <1>1 DEF Sound
<1>3. k \in CallRecord /\ k.pc = call[t].kind BY <1>f, <1>2 DEF CallRecord, Pcs, CallKindSet
<1> HIDE DEF k
<1>4. Sound(t, thr[t], k, OwnReaper(t))
    BY <1>f, <1>1, <1>2, <1>3 DEF Sound, OffCpu, PidIsBack, OwnWay, ZombieWay, Childless, Exiting
<1>5. Moves(t, k) BY <1>1, <1>2, <1>3 DEF Moves, Left
<1>6. thr' \in [Threads -> ThreadRecord] /\ \A u \in Threads : Kept(thr[u], thr'[u])
    BY <1>f, <1>1, Consts, WokenKeeps
<1>7. QED BY <1>1, <1>3, <1>4, <1>5, <1>6, WakingMove

\* exit: the parent is woken.
LEMMA ExitNotifyKeeps ==
    ASSUME CountInv, NEW t \in Threads, ExitNotify(t)
    PROVE  CountInv'
<1>f. /\ thr[t] \in ThreadRecord /\ call[t] \in CallRecord /\ Sound(t, thr[t], call[t], OwnReaper(t))
      /\ thr \in [Threads -> ThreadRecord] /\ call \in [Threads -> CallRecord]
    BY ThreadFacts
<1> DEFINE k == [call[t] EXCEPT !.pc = call[t].kind, !.child = None, !.kind = None]
<1>1. /\ thr[t].live /\ thr[t].queued /\ call[t].pc = "notify"
      /\ thr' = Woken(thr, call[t].child, {"INTERRUPTIBLE"}) /\ call' = [call EXCEPT ![t] = k]
      /\ UNCHANGED <<group, nextpid, allocated_cnt, readers, grace>>
    BY DEF ExitNotify, At, Runs, WakeInterruptible
<1>2. call[t].kind \in {"release", "switch"} BY <1>f, <1>1 DEF Sound
<1>3. k \in CallRecord /\ k.pc = call[t].kind BY <1>f, <1>2 DEF CallRecord, Pcs, CallKindSet
<1> HIDE DEF k
<1>4. Sound(t, thr[t], k, OwnReaper(t))
    BY <1>f, <1>1, <1>2, <1>3 DEF Sound, OffCpu, PidIsBack, OwnWay, ZombieWay, Childless, Exiting
<1>5. Moves(t, k) BY <1>1, <1>2, <1>3 DEF Moves, Left
<1>6. thr' \in [Threads -> ThreadRecord] /\ \A u \in Threads : Kept(thr[u], thr'[u])
    <2>1. call[t].child \in Threads \cup {None} BY <1>f DEF CallRecord
    <2>2. QED BY <1>f, <1>1, <2>1, WokenKeeps
<1>7. QED BY <1>1, <1>3, <1>4, <1>5, <1>6, WakingMove

\* A sleeper set to RUNNING, and killed, keeps what counts.
LEMMA KilledRecord ==
    ASSUME NEW r \in ThreadRecord, r.live
    PROVE  LET q == [r EXCEPT !.killed = TRUE, !.state = IF Sleeping(@) THEN "RUNNING" ELSE @]
           IN  q \in ThreadRecord /\ Kept(r, q)
<1> DEFINE x == IF Sleeping(r.state) THEN "RUNNING" ELSE r.state
           p == [r EXCEPT !.killed = TRUE]
           q == [p EXCEPT !.state = x]
<1>1. p \in ThreadRecord /\ Same(r, p) /\ p.state = r.state /\ p.queued = r.queued BY KilledField
<1>2. x \in States /\ (x = "ZOMBIE" => r.state = "ZOMBIE") BY DEF ThreadRecord, States
<1>3. [r EXCEPT !.killed = TRUE, !.state = IF Sleeping(@) THEN "RUNNING" ELSE @] = q
    BY <1>1
<1> HIDE DEF x, p
<1>4. q \in ThreadRecord /\ Same(p, q) /\ q.state = x /\ q.queued = p.queued BY <1>1, <1>2, StateField
<1> HIDE DEF q
<1>5. Kept(r, q) BY <1>1, <1>2, <1>4 DEF Kept, Same
<1>6. QED BY <1>3, <1>4, <1>5

\* The members of a group are live.
LEMMA MembersLive ==
    ASSUME CountInv, NEW g \in Groups, NEW o \in group[g].members
    PROVE  o \in Threads /\ thr[o].live /\ thr[o].tg = g
<1>1. group[g] \in GroupRecord BY DEF CountInv, ProcTypeOK
<1>2. o \in Threads BY <1>1 DEF GroupRecord
<1>3. QED BY <1>2 DEF CountInv, Counting, Members

\* exit_group changes the sleepers among the members.
LEMMA GroupExitKillKeeps ==
    ASSUME CountInv, NEW t \in Threads, GroupExitKill(t)
    PROVE  CountInv'
<1>f. /\ thr[t] \in ThreadRecord /\ call[t] \in CallRecord /\ Sound(t, thr[t], call[t], OwnReaper(t))
      /\ thr \in [Threads -> ThreadRecord] /\ call \in [Threads -> CallRecord]
    BY ThreadFacts
<1> DEFINE k == [call[t] EXCEPT !.pc = "user"]
           others == group[thr[t].tg].members \ {t}
           R(o) == [thr[o] EXCEPT !.killed = TRUE,
                                  !.state = IF Sleeping(@) THEN "RUNNING" ELSE @]
<1>1. /\ thr[t].live /\ thr[t].queued /\ call[t].pc = "killothers"
      /\ thr' = [o \in Threads |-> IF o \notin others THEN thr[o] ELSE R(o)]
      /\ call' = [call EXCEPT ![t] = k]
      /\ UNCHANGED <<group, nextpid, allocated_cnt, readers, grace>>
    BY DEF GroupExitKill, At, Runs
<1>2. k \in CallRecord /\ k.pc = "user" BY <1>f DEF CallRecord, Pcs
<1>3. thr[t].tg \in Groups BY <1>f, <1>1 DEF Sound, ThreadRecord
<1> HIDE DEF k
<1>4. Sound(t, thr[t], k, OwnReaper(t))
    BY <1>f, <1>1, <1>2 DEF Sound, OffCpu, PidIsBack, OwnWay, ZombieWay, Childless, Exiting
<1>5. Moves(t, k) BY <1>1, <1>2 DEF Moves, Left
<1>6. ASSUME NEW o \in Threads PROVE thr'[o] \in ThreadRecord /\ Kept(thr[o], thr'[o])
    <2>1. CASE o \notin others
        <3>1. thr'[o] = thr[o] BY <1>1, <2>1
        <3>2. QED BY <3>1, <1>f, KeptRefl
    <2>2. CASE o \in others
        <3>1. thr'[o] = R(o) BY <1>1, <2>2
        <3>2. thr[o].live /\ thr[o] \in ThreadRecord BY <2>2, <1>3, <1>f, MembersLive
        <3>3. R(o) \in ThreadRecord /\ Kept(thr[o], R(o)) BY <3>2, KilledRecord
        <3>4. QED BY <3>1, <3>3
    <2>3. QED BY <2>1, <2>2
<1>7. thr' \in [Threads -> ThreadRecord] BY <1>1, <1>6
<1>8. QED BY <1>1, <1>2, <1>4, <1>5, <1>6, <1>7, WakingMove

\* A step that moves no thread.
LEMMA OnlyWakes ==
    ASSUME CountInv, thr' \in [Threads -> ThreadRecord], \A u \in Threads : Kept(thr[u], thr'[u]),
           UNCHANGED <<call, group, nextpid, allocated_cnt, readers, grace>>
    PROVE  CountInv'
<1>t. ProcTypeOK /\ ProcTypeOK' /\ thr \in [Threads -> ThreadRecord] /\ call \in [Threads -> CallRecord]
    BY DEF CountInv, ProcTypeOK
<1>s. \A u \in Threads : Same(thr[u], thr'[u]) BY DEF Kept
<1>o. \A u \in Threads : OwnReaper(u)' <=> OwnReaper(u)
    BY <1>s, OwnReaperKept DEF Same
<1>1. ThreadsSound'
    <2> SUFFICES ASSUME NEW u \in Threads PROVE Sound(u, thr'[u], call'[u], OwnReaper(u)')
        BY DEF ThreadsSound
    <2>1. Sound(u, thr[u], call[u], OwnReaper(u)) BY DEF CountInv, Places, ThreadsSound
    <2>2. Sound(u, thr'[u], call[u], OwnReaper(u)) BY <2>1, <1>t, SoundKept
    <2>3. QED BY <2>2, <1>o DEF Sound
<1>2. ChildIsNew' BY <1>s DEF CountInv, Places, ChildIsNew, Creates, Creation, Same
<1>3. OneCreator' BY DEF CountInv, Places, OneCreator, Creates
<1>4. ZombieIsTaken' BY <1>s DEF CountInv, Places, ZombieIsTaken, Same
<1>5. LookedUp' BY <1>s DEF CountInv, Places, LookedUp, Same
<1>6. Families' BY <1>s, <1>t, FamiliesKept DEF CountInv, Places
<1>7. GroupsCount' /\ UnusedGroups' BY <1>s, GroupsSame, GroupsKept DEF CountInv, Counting
<1>8. Members'
    <2> SUFFICES ASSUME NEW g \in Groups, NEW u \in Threads
                 PROVE  u \in group'[g].members <=>
                            thr'[u].live /\ thr'[u].tg = g /\ ~Left(call'[u], OwnReaper(u)')
        BY DEF Members
    <2>1. u \in group[g].members <=> thr[u].live /\ thr[u].tg = g /\ ~Left(call[u], OwnReaper(u))
        BY DEF CountInv, Counting, Members
    <2>2. Left(call'[u], OwnReaper(u)') <=> Left(call[u], OwnReaper(u)) BY <1>o DEF Left
    <2>3. QED BY <2>1, <2>2, <1>s DEF Same
<1>9. Reserving' = Reserving
    <2> SUFFICES ASSUME NEW u \in Threads
                 PROVE  (Runs(u) /\ call[u].pc \in {"create", "attach"})
                        <=> (Runs(u)' /\ call'[u].pc \in {"create", "attach"})
        BY DEF Reserving
    <2>1. Sound(u, thr[u], call[u], OwnReaper(u)) BY DEF CountInv, Places, ThreadsSound
    <2>2. call[u].pc \in {"create", "attach"} => thr[u].queued BY <2>1 DEF Sound, OffCpu
    <2>3. QED BY <2>2 DEF Runs, Kept, Same
<1>10. PidsAreExact' BY <1>9, <1>s, PidsKept DEF CountInv, Counting, Same
<1>11. QED BY <1>t, <1>1, <1>2, <1>3, <1>4, <1>5, <1>6, <1>7, <1>8, <1>10 DEF CountInv, Places, Counting

\* SIGKILL to a group.
LEMMA KillGroupKeeps ==
    ASSUME CountInv, NEW g \in Groups, KillGroup(g)
    PROVE  CountInv'
<1>f. /\ thr \in [Threads -> ThreadRecord] /\ call \in [Threads -> CallRecord]
    BY Consts, ThreadFacts
<1> DEFINE R(o) == [WakeInterruptible(thr, o)[o] EXCEPT !.killed = TRUE]
<1>1. /\ thr' = [o \in Threads |-> IF o \notin group[g].members THEN thr[o] ELSE R(o)]
      /\ UNCHANGED <<group, nextpid, allocated_cnt, readers, grace, call>>
    BY DEF KillGroup
<1>3. ASSUME NEW o \in Threads PROVE thr'[o] \in ThreadRecord /\ Kept(thr[o], thr'[o])
    <2>1. CASE o \notin group[g].members
        <3>1. thr'[o] = thr[o] BY <1>1, <2>1
        <3>2. QED BY <3>1, <1>f, KeptRefl
    <2>2. CASE o \in group[g].members
        <3> DEFINE w == WakeInterruptible(thr, o)[o]
        <3>1. thr'[o] = R(o) BY <1>1, <2>2
        <3>2. thr[o].live BY <2>2, MembersLive
        <3>3. w \in ThreadRecord /\ Kept(thr[o], w) BY <1>f, WokenKeeps DEF WakeInterruptible
        <3> HIDE DEF w
        <3>4. /\ [w EXCEPT !.killed = TRUE] \in ThreadRecord /\ Same(w, [w EXCEPT !.killed = TRUE])
              /\ [w EXCEPT !.killed = TRUE].state = w.state /\ [w EXCEPT !.killed = TRUE].queued = w.queued
            BY <3>3, KilledField
        <3>5. Kept(thr[o], [w EXCEPT !.killed = TRUE]) BY <3>2, <3>3, <3>4 DEF Kept, Same
        <3>6. QED BY <3>1, <3>4, <3>5 DEF w
    <2>3. QED BY <2>1, <2>2
<1>4. thr' \in [Threads -> ThreadRecord] BY <1>1, <1>3
<1>5. QED BY <1>1, <1>3, <1>4, OnlyWakes

\* exit_group is called.
LEMMA GroupExitCallKeeps ==
    ASSUME CountInv, NEW t \in Threads, GroupExitCall(t)
    PROVE  CountInv'
<1>f. /\ thr[t] \in ThreadRecord /\ call[t] \in CallRecord /\ Sound(t, thr[t], call[t], OwnReaper(t))
      /\ thr \in [Threads -> ThreadRecord] /\ call \in [Threads -> CallRecord]
    BY ThreadFacts
<1>1. /\ At(t, "user") /\ thr[t].live /\ thr[t].queued /\ call[t].pc = "user" /\ t # initproc
      /\ thr[t].tg \in Groups /\ UNCHANGED <<nextpid, allocated_cnt, readers, grace>>
    BY <1>f DEF GroupExitCall, MayCall, At, Runs, ThreadRecord
<1>2. CASE group[thr[t].tg].exiting BY <1>1, <1>2, ExitStarts DEF GroupExitCall
<1>3. CASE ~group[thr[t].tg].exiting
    <2> DEFINE g == thr[t].tg
               q == [group[g] EXCEPT !.exiting = TRUE]
    <2>1. group' = [group EXCEPT ![g] = q] /\ Then(t, "killothers") /\ UNCHANGED thr
        BY <1>3 DEF GroupExitCall
    <2>2. PICK k \in CallRecord : call' = [call EXCEPT ![t] = k] /\ k.pc = "killothers"
        BY <1>f, <2>1, ThenIs DEF Pcs
    <2>3. Sound(t, thr[t], k, OwnReaper(t))
        BY <1>f, <1>1, <2>2, Consts DEF Sound, Same, OffCpu, PidIsBack, OwnWay, ZombieWay, Childless, Exiting
    <2>4. Moves(t, k) BY <1>1, <2>2 DEF Moves, Left
    <2>5. group \in [Groups -> GroupRecord] BY ThreadFacts
    <2>6. group[g].used
        <3>1. t \in Refs(g) BY <1>1 DEF Refs
        <3>2. QED BY <3>1, <1>1 DEF CountInv, Counting, GroupsCount
    <2>7. q \in GroupRecord /\ SameGroup(group[g], q)
        <3>1. group[g] \in GroupRecord BY <1>1, <2>5
        <3>2. q \in GroupRecord BY <3>1 DEF GroupRecord
        <3>3. QED BY <3>1, <3>2, <2>6 DEF GroupRecord, SameGroup
    <2> HIDE DEF q
    <2>8. group' \in [Groups -> GroupRecord] BY <2>1, <2>5, <2>7
    <2>9. \A h \in Groups : SameGroup(group[h], group'[h])
        BY <2>1, <2>5, <2>7 DEF SameGroup
    <2>10. ProcTypeOK' BY <1>1, <2>1, <2>2, <2>8, <1>f DEF CountInv, ProcTypeOK
    <2>11. \A u \in Threads : Kept(thr[u], thr'[u]) /\ Same(thr[u], thr'[u]) BY <2>1, KeptRefl
    <2>12. QED BY <1>1, <2>1, <2>2, <2>3, <2>4, <2>9, <2>10, <2>11, QuietMove DEF Moves
<1>4. QED BY <1>2, <1>3

\* wait: the caller is about to scan.
LEMMA WaitPrepareKeeps ==
    ASSUME CountInv, NEW t \in Threads, WaitPrepare(t)
    PROVE  CountInv'
<1> DEFINE r == [thr[t] EXCEPT !.state = "INTERRUPTIBLE"]
<1>f. /\ thr[t] \in ThreadRecord /\ call[t] \in CallRecord /\ Sound(t, thr[t], call[t], OwnReaper(t))
      /\ thr \in [Threads -> ThreadRecord] /\ call \in [Threads -> CallRecord]
    BY ThreadFacts
<1>1. /\ thr[t].live /\ thr[t].queued /\ call[t].pc \in {"user", "wait"}
      /\ thr' = [thr EXCEPT ![t] = r] /\ Then(t, "scan") /\ readers' = readers \cup {t}
      /\ UNCHANGED <<group, nextpid, allocated_cnt, grace>>
    BY DEF WaitPrepare, MayCall, At, Runs
<1>2. r \in ThreadRecord /\ Same(thr[t], r) /\ r.state = "INTERRUPTIBLE" /\ r.queued = thr[t].queued
    BY <1>f, StateField DEF States
<1> HIDE DEF r
<1>3. PICK k \in CallRecord : call' = [call EXCEPT ![t] = k] /\ k.pc = "scan"
    BY <1>f, <1>1, ThenIs DEF Pcs
<1>4. Sound(t, r, k, OwnReaper(t))
    BY <1>f, <1>1, <1>2, <1>3 DEF Sound, Same, OffCpu, PidIsBack, OwnWay, ZombieWay, Childless, Exiting
<1>5. Moves(t, k) BY <1>1, <1>3 DEF Moves, Left
<1>r. readers' \in SUBSET Threads BY <1>1 DEF CountInv, ProcTypeOK
<1>6. QED BY <1>1, <1>2, <1>3, <1>4, <1>5, <1>r, OwnMove

\* A zombie child that has left its CPU is dead, and nothing else.
LEMMA ZombieIsDead ==
    ASSUME CountInv, NEW t \in Threads, NEW c \in thr[t].kids, thr[c].state = "ZOMBIE", ~thr[c].queued
    PROVE  c \in Threads /\ call[c].pc = "dead"
<1>1. c \in Threads BY DEF CountInv, ProcTypeOK, ThreadRecord
<1>2. thr[c].parent = t BY DEF CountInv, Families, KidsAgree
<1>3. Sound(c, thr[c], call[c], OwnReaper(c)) BY <1>1, ThreadFacts
<1>4. QED BY <1>1, <1>2, <1>3, Consts DEF Sound, OffCpu

\* wait: a zombie is taken.
LEMMA WaitFindKeeps ==
    ASSUME CountInv, NEW t \in Threads, NEW c \in Threads, WaitFind(t, c)
    PROVE  CountInv'
<1> DEFINE r == [thr[t] EXCEPT !.state = "RUNNING"]
           k == [call[t] EXCEPT !.pc = "reap", !.child = c]
<1>f. /\ thr[t] \in ThreadRecord /\ call[t] \in CallRecord /\ Sound(t, thr[t], call[t], OwnReaper(t))
      /\ thr \in [Threads -> ThreadRecord] /\ call \in [Threads -> CallRecord]
    BY ThreadFacts
<1>1. /\ thr[t].live /\ thr[t].queued /\ call[t].pc = "scan"
      /\ c \in thr[t].kids /\ thr[c].state = "ZOMBIE" /\ ~thr[c].queued
      /\ thr' = [thr EXCEPT ![t] = r] /\ call' = [call EXCEPT ![t] = k]
      /\ UNCHANGED <<group, nextpid, allocated_cnt, readers, grace>>
    BY DEF WaitFind, Zombies, At, Runs
<1>2. r \in ThreadRecord /\ Same(thr[t], r) /\ r.state = "RUNNING" /\ r.queued = thr[t].queued
    BY <1>f, StateField DEF States
<1>3. k \in CallRecord /\ k.pc = "reap" /\ k.child = c BY <1>f DEF CallRecord, Pcs
<1> HIDE DEF r, k
<1>4. Sound(t, r, k, OwnReaper(t))
    BY <1>f, <1>1, <1>2, <1>3 DEF Sound, Same, OffCpu, PidIsBack, OwnWay, ZombieWay, Childless, Exiting
<1>5. Moves(t, k) BY <1>1, <1>3, ZombieIsDead DEF Moves, Left
<1>r. readers' \in SUBSET Threads BY <1>1 DEF CountInv, ProcTypeOK
<1>6. QED BY <1>1, <1>2, <1>3, <1>4, <1>5, <1>r, OwnMove

\* wait: the zombie is still on its CPU.
LEMMA WaitSpinKeeps ==
    ASSUME CountInv, NEW t \in Threads, NEW c \in Threads, WaitSpin(t, c)
    PROVE  CountInv'
<1> DEFINE r == [thr[t] EXCEPT !.state = "RUNNING"]
<1>f. /\ thr[t] \in ThreadRecord /\ call[t] \in CallRecord /\ Sound(t, thr[t], call[t], OwnReaper(t))
      /\ thr \in [Threads -> ThreadRecord] /\ call \in [Threads -> CallRecord]
    BY ThreadFacts
<1>1. /\ thr[t].live /\ thr[t].queued /\ call[t].pc = "scan"
      /\ thr' = [thr EXCEPT ![t] = r] /\ Then(t, "wait") /\ readers' = readers \ {t} /\ Quiescent(t)
      /\ UNCHANGED <<group, nextpid, allocated_cnt>>
    BY DEF WaitSpin, At, Runs
<1>2. r \in ThreadRecord /\ Same(thr[t], r) /\ r.state = "RUNNING" /\ r.queued = thr[t].queued
    BY <1>f, StateField DEF States
<1> HIDE DEF r
<1>3. PICK k \in CallRecord : call' = [call EXCEPT ![t] = k] /\ k.pc = "wait"
    BY <1>f, <1>1, ThenIs DEF Pcs
<1>4. Sound(t, r, k, OwnReaper(t))
    BY <1>f, <1>1, <1>2, <1>3 DEF Sound, Same, OffCpu, PidIsBack, OwnWay, ZombieWay, Childless, Exiting
<1>5. Moves(t, k) BY <1>1, <1>3 DEF Moves, Left
<1>r. readers' \in SUBSET Threads BY <1>1 DEF CountInv, ProcTypeOK
<1>6. QED BY <1>1, <1>2, <1>3, <1>4, <1>5, <1>r, OwnMove

\* wait: no zombie.
LEMMA WaitNoneKeeps ==
    ASSUME CountInv, NEW t \in Threads, WaitNone(t)
    PROVE  CountInv'
<1>f. /\ thr[t] \in ThreadRecord /\ call[t] \in CallRecord /\ Sound(t, thr[t], call[t], OwnReaper(t))
      /\ thr \in [Threads -> ThreadRecord] /\ call \in [Threads -> CallRecord]
    BY ThreadFacts
<1>1. /\ thr[t].live /\ thr[t].queued /\ call[t].pc = "scan" /\ readers' = readers \ {t}
      /\ UNCHANGED <<group, nextpid, allocated_cnt>>
    BY DEF WaitNone, At, Runs
<1>r. readers' \in SUBSET Threads BY <1>1 DEF CountInv, ProcTypeOK
<1>2. CASE thr[t].kids = {}
    <2> DEFINE r == [thr[t] EXCEPT !.state = "RUNNING"]
    <2>1. thr' = [thr EXCEPT ![t] = r] /\ call' = [call EXCEPT ![t] = InUser] /\ Quiescent(t)
        BY <1>2 DEF WaitNone
    <2>2. r \in ThreadRecord /\ Same(thr[t], r) /\ r.state = "RUNNING" /\ r.queued = thr[t].queued
        BY <1>f, StateField DEF States
    <2> HIDE DEF r
    <2>3. Sound(t, r, InUser, OwnReaper(t))
        BY <1>f, <1>1, <2>2, InUserType DEF Sound, Same, OffCpu, PidIsBack, OwnWay, ZombieWay, Childless, Exiting
    <2>4. Moves(t, InUser) BY <1>1, InUserType DEF Moves, Left
    <2>5. QED BY <1>1, <1>r, <2>1, <2>2, <2>3, <2>4, OwnMove, InUserType
<1>3. CASE thr[t].kids # {}
    <2>1. Then(t, "sleep") /\ UNCHANGED <<thr, grace>> BY <1>3 DEF WaitNone
    <2>2. PICK k \in CallRecord : call' = [call EXCEPT ![t] = k] /\ k.pc = "sleep"
        BY <1>f, <2>1, ThenIs DEF Pcs
    <2>3. Sound(t, thr[t], k, OwnReaper(t))
        BY <1>f, <1>1, <2>2 DEF Sound, Same, OffCpu, PidIsBack, OwnWay, ZombieWay, Childless, Exiting
    <2>4. Moves(t, k) BY <1>1, <2>2 DEF Moves, Left
    <2>5. thr' = [thr EXCEPT ![t] = thr[t]] BY <2>1, <1>f
    <2>6. QED BY <1>1, <1>r, <1>f, <2>1, <2>2, <2>3, <2>4, <2>5, OwnMove, KeptRefl
<1>4. QED BY <1>2, <1>3

\* wait: the caller sleeps.
LEMMA WaitSleepKeeps ==
    ASSUME CountInv, NEW t \in Threads, WaitSleep(t)
    PROVE  CountInv'
<1> DEFINE r == [thr[t] EXCEPT !.queued = ~Sleeping(thr[t].state)]
<1>f. /\ thr[t] \in ThreadRecord /\ call[t] \in CallRecord /\ Sound(t, thr[t], call[t], OwnReaper(t))
      /\ thr \in [Threads -> ThreadRecord] /\ call \in [Threads -> CallRecord]
    BY ThreadFacts
<1>1. /\ thr[t].live /\ thr[t].queued /\ call[t].pc = "sleep"
      /\ thr' = [thr EXCEPT ![t] = r] /\ Quiescent(t) /\ Then(t, "wait")
      /\ UNCHANGED <<group, nextpid, allocated_cnt, readers>>
    BY DEF WaitSleep, At, Runs, Yield
<1>2. (~Sleeping(thr[t].state)) \in BOOLEAN BY DEF Sleeping
<1>3. r \in ThreadRecord /\ Same(thr[t], r) /\ r.state = thr[t].state BY <1>f, <1>2, QueuedField
<1> HIDE DEF r
<1>4. PICK k \in CallRecord : call' = [call EXCEPT ![t] = k] /\ k.pc = "wait"
    BY <1>f, <1>1, ThenIs DEF Pcs
<1>5. Sound(t, r, k, OwnReaper(t))
    BY <1>f, <1>1, <1>3, <1>4 DEF Sound, Same, OffCpu, PidIsBack, OwnWay, ZombieWay, Childless, Exiting
<1>6. Moves(t, k) BY <1>1, <1>4 DEF Moves, Left
<1>r. readers' \in SUBSET Threads BY <1>1 DEF CountInv, ProcTypeOK
<1>7. QED BY <1>1, <1>3, <1>4, <1>5, <1>6, <1>r, OwnMove

\* The read lock cannot be upgraded: the reaper takes the lock again.
LEMMA WaitRelockKeeps ==
    ASSUME CountInv, NEW t \in Threads, At(t, "reap"), Then(t, "reaplocked"),
           readers' = readers \ {t}, UNCHANGED <<thr, group, allocated_cnt, grace, nextpid>>
    PROVE  CountInv'
<1>f. /\ thr[t] \in ThreadRecord /\ call[t] \in CallRecord /\ Sound(t, thr[t], call[t], OwnReaper(t))
      /\ thr \in [Threads -> ThreadRecord] /\ call \in [Threads -> CallRecord]
    BY ThreadFacts
<1>1. thr[t].live /\ thr[t].queued /\ call[t].pc = "reap" /\ thr' = [thr EXCEPT ![t] = thr[t]]
    BY <1>f DEF At, Runs
<1>2. PICK k \in CallRecord : /\ call' = [call EXCEPT ![t] = k]
                              /\ k.pc = "reaplocked" /\ k.child = call[t].child
    BY <1>f, ThenIs DEF Pcs
<1>3. Sound(t, thr[t], k, OwnReaper(t))
    BY <1>f, <1>1, <1>2 DEF Sound, Same, OffCpu, PidIsBack, OwnWay, ZombieWay, Childless, Exiting
<1>4. Moves(t, k) BY <1>1, <1>2 DEF Moves, Left, CountInv, Places, ZombieIsTaken
<1>r. readers' \in SUBSET Threads BY <1>1 DEF CountInv, ProcTypeOK
<1>5. QED BY <1>1, <1>2, <1>3, <1>4, <1>f, <1>r, OwnMove, KeptRefl

\* A thread is looked up by its pid.
LEMMA LookupKeeps ==
    ASSUME CountInv, NEW t \in Threads, NEW p \in Threads, Lookup(t, p)
    PROVE  CountInv'
<1> DEFINE k == [call[t] EXCEPT !.pc = "lookup", !.child = p, !.kind = thr[p].kind]
<1>f. /\ thr[t] \in ThreadRecord /\ call[t] \in CallRecord /\ Sound(t, thr[t], call[t], OwnReaper(t))
      /\ thr \in [Threads -> ThreadRecord] /\ call \in [Threads -> CallRecord]
    BY ThreadFacts
<1>1. /\ thr[t].live /\ thr[t].queued /\ call[t].pc = "user" /\ thr[p].live /\ thr[p].pid # 0
      /\ call' = [call EXCEPT ![t] = k] /\ thr' = [thr EXCEPT ![t] = thr[t]]
      /\ UNCHANGED <<group, nextpid, allocated_cnt, readers, grace>>
    BY <1>f DEF Lookup, MayCall, At, Runs, Registered
<1>2. thr[p] \in ThreadRecord /\ Sound(p, thr[p], call[p], OwnReaper(p)) BY ThreadFacts
<1>3. k \in CallRecord /\ k.pc = "lookup" /\ k.child = p /\ k.kind = thr[p].kind
    <2>1. thr[p].kind \in CallKindSet BY <1>2 DEF ThreadRecord, Kinds, CallKindSet
    <2>2. QED BY <1>f, <2>1 DEF CallRecord, Pcs
<1> HIDE DEF k
<1>4. Sound(t, thr[t], k, OwnReaper(t))
    BY <1>f, <1>1, <1>3 DEF Sound, Same, OffCpu, PidIsBack, OwnWay, ZombieWay, Childless, Exiting
<1>5. call[p].pc # "destroyed" BY <1>1, <1>2 DEF Sound
<1>6. Moves(t, k) BY <1>1, <1>3, <1>5 DEF Moves, Left
<1>r. readers' \in SUBSET Threads BY <1>1 DEF CountInv, ProcTypeOK
<1>7. QED BY <1>1, <1>3, <1>4, <1>6, <1>f, <1>r, OwnMove, KeptRefl

\* The read section ends.
LEMMA LookupDoneKeeps ==
    ASSUME CountInv, NEW t \in Threads, LookupDone(t)
    PROVE  CountInv'
<1>f. /\ thr[t] \in ThreadRecord /\ call[t] \in CallRecord /\ Sound(t, thr[t], call[t], OwnReaper(t))
      /\ thr \in [Threads -> ThreadRecord] /\ call \in [Threads -> CallRecord]
    BY ThreadFacts
<1>1. /\ thr[t].live /\ thr[t].queued /\ call[t].pc = "lookup" /\ Quiescent(t)
      /\ call' = [call EXCEPT ![t] = InUser] /\ thr' = [thr EXCEPT ![t] = thr[t]]
      /\ UNCHANGED <<group, nextpid, allocated_cnt, readers>>
    BY <1>f DEF LookupDone, At, Runs
<1>2. Sound(t, thr[t], InUser, OwnReaper(t))
    BY <1>f, <1>1, InUserType DEF Sound, Same, OffCpu, PidIsBack, OwnWay, ZombieWay, Childless, Exiting
<1>3. Moves(t, InUser) BY <1>1, InUserType DEF Moves, Left
<1>r. readers' \in SUBSET Threads BY <1>1 DEF CountInv, ProcTypeOK
<1>4. QED BY <1>1, <1>2, <1>3, <1>f, <1>r, OwnMove, KeptRefl, InUserType

-----------------------------------------------------------------------------
(* Steps that change who has a pid, a group or a parent                     *)

\* The creations that go on while the threads in M move.
LEMMA ChildKept ==
    ASSUME CountInv, NEW M \in SUBSET Threads,
           \A u \in Threads \ M : call'[u] = call[u],
           \A u \in M : ~Creates(u)',
           \A c \in Threads : call[c].pc = "new" /\ (\A m \in M : ~(Creates(m) /\ call[m].child = c)) =>
               /\ call'[c].pc = "new" /\ thr'[c].pid = thr[c].pid /\ thr'[c].tg = thr[c].tg
               /\ thr'[c].kind = thr[c].kind /\ (thr[c].parent = None => thr'[c].parent = None)
    PROVE  ChildIsNew' /\ OneCreator'
<1>1. \A u \in Threads : Creates(u)' => u \notin M /\ Creates(u) /\ call'[u] = call[u] BY DEF Creates
<1>2. OneCreator' BY <1>1 DEF CountInv, Places, OneCreator
<1>3. ASSUME NEW u \in Threads, Creates(u)'
      PROVE  call'[u].child \in Threads /\ Creation(call'[u], thr'[call'[u].child], call'[call'[u].child])
    <2> DEFINE c == call[u].child
    <2>1. u \notin M /\ Creates(u) /\ call'[u] = call[u] BY <1>1, <1>3
    <2>2. c \in Threads /\ Creation(call[u], thr[c], call[c]) BY <2>1 DEF CountInv, Places, ChildIsNew
    <2>3. \A m \in M : ~(Creates(m) /\ call[m].child = c) BY <2>1 DEF CountInv, Places, OneCreator
    <2>4. call[c].pc = "new" BY <2>2 DEF Creation
    <2>5. /\ call'[c].pc = "new" /\ thr'[c].pid = thr[c].pid /\ thr'[c].tg = thr[c].tg
          /\ thr'[c].kind = thr[c].kind /\ (thr[c].parent = None => thr'[c].parent = None)
        BY <2>2, <2>3, <2>4
    <2> HIDE DEF c
    <2>6. Creation(call[u], thr'[c], call'[c]) BY <2>2, <2>5 DEF Creation
    <2>7. QED BY <2>1, <2>2, <2>6 DEF c
<1>4. QED BY <1>2, <1>3 DEF ChildIsNew

\* What a reaper took is still dead after a step that leaves the dead alone.
LEMMA TakenKept ==
    ASSUME CountInv,
           \A u \in Threads : call'[u].pc \in {"reap", "reaplocked"} =>
               /\ call'[u] = call[u]
               /\ \A c \in thr[u].kids : call[c].pc = "dead" => c \in thr'[u].kids /\ call'[c].pc = "dead"
    PROVE  ZombieIsTaken'
<1>1. SUFFICES ASSUME NEW u \in Threads, call'[u].pc \in {"reap", "reaplocked"}
               PROVE  call'[u].child \in thr'[u].kids /\ call'[call'[u].child].pc = "dead"
    BY DEF ZombieIsTaken
<1>2. call'[u] = call[u] BY <1>1
<1>3. call[u].child \in thr[u].kids /\ call[call[u].child].pc = "dead"
    BY <1>1, <1>2 DEF CountInv, Places, ZombieIsTaken
<1>4. QED BY <1>1, <1>2, <1>3

\* The pages the readers look at stay, while the threads in D are destroyed.
LEMMA LookedUpKept ==
    ASSUME CountInv,
           \A u \in Threads : call'[u].pc = "lookup" => call'[u] = call[u],
           \A p \in Threads :
               (thr[p].live /\ thr[p].kind # "thread" /\ (call[p].pc = "destroyed" => grace[p] # {})) =>
               /\ thr'[p].live /\ thr'[p].kind # "thread"
               /\ call'[p].pc = "destroyed" =>
                     \A u \in Threads :
                        (call'[u].pc = "lookup" /\ (call[p].pc = "destroyed" => u \in grace[p]))
                        => u \in grace'[p]
    PROVE  LookedUp'
<1> SUFFICES ASSUME NEW u \in Threads, call'[u].pc = "lookup", call'[u].kind # "thread"
             PROVE  LET p == call'[u].child IN
                    /\ p \in Threads /\ thr'[p].live /\ thr'[p].kind # "thread"
                    /\ call'[p].pc = "destroyed" => u \in grace'[p]
    BY DEF LookedUp
<1> DEFINE p == call[u].child
<1>1. call'[u] = call[u] OBVIOUS
<1>2. /\ p \in Threads /\ thr[p].live /\ thr[p].kind # "thread"
      /\ call[p].pc = "destroyed" => u \in grace[p]
    BY <1>1 DEF CountInv, Places, LookedUp
<1> HIDE DEF p
<1>3. thr'[p].live /\ thr'[p].kind # "thread" /\ (call'[p].pc = "destroyed" => u \in grace'[p])
    BY <1>2
<1>4. QED BY <1>1, <1>2, <1>3 DEF p

\* Counting threads.
LEMMA Count ==
    ASSUME NEW S \in SUBSET Threads, NEW t \in Threads
    PROVE  /\ IsFiniteSet(S) /\ Cardinality(S) \in Nat /\ Cardinality({}) = 0
           /\ Cardinality(S) = 0 <=> S = {}
           /\ t \notin S => Cardinality(S \cup {t}) = Cardinality(S) + 1
           /\ t \in S => Cardinality(S \ {t}) = Cardinality(S) - 1
           /\ Cardinality({t}) = 1
<1>1. IsFiniteSet(S) BY Consts, FS_Subset
<1>2. Cardinality(S) \in Nat BY <1>1, FS_CardinalityType
<1>3. Cardinality({}) = 0 /\ (Cardinality(S) = 0 <=> S = {}) BY <1>1, FS_EmptySet
<1>4. t \notin S => Cardinality(S \cup {t}) = Cardinality(S) + 1 BY <1>1, FS_AddElement
<1>5. t \in S => Cardinality(S \ {t}) = Cardinality(S) - 1 BY <1>1, FS_RemoveElement
<1>6. Cardinality({t}) = 1 BY FS_Singleton
<1>7. QED BY <1>1, <1>2, <1>3, <1>4, <1>5, <1>6

\* clone: a slot is reserved.
LEMMA CloneReserveKeeps ==
    ASSUME CountInv, NEW t \in Threads, NEW kind \in CloneKinds, CloneReserve(t, kind)
    PROVE  CountInv'
<1> DEFINE k == [call[t] EXCEPT !.pc = "create", !.kind = kind]
<1>f. /\ thr[t] \in ThreadRecord /\ call[t] \in CallRecord /\ Sound(t, thr[t], call[t], OwnReaper(t))
      /\ thr \in [Threads -> ThreadRecord] /\ call \in [Threads -> CallRecord]
      /\ grace \in [Threads -> SUBSET Threads]
    BY ThreadFacts
<1>0. kind \in {"fork", "vfork", "thread", "kthread"} BY ProcessAssumption
<1>1. /\ thr[t].live /\ thr[t].queued /\ call[t].pc = "user" /\ (kind # "kthread" => thr[t].kind # "kthread")
      /\ allocated_cnt < NR_THREAD /\ allocated_cnt' = allocated_cnt + 1
      /\ call' = [call EXCEPT ![t] = k]
      /\ UNCHANGED <<thr, group, nextpid, readers, grace>>
    BY DEF CloneReserve, MayCall, At, Runs
<1>2. k \in CallRecord /\ k.pc = "create" /\ k.kind = kind
    BY <1>f, <1>0 DEF CallRecord, Pcs, CallKindSet
<1> HIDE DEF k
<1>3. Sound(t, thr[t], k, OwnReaper(t))
    BY <1>f, <1>0, <1>1, <1>2
       DEF Sound, OffCpu, PidIsBack, OwnWay, ZombieWay, Childless, Exiting
<1>4. ProcTypeOK' BY <1>f, <1>1, <1>2, Consts DEF CountInv, ProcTypeOK
<1>5. PidsAreExact'
    <2>1. call'[t] = k /\ \A u \in Threads \ {t} : call'[u] = call[u] BY <1>f, <1>1
    <2>2. Reserving' = Reserving \cup {t} /\ t \notin Reserving
        BY <1>1, <1>2, <2>1 DEF Reserving, Runs
    <2>3. Cardinality(Reserving') = Cardinality(Reserving) + 1 /\ Cardinality(Reserving) \in Nat
        BY <2>2, Count DEF Reserving
    <2>4. Registered' = Registered /\ Registered \in SUBSET Threads BY <1>1 DEF Registered
    <2>5. Cardinality(Registered) \in Nat BY <2>4, Count
    <2>6. allocated_cnt = Cardinality(Registered) + Cardinality(Reserving)
        BY DEF CountInv, Counting, PidsAreExact, Reserving
    <2>7. allocated_cnt' = Cardinality(Registered') + Cardinality(Reserving')
        BY <1>1, <2>3, <2>4, <2>5, <2>6
    <2>8. \A a, b \in Registered' : a # b => thr'[a].pid # thr'[b].pid
        BY <1>1, <2>4 DEF CountInv, Counting, PidsAreExact
    <2>9. QED BY <2>7, <2>8 DEF PidsAreExact, Reserving
<1>6. \A u \in Threads : Kept(thr[u], thr'[u]) /\ Same(thr[u], thr'[u]) BY <1>1, KeptRefl
<1>7. /\ Left(k, OwnReaper(t)) <=> Left(call[t], OwnReaper(t))
    BY <1>1, <1>2 DEF Left
<1>8. \A d \in Threads : grace[d] \ {t} \subseteq grace'[d] BY <1>1
<1>9. Sound(t, thr'[t], k, OwnReaper(t)) BY <1>1, <1>3
<1>10. QED BY <1>1, <1>2, <1>4, <1>5, <1>6, <1>7, <1>8, <1>9, OneMoves, GroupsSame

\* The counts of a step that keeps who is registered and who is cloning.
LEMMA PidsSame ==
    ASSUME CountInv, Registered' = Registered, \A u \in Registered : thr'[u].pid = thr[u].pid,
           Reserving' = Reserving, allocated_cnt' = allocated_cnt
    PROVE  PidsAreExact'
<1>1. /\ \A t, u \in Registered : t # u => thr[t].pid # thr[u].pid
      /\ allocated_cnt = Cardinality(Registered) + Cardinality(Reserving)
    BY DEF CountInv, Counting, PidsAreExact, Reserving
<1>2. /\ \A t, u \in Registered' : t # u => thr'[t].pid # thr'[u].pid
      /\ allocated_cnt' = Cardinality(Registered') + Cardinality(Reserving')
    BY <1>1
<1>3. QED BY <1>2 DEF PidsAreExact, Reserving

\* The fields of a free page.
LEMMA FreeThreadIs ==
    /\ FreeThread \in ThreadRecord /\ FreeThread.live = FALSE /\ FreeThread.pid = 0 /\ FreeThread.tg = None
    /\ FreeThread.kids = {} /\ FreeThread.parent = None /\ FreeThread.kind = "process"
    /\ FreeThread.state = "UNUSED" /\ FreeThread.queued = FALSE /\ FreeThread.vfork = None
BY Consts DEF FreeThread, ThreadRecord, States, Kinds

\* Nobody refers to a free page.
LEMMA FreePage ==
    ASSUME CountInv, NEW c \in Threads, ~thr[c].live
    PROVE  /\ thr[c] = FreeThread /\ call[c].pc = "user" /\ c # initproc
           /\ \A u \in Threads : c \notin thr[u].kids
<1>1. Sound(c, thr[c], call[c], OwnReaper(c)) BY ThreadFacts
<1>2. QED BY <1>1 DEF Sound, CountInv, Families, KidsAgree

\* A page changes hands while it has no pid, no group and no children and is nobody's child.
LEMMA PageStep ==
    ASSUME CountInv, ProcTypeOK', NEW c \in Threads, UNCHANGED group,
           \A u \in Threads \ {c} : Same(thr[u], thr'[u]),
           thr[c].pid = 0, thr'[c].pid = 0, thr[c].tg = None, thr'[c].tg = None,
           thr[c].kids = {}, thr'[c].kids = {}, thr'[c].parent = None,
           \A u \in Threads : c \notin thr[u].kids,
           \A u \in Threads \ {c} : Left(call'[u], OwnReaper(u)) <=> Left(call[u], OwnReaper(u))
    PROVE  /\ Families' /\ GroupsCount' /\ UnusedGroups' /\ Members' /\ Registered' = Registered
           /\ \A u \in Registered : thr'[u].pid = thr[u].pid
           /\ \A u \in Threads \ {c} : OwnReaper(u)' <=> OwnReaper(u)
           /\ ~OwnReaper(c)'
<1>n. None \notin Threads /\ None \notin Groups BY Consts
<1>1. Registered' = Registered BY DEF Registered, Same
<1>2. \A u \in Registered : thr'[u].pid = thr[u].pid BY DEF Registered, Same
<1>3. \A u \in Threads \ {c} : OwnReaper(u)' <=> OwnReaper(u) BY OwnReaperKept DEF Same
<1>4. ~OwnReaper(c)' BY <1>n DEF OwnReaper
<1>5. \A g \in Groups : Refs(g)' = Refs(g) BY <1>n DEF Refs, Same
<1>6. GroupsCount' BY <1>5 DEF CountInv, Counting, GroupsCount
<1>7. UnusedGroups' BY DEF CountInv, Counting, UnusedGroups
<1>8. Members'
    <2> SUFFICES ASSUME NEW g \in Groups, NEW u \in Threads
                 PROVE  u \in group'[g].members <=>
                            thr'[u].live /\ thr'[u].tg = g /\ ~Left(call'[u], OwnReaper(u)')
        BY DEF Members
    <2>1. u \in group[g].members <=> thr[u].live /\ thr[u].tg = g /\ ~Left(call[u], OwnReaper(u))
        BY DEF CountInv, Counting, Members
    <2>2. CASE u = c BY <1>n, <2>1, <2>2
    <2>3. CASE u # c
        <3>1. Left(call'[u], OwnReaper(u)') <=> Left(call[u], OwnReaper(u)) BY <1>3, <2>3 DEF Left
        <3>2. QED BY <2>1, <2>3, <3>1 DEF Same
    <2>4. QED BY <2>2, <2>3
<1>t. \A u \in Threads : thr[u].parent \in Threads \cup {None} /\ thr[u].kids \in SUBSET Threads
    BY DEF CountInv, ProcTypeOK, ThreadRecord
<1>9. KidsAgree'
    <2> SUFFICES ASSUME NEW u \in Threads, NEW d \in thr'[u].kids
                 PROVE  thr'[d].live /\ thr'[d].kind # "thread" /\ thr'[d].parent = u
        BY DEF KidsAgree
    <2>1. u # c /\ thr'[u].kids = thr[u].kids BY DEF Same
    <2>2. d \in Threads /\ d # c BY <1>t, <2>1
    <2>3. thr[d].live /\ thr[d].kind # "thread" /\ thr[d].parent = u BY <2>1 DEF CountInv, Families, KidsAgree
    <2>4. QED BY <2>2, <2>3 DEF Same
<1>10. FamilyAgrees'
    <2> SUFFICES ASSUME NEW d \in Threads, thr'[d].live, thr'[d].kind # "thread"
                 PROVE  /\ \A u \in Threads : d \in thr'[u].kids <=> thr'[d].parent = u
                        /\ thr'[d].parent # None => thr'[thr'[d].parent].live /\ thr'[thr'[d].parent].pid # 0
        BY DEF FamilyAgrees
    <2>k. \A u \in Threads : thr'[u].kids = thr[u].kids BY DEF Same
    <2>1. CASE d = c BY <1>n, <2>1, <2>k
    <2>2. CASE d # c
        <3>1. thr[d].live /\ thr[d].kind # "thread" /\ thr'[d].parent = thr[d].parent BY <2>2 DEF Same
        <3>2. /\ \A u \in Threads : d \in thr[u].kids <=> thr[d].parent = u
              /\ thr[d].parent # None => thr[thr[d].parent].live /\ thr[thr[d].parent].pid # 0
            BY <3>1 DEF CountInv, Families, FamilyAgrees
        <3>3. thr[d].parent # None => thr[d].parent \in Threads \ {c} BY <1>t, <3>2
        <3>4. QED BY <2>k, <3>1, <3>2, <3>3 DEF Same
    <2>3. QED BY <2>1, <2>2
<1>11. QED BY <1>1, <1>2, <1>3, <1>4, <1>6, <1>7, <1>8, <1>9, <1>10 DEF Families

\* The record of a new thread.
NewThread(t) ==
    [FreeThread EXCEPT !.live = TRUE, !.state = "UNINTERRUPTIBLE",
        !.vfork = IF call[t].kind = "vfork" THEN t ELSE None,
        !.kind = CASE call[t].kind = "thread" -> "thread"
                   [] call[t].kind = "kthread" -> "kthread"
                   [] OTHER -> "process"]

\* The fields of the record that thread_create returns.
LEMMA NewThreadIs ==
    ASSUME NEW t \in Threads
    PROVE  /\ NewThread(t) \in ThreadRecord /\ NewThread(t).live = TRUE
           /\ NewThread(t).pid = 0 /\ NewThread(t).tg = None
           /\ NewThread(t).kids = {} /\ NewThread(t).parent = None
           /\ NewThread(t).state = "UNINTERRUPTIBLE"
           /\ NewThread(t).kind = "thread" <=> call[t].kind = "thread"
           /\ NewThread(t).kind = "kthread" <=> call[t].kind = "kthread"
           /\ NewThread(t).vfork = IF call[t].kind = "vfork" THEN t ELSE None
<1> DEFINE v == IF call[t].kind = "vfork" THEN t ELSE None
           x == CASE call[t].kind = "thread" -> "thread"
                   [] call[t].kind = "kthread" -> "kthread"
                   [] OTHER -> "process"
<1>1. /\ x \in Kinds /\ (x = "thread" <=> call[t].kind = "thread")
      /\ (x = "kthread" <=> call[t].kind = "kthread")
    <2>1. CASE call[t].kind = "thread" BY <2>1 DEF Kinds
    <2>2. CASE call[t].kind = "kthread" BY <2>2 DEF Kinds
    <2>3. CASE call[t].kind \notin {"thread", "kthread"} BY <2>3 DEF Kinds
    <2>4. QED BY <2>1, <2>2, <2>3
<1>2. v \in Threads \cup {None} OBVIOUS
<1>a. NewThread(t) = [FreeThread EXCEPT !.live = TRUE, !.state = "UNINTERRUPTIBLE", !.vfork = v, !.kind = x]
    BY DEF NewThread
<1> HIDE DEF v, x
<1>3. NewThread(t) = [live |-> TRUE, state |-> "UNINTERRUPTIBLE", queued |-> FALSE, pid |-> 0,
                      parent |-> None, kids |-> {}, tg |-> None, vfork |-> v, kind |-> x,
                      killed |-> FALSE]
    BY <1>a DEF FreeThread
<1>4. NewThread(t) \in ThreadRecord BY <1>1, <1>2, <1>3, Consts DEF ThreadRecord, States
<1>5. QED BY <1>1, <1>3, <1>4 DEF v

\* clone: the new thread is made.
LEMMA CloneCreateKeeps ==
    ASSUME CountInv, NEW t \in Threads, CloneCreate(t)
    PROVE  CountInv'
<1>f. /\ thr[t] \in ThreadRecord /\ call[t] \in CallRecord /\ Sound(t, thr[t], call[t], OwnReaper(t))
      /\ thr \in [Threads -> ThreadRecord] /\ call \in [Threads -> CallRecord]
    BY ThreadFacts
<1>0. /\ thr[t].live /\ thr[t].queued /\ call[t].pc = "create"
      /\ UNCHANGED <<group, nextpid, allocated_cnt, readers, grace>>
    BY DEF CloneCreate, At, Runs
<1> DEFINE x == IF call[t].kind = "vfork" THEN "UNINTERRUPTIBLE" ELSE thr[t].state
           r == [thr[t] EXCEPT !.state = x]
<1>1. PICK c \in Threads :
        /\ ~thr[c].live
        /\ thr' = [thr EXCEPT ![c] = NewThread(t),
                      ![t].state = IF call[t].kind = "vfork" THEN "UNINTERRUPTIBLE" ELSE @]
        /\ call' = [call EXCEPT ![t].pc = "attach", ![t].child = c, ![c] = [InUser EXCEPT !.pc = "new"]]
    BY DEF CloneCreate, NewThread
<1> DEFINE k == [call[t] EXCEPT !.pc = "attach", !.child = c]
           kc == [InUser EXCEPT !.pc = "new"]
<1>2. c # t BY <1>0, <1>1
<1>3. x \in States BY <1>f DEF ThreadRecord, States
<1>4. r \in ThreadRecord /\ Same(thr[t], r) /\ r.state = x /\ r.queued = thr[t].queued BY <1>f, <1>3, StateField
<1>5. k \in CallRecord /\ k.pc = "attach" /\ k.child = c /\ k.kind = call[t].kind BY <1>f DEF CallRecord, Pcs
<1>6. kc \in CallRecord /\ kc.pc = "new" BY DEF InUser, CallRecord, Pcs, CallKindSet
<1>7. thr' = [thr EXCEPT ![c] = NewThread(t), ![t] = r] BY <1>1, <1>2, <1>f
<1>8. call' = [call EXCEPT ![t] = k, ![c] = kc] BY <1>1, <1>2, <1>f
<1> HIDE DEF r, k, kc, x
<1>9. /\ thr'[c] = NewThread(t) /\ thr'[t] = r /\ call'[t] = k /\ call'[c] = kc
      /\ \A u \in Threads \ {t, c} : thr'[u] = thr[u] /\ call'[u] = call[u]
    BY <1>2, <1>7, <1>8, <1>f
<1>10. ProcTypeOK' BY <1>0, <1>4, <1>5, <1>6, <1>7, <1>8, <1>f, NewThreadIs DEF CountInv, ProcTypeOK
<1>11. /\ thr[c] = FreeThread /\ call[c].pc = "user" /\ c # initproc
       /\ \A u \in Threads : c \notin thr[u].kids
    BY <1>1, FreePage
<1>12. x = "ZOMBIE" => thr[t].state = "ZOMBIE" BY DEF x
<1>13. \A u \in Threads \ {c} : Same(thr[u], thr'[u]) BY <1>4, <1>9, KeptRefl
<1>14. \A u \in Threads \ {c} : Left(call'[u], OwnReaper(u)) <=> Left(call[u], OwnReaper(u))
    BY <1>0, <1>5, <1>9 DEF Left
<1>15. /\ Families' /\ GroupsCount' /\ UnusedGroups' /\ Members' /\ Registered' = Registered
       /\ \A u \in Registered : thr'[u].pid = thr[u].pid
       /\ \A u \in Threads \ {c} : OwnReaper(u)' <=> OwnReaper(u)
       /\ ~OwnReaper(c)'
    <2>1. thr[c].pid = 0 /\ thr[c].tg = None /\ thr[c].kids = {} BY <1>11, FreeThreadIs
    <2>2. thr'[c].pid = 0 /\ thr'[c].tg = None /\ thr'[c].kids = {} /\ thr'[c].parent = None
        BY <1>9, NewThreadIs
    <2>3. QED BY <1>0, <1>10, <1>11, <1>13, <1>14, <2>1, <2>2, PageStep
<1>16. ThreadsSound'
    <2> SUFFICES ASSUME NEW u \in Threads PROVE Sound(u, thr'[u], call'[u], OwnReaper(u)')
        BY DEF ThreadsSound
    <2>1. CASE u = c
        <3>1. Sound(c, NewThread(t), kc, FALSE)
            BY <1>6, <1>11, NewThreadIs DEF Sound, Same, OffCpu, PidIsBack, OwnWay, ZombieWay, Childless, Exiting
        <3>2. QED BY <2>1, <3>1, <1>9, <1>15 DEF Sound
    <2>2. CASE u = t
        <3>1. Sound(t, r, k, OwnReaper(t))
            BY <1>f, <1>0, <1>4, <1>5, <1>12 DEF Sound, Same, OffCpu, PidIsBack, OwnWay, ZombieWay, Childless, Exiting
        <3>2. QED BY <1>2, <2>2, <3>1, <1>9, <1>15 DEF Sound
    <2>3. CASE u # t /\ u # c
        <3>1. Sound(u, thr[u], call[u], OwnReaper(u)) BY ThreadFacts
        <3>2. QED BY <2>3, <3>1, <1>9, <1>15 DEF Sound
    <2>4. QED BY <2>1, <2>2, <2>3
<1>17. \A u \in Threads : Creates(u)' /\ u # t =>
           /\ u # c /\ Creates(u) /\ call'[u] = call[u]
           /\ call[u].child \in Threads \ {t, c}
    <2> SUFFICES ASSUME NEW u \in Threads, Creates(u)', u # t
                 PROVE  /\ u # c /\ Creates(u) /\ call'[u] = call[u]
                        /\ call[u].child \in Threads \ {t, c}
        OBVIOUS
    <2>1. u # c BY <1>6, <1>9 DEF Creates
    <2>2. call'[u] = call[u] /\ Creates(u) BY <2>1, <1>9 DEF Creates
    <2>3. call[u].child \in Threads /\ call[call[u].child].pc = "new"
        BY <2>2 DEF CountInv, Places, ChildIsNew, Creation
    <2>4. QED BY <2>1, <2>2, <2>3, <1>0, <1>11
<1>18. ChildIsNew'
    <2> SUFFICES ASSUME NEW u \in Threads, Creates(u)'
                 PROVE  call'[u].child \in Threads
                        /\ Creation(call'[u], thr'[call'[u].child], call'[call'[u].child])
        BY DEF ChildIsNew
    <2>1. CASE u = t
        <3>1. Creation(k, NewThread(t), kc) BY <1>5, <1>6, NewThreadIs DEF Creation
        <3>2. QED BY <2>1, <3>1, <1>5, <1>9
    <2>2. CASE u # t
        <3>1. /\ Creates(u) /\ call'[u] = call[u] /\ call[u].child \in Threads \ {t, c} BY <2>2, <1>17
        <3>2. Creation(call[u], thr[call[u].child], call[call[u].child])
            BY <3>1 DEF CountInv, Places, ChildIsNew
        <3>3. QED BY <3>1, <3>2, <1>9
    <2>3. QED BY <2>1, <2>2
<1>19. OneCreator'
    <2> SUFFICES ASSUME NEW u \in Threads, NEW w \in Threads, Creates(u)', Creates(w)',
                        call'[u].child = call'[w].child
                 PROVE  u = w
        BY DEF OneCreator
    <2>1. CASE u # t /\ w # t BY <2>1, <1>17 DEF CountInv, Places, OneCreator
    <2>2. CASE u = t /\ w # t BY <2>2, <1>17, <1>5, <1>9
    <2>3. CASE u # t /\ w = t BY <2>3, <1>17, <1>5, <1>9
    <2>4. QED BY <2>1, <2>2, <2>3
<1>20. ZombieIsTaken'
    <2>1. \A u \in Threads : call'[u].pc \in {"reap", "reaplocked"} =>
               /\ call'[u] = call[u]
               /\ \A d \in thr[u].kids : call[d].pc = "dead" => d \in thr'[u].kids /\ call'[d].pc = "dead"
        <3> SUFFICES ASSUME NEW u \in Threads, call'[u].pc \in {"reap", "reaplocked"}
                     PROVE  /\ call'[u] = call[u]
                            /\ \A d \in thr[u].kids :
                                  call[d].pc = "dead" => d \in thr'[u].kids /\ call'[d].pc = "dead"
            OBVIOUS
        <3>1. u # t /\ u # c BY <1>5, <1>6, <1>9
        <3>2. thr[u].kids \in SUBSET Threads BY <1>f DEF ThreadRecord
        <3>3. QED BY <3>1, <3>2, <1>0, <1>9, <1>11
    <2>2. QED BY <2>1, TakenKept
<1>21. LookedUp'
    <2>1. \A u \in Threads : call'[u].pc = "lookup" => call'[u] = call[u] BY <1>5, <1>6, <1>9
    <2>2. \A p \in Threads : thr[p].live /\ thr[p].kind # "thread" =>
             thr'[p].live /\ thr'[p].kind # "thread" /\ (call'[p].pc = "destroyed" => call[p].pc = "destroyed")
        <3> SUFFICES ASSUME NEW p \in Threads, thr[p].live, thr[p].kind # "thread"
                     PROVE  /\ thr'[p].live /\ thr'[p].kind # "thread"
                            /\ call'[p].pc = "destroyed" => call[p].pc = "destroyed"
            OBVIOUS
        <3>1. p # c BY <1>1
        <3>2. Same(thr[p], thr'[p]) BY <3>1, <1>13
        <3>3. call'[p].pc = "destroyed" => call[p].pc = "destroyed" BY <3>1, <1>5, <1>9
        <3>4. QED BY <3>2, <3>3 DEF Same
    <2>3. QED BY <2>1, <2>2, <1>0, LookedUpKept
<1>22. PidsAreExact'
    <2>1. Reserving' = Reserving
        <3> SUFFICES ASSUME NEW u \in Threads
                     PROVE  (Runs(u) /\ call[u].pc \in {"create", "attach"})
                            <=> (Runs(u)' /\ call'[u].pc \in {"create", "attach"})
            BY DEF Reserving
        <3>1. CASE u = t BY <3>1, <1>0, <1>4, <1>5, <1>9 DEF Runs, Same
        <3>2. CASE u = c BY <3>2, <1>6, <1>9, <1>11
        <3>3. CASE u # t /\ u # c BY <3>3, <1>9 DEF Runs
        <3>4. QED BY <3>1, <3>2, <3>3
    <2>2. QED BY <2>1, <1>0, <1>15, PidsSame
<1>23. QED BY <1>10, <1>15, <1>16, <1>18, <1>19, <1>20, <1>21, <1>22 DEF CountInv, Places, Counting

\* A clone that ends without a thread gives its reservation back.
LEMMA PidsDrop ==
    ASSUME CountInv, Registered' = Registered, \A u \in Registered : thr'[u].pid = thr[u].pid,
           NEW t \in Threads, t \in Reserving, Reserving' = Reserving \ {t},
           allocated_cnt' = allocated_cnt - 1
    PROVE  PidsAreExact'
<1>1. /\ \A a, b \in Registered : a # b => thr[a].pid # thr[b].pid
      /\ allocated_cnt = Cardinality(Registered) + Cardinality(Reserving)
    BY DEF CountInv, Counting, PidsAreExact, Reserving
<1>2. Cardinality(Reserving') = Cardinality(Reserving) - 1 /\ Cardinality(Reserving) \in Nat
    BY Count DEF Reserving
<1>3. Cardinality(Registered) \in Nat BY Count DEF Registered
<1>4. allocated_cnt' = Cardinality(Registered') + Cardinality(Reserving') BY <1>1, <1>2, <1>3
<1>5. \A a, b \in Registered' : a # b => thr'[a].pid # thr'[b].pid BY <1>1
<1>6. QED BY <1>4, <1>5 DEF PidsAreExact, Reserving

\* clone: a failure is undone.
LEMMA CloneFailKeeps ==
    ASSUME CountInv, NEW t \in Threads, CloneFail(t)
    PROVE  CountInv'
<1>f. /\ thr[t] \in ThreadRecord /\ call[t] \in CallRecord /\ Sound(t, thr[t], call[t], OwnReaper(t))
      /\ thr \in [Threads -> ThreadRecord] /\ call \in [Threads -> CallRecord]
      /\ grace \in [Threads -> SUBSET Threads]
    BY ThreadFacts
<1>0. /\ thr[t].live /\ thr[t].queued /\ call[t].pc = "create" /\ allocated_cnt' = allocated_cnt - 1
      /\ UNCHANGED <<group, nextpid, readers>>
    BY DEF CloneFail, At, Runs, FreePid
<1>a. allocated_cnt' \in Int /\ allocated_cnt' <= NR_THREAD
    BY <1>0, Consts DEF CountInv, ProcTypeOK
<1>s. Sound(t, thr[t], InUser, OwnReaper(t))
    BY <1>f, <1>0, InUserType DEF Sound, Same, OffCpu, PidIsBack, OwnWay, ZombieWay, Childless, Exiting
<1>1. CASE UNCHANGED thr /\ Quiescent(t) /\ call' = [call EXCEPT ![t] = InUser]
    <2>1. grace' \in [Threads -> SUBSET Threads] /\ \A d \in Threads : grace[d] \ {t} \subseteq grace'[d]
        BY <1>f, <1>1, QuiescentIs
    <2>2. ProcTypeOK' BY <1>f, <1>0, <1>a, <1>1, <2>1, InUserType DEF CountInv, ProcTypeOK
    <2>3. call'[t] = InUser /\ \A u \in Threads \ {t} : call'[u] = call[u] BY <1>f, <1>1
    <2>4. t \in Reserving /\ Reserving' = Reserving \ {t}
        BY <1>0, <1>1, <2>3, InUserType DEF Reserving, Runs
    <2>5. Registered' = Registered BY <1>1 DEF Registered
    <2>6. PidsAreExact' BY <1>0, <1>1, <2>4, <2>5, PidsDrop
    <2>7. Left(InUser, OwnReaper(t)) <=> Left(call[t], OwnReaper(t)) BY <1>0, InUserType DEF Left
    <2>8. \A u \in Threads : Kept(thr[u], thr'[u]) /\ Same(thr[u], thr'[u]) BY <1>1, KeptRefl
    <2>9. QED BY <1>0, <1>1, <1>s, <2>1, <2>2, <2>6, <2>7, <2>8, OneMoves, GroupsSame, InUserType
<1>2. CASE \E c \in Threads :
            /\ ~thr[c].live
            /\ thr' = [thr EXCEPT ![c] = [FreeThread EXCEPT !.live = TRUE]]
            /\ call' = [call EXCEPT ![t] = InUser, ![c] = [InUser EXCEPT !.pc = "destroyed"]]
            /\ DestroyLater(c)
    <2>1. PICK c \in Threads :
            /\ ~thr[c].live
            /\ thr' = [thr EXCEPT ![c] = [FreeThread EXCEPT !.live = TRUE]]
            /\ call' = [call EXCEPT ![t] = InUser, ![c] = [InUser EXCEPT !.pc = "destroyed"]]
            /\ DestroyLater(c)
        BY <1>2
    <2> DEFINE r == [FreeThread EXCEPT !.live = TRUE]
               kc == [InUser EXCEPT !.pc = "destroyed"]
    <2>2. c # t BY <1>0, <2>1
    <2>3. /\ r \in ThreadRecord /\ r.live = TRUE /\ r.pid = 0 /\ r.tg = None /\ r.kids = {} /\ r.parent = None
          /\ r.kind = "process" /\ r.state = "UNUSED"
        <3>0. r = [FreeThread EXCEPT !.live = TRUE] OBVIOUS
        <3> HIDE DEF r
        <3>1. r = [live |-> TRUE, state |-> "UNUSED", queued |-> FALSE, pid |-> 0, parent |-> None,
                   kids |-> {}, tg |-> None, vfork |-> None, kind |-> "process", killed |-> FALSE]
            BY <3>0 DEF FreeThread
        <3>2. r \in ThreadRecord BY <3>1, Consts DEF ThreadRecord, States, Kinds
        <3>3. QED BY <3>1, <3>2
    <2>4. kc \in CallRecord /\ kc.pc = "destroyed" BY DEF InUser, CallRecord, Pcs, CallKindSet
    <2> HIDE DEF r, kc
    <2>5. thr' = [thr EXCEPT ![c] = r] /\ call' = [call EXCEPT ![t] = InUser, ![c] = kc] BY <2>1 DEF r, kc
    <2>6. /\ thr'[c] = r /\ call'[t] = InUser /\ call'[c] = kc /\ thr'[t] = thr[t]
          /\ \A u \in Threads \ {t, c} : thr'[u] = thr[u] /\ call'[u] = call[u]
        BY <2>2, <2>5, <1>f
    <2>g. /\ grace' \in [Threads -> SUBSET Threads]
          /\ \A d \in Threads \ {c} : grace'[d] = grace[d]
        BY <2>1, <1>f DEF DestroyLater
    <2>7. ProcTypeOK' BY <1>0, <1>a, <1>f, <2>3, <2>4, <2>5, <2>g, InUserType DEF CountInv, ProcTypeOK
    <2>8. /\ thr[c] = FreeThread /\ call[c].pc = "user" /\ c # initproc
          /\ \A u \in Threads : c \notin thr[u].kids
        BY <2>1, FreePage
    <2>9. \A u \in Threads \ {c} : Same(thr[u], thr'[u]) /\ thr'[u] = thr[u] BY <2>6, KeptRefl
    <2>10. \A u \in Threads \ {c} : Left(call'[u], OwnReaper(u)) <=> Left(call[u], OwnReaper(u))
        BY <1>0, <2>6, InUserType DEF Left
    <2>11. /\ Families' /\ GroupsCount' /\ UnusedGroups' /\ Members' /\ Registered' = Registered
           /\ \A u \in Registered : thr'[u].pid = thr[u].pid
           /\ \A u \in Threads \ {c} : OwnReaper(u)' <=> OwnReaper(u)
           /\ ~OwnReaper(c)'
        <3>1. thr[c].pid = 0 /\ thr[c].tg = None /\ thr[c].kids = {} BY <2>8, FreeThreadIs
        <3>2. thr'[c].pid = 0 /\ thr'[c].tg = None /\ thr'[c].kids = {} /\ thr'[c].parent = None
            BY <2>3, <2>6
        <3>3. QED BY <1>0, <2>7, <2>8, <2>9, <2>10, <3>1, <3>2, PageStep
    <2>12. ThreadsSound'
        <3> SUFFICES ASSUME NEW u \in Threads PROVE Sound(u, thr'[u], call'[u], OwnReaper(u)')
            BY DEF ThreadsSound
        <3>1. CASE u = c
            <4>1. Sound(c, r, kc, FALSE) BY <2>3, <2>4, <2>8 DEF Sound, Same, OffCpu, PidIsBack, OwnWay, ZombieWay, Childless, Exiting
            <4>2. QED BY <3>1, <4>1, <2>6, <2>11 DEF Sound
        <3>2. CASE u = t BY <1>s, <2>2, <2>6, <2>11, <3>2 DEF Sound
        <3>3. CASE u # t /\ u # c
            <4>1. Sound(u, thr[u], call[u], OwnReaper(u)) BY ThreadFacts
            <4>2. QED BY <3>3, <4>1, <2>6, <2>11 DEF Sound
        <3>4. QED BY <3>1, <3>2, <3>3
    <2>13. ChildIsNew' /\ OneCreator'
        <3>1. {t, c} \in SUBSET Threads OBVIOUS
        <3>2. \A u \in Threads \ {t, c} : call'[u] = call[u] BY <2>6
        <3>3. \A u \in {t, c} : ~Creates(u)' BY <2>4, <2>6, InUserType DEF Creates
        <3>4. \A d \in Threads : call[d].pc = "new" =>
                /\ call'[d].pc = "new" /\ thr'[d].pid = thr[d].pid /\ thr'[d].tg = thr[d].tg
                /\ thr'[d].kind = thr[d].kind /\ (thr[d].parent = None => thr'[d].parent = None)
            BY <1>0, <2>6, <2>8
        <3>5. QED BY <3>1, <3>2, <3>3, <3>4, ChildKept
    <2>14. ZombieIsTaken'
        <3>1. \A u \in Threads : call'[u].pc \in {"reap", "reaplocked"} =>
                 /\ call'[u] = call[u]
                 /\ \A d \in thr[u].kids : call[d].pc = "dead" => d \in thr'[u].kids /\ call'[d].pc = "dead"
            <4> SUFFICES ASSUME NEW u \in Threads, call'[u].pc \in {"reap", "reaplocked"}
                         PROVE  /\ call'[u] = call[u]
                                /\ \A d \in thr[u].kids :
                                      call[d].pc = "dead" => d \in thr'[u].kids /\ call'[d].pc = "dead"
                OBVIOUS
            <4>1. u # t /\ u # c BY <2>4, <2>6, InUserType
            <4>2. thr[u].kids \in SUBSET Threads BY <1>f DEF ThreadRecord
            <4>3. QED BY <4>1, <4>2, <1>0, <2>6, <2>8
        <3>2. QED BY <3>1, TakenKept
    <2>15. LookedUp'
        <3>1. \A u \in Threads : call'[u].pc = "lookup" => call'[u] = call[u] BY <2>4, <2>6, InUserType
        <3>2. \A p \in Threads : thr[p].live /\ thr[p].kind # "thread" =>
                 /\ thr'[p].live /\ thr'[p].kind # "thread" /\ grace'[p] = grace[p]
                 /\ call'[p].pc = "destroyed" => call[p].pc = "destroyed"
            <4> SUFFICES ASSUME NEW p \in Threads, thr[p].live, thr[p].kind # "thread"
                         PROVE  /\ thr'[p].live /\ thr'[p].kind # "thread" /\ grace'[p] = grace[p]
                                /\ call'[p].pc = "destroyed" => call[p].pc = "destroyed"
                OBVIOUS
            <4>1. p # c BY <2>1
            <4>2. QED BY <4>1, <2>6, <2>9, <2>g, InUserType
        <3>3. QED BY <3>1, <3>2, LookedUpKept
    <2>16. PidsAreExact'
        <3>1. t \in Reserving /\ Reserving' = Reserving \ {t}
            <4>1. t \in Reserving BY <1>0 DEF Reserving, Runs
            <4>2. ASSUME NEW u \in Threads
                  PROVE  u # t /\ (Runs(u) /\ call[u].pc \in {"create", "attach"})
                            <=> (Runs(u)' /\ call'[u].pc \in {"create", "attach"})
                <5>1. CASE u = t BY <5>1, <2>6, InUserType
                <5>2. CASE u = c BY <5>2, <2>4, <2>6, <2>8
                <5>3. CASE u # t /\ u # c BY <5>3, <2>6 DEF Runs
                <5>4. QED BY <5>1, <5>2, <5>3
            <4>3. QED BY <4>1, <4>2 DEF Reserving
        <3>2. QED BY <1>0, <3>1, <2>11, PidsDrop
    <2>17. QED BY <2>7, <2>11, <2>12, <2>13, <2>14, <2>15, <2>16 DEF CountInv, Places, Counting
<1>3. QED BY <1>1, <1>2 DEF CloneFail

\* The page of a thread nobody refers to is freed.
LEMMA PageFreed ==
    ASSUME CountInv, NEW c \in Threads, ProcTypeOK',
           thr[c].live, call[c].pc \in {"selfreap", "destroyed"},
           thr' = [thr EXCEPT ![c] = FreeThread], call' = [call EXCEPT ![c] = InUser],
           \A u \in Threads : c \notin thr[u].kids,
           thr[c].kind = "thread" \/ (call[c].pc = "destroyed" /\ grace[c] = {}),
           \A d \in Threads : grace[d] \ {c} \subseteq grace'[d],
           UNCHANGED <<group, nextpid, allocated_cnt, readers>>
    PROVE  CountInv'
<1>f. /\ thr[c] \in ThreadRecord /\ call[c] \in CallRecord /\ Sound(c, thr[c], call[c], OwnReaper(c))
      /\ thr \in [Threads -> ThreadRecord] /\ call \in [Threads -> CallRecord]
    BY ThreadFacts
<1>1. /\ thr'[c] = FreeThread /\ call'[c] = InUser
      /\ \A u \in Threads \ {c} : thr'[u] = thr[u] /\ call'[u] = call[u]
    BY <1>f
<1>2. thr[c].pid = 0 /\ thr[c].tg = None /\ thr[c].kids = {} /\ c # initproc
    BY <1>f DEF Sound, PidIsBack, Childless, Exiting
<1>3. /\ Families' /\ GroupsCount' /\ UnusedGroups' /\ Members' /\ Registered' = Registered
      /\ \A u \in Registered : thr'[u].pid = thr[u].pid
      /\ \A u \in Threads \ {c} : OwnReaper(u)' <=> OwnReaper(u)
      /\ ~OwnReaper(c)'
    <2>1. \A u \in Threads \ {c} : Same(thr[u], thr'[u]) BY <1>1, KeptRefl
    <2>2. \A u \in Threads \ {c} : Left(call'[u], OwnReaper(u)) <=> Left(call[u], OwnReaper(u)) BY <1>1
    <2>3. thr'[c].pid = 0 /\ thr'[c].tg = None /\ thr'[c].kids = {} /\ thr'[c].parent = None
        BY <1>1, FreeThreadIs
    <2>4. QED BY <1>2, <2>1, <2>2, <2>3, PageStep
<1>4. ThreadsSound'
    <2> SUFFICES ASSUME NEW u \in Threads PROVE Sound(u, thr'[u], call'[u], OwnReaper(u)')
        BY DEF ThreadsSound
    <2>1. CASE u = c
        <3>1. Sound(c, FreeThread, InUser, FALSE)
            BY <1>2, FreeThreadIs, InUserType DEF Sound, Same, OffCpu, PidIsBack, OwnWay, ZombieWay, Childless, Exiting
        <3>2. QED BY <2>1, <3>1, <1>1, <1>3 DEF Sound
    <2>2. CASE u # c
        <3>1. Sound(u, thr[u], call[u], OwnReaper(u)) BY ThreadFacts
        <3>2. QED BY <2>2, <3>1, <1>1, <1>3 DEF Sound
    <2>3. QED BY <2>1, <2>2
<1>5. ChildIsNew' /\ OneCreator'
    <2>1. {c} \in SUBSET Threads OBVIOUS
    <2>2. \A u \in Threads \ {c} : call'[u] = call[u] BY <1>1
    <2>3. \A u \in {c} : ~Creates(u)' BY <1>1, InUserType DEF Creates
    <2>4. \A d \in Threads : call[d].pc = "new" =>
            /\ call'[d].pc = "new" /\ thr'[d].pid = thr[d].pid /\ thr'[d].tg = thr[d].tg
            /\ thr'[d].kind = thr[d].kind /\ (thr[d].parent = None => thr'[d].parent = None)
        BY <1>1
    <2>5. QED BY <2>1, <2>2, <2>3, <2>4, ChildKept
<1>6. ZombieIsTaken'
    <2>1. \A u \in Threads : call'[u].pc \in {"reap", "reaplocked"} =>
             /\ call'[u] = call[u]
             /\ \A d \in thr[u].kids : call[d].pc = "dead" => d \in thr'[u].kids /\ call'[d].pc = "dead"
        <3> SUFFICES ASSUME NEW u \in Threads, call'[u].pc \in {"reap", "reaplocked"}
                     PROVE  /\ call'[u] = call[u]
                            /\ \A d \in thr[u].kids :
                                  call[d].pc = "dead" => d \in thr'[u].kids /\ call'[d].pc = "dead"
            OBVIOUS
        <3>1. u # c BY <1>1, InUserType
        <3>2. thr[u].kids \in SUBSET Threads BY <1>f DEF ThreadRecord
        <3>3. QED BY <3>1, <3>2, <1>1
    <2>2. QED BY <2>1, TakenKept
<1>7. LookedUp'
    <2>1. \A u \in Threads : call'[u].pc = "lookup" => u # c /\ call'[u] = call[u] BY <1>1, InUserType
    <2>2. ASSUME NEW p \in Threads, thr[p].live, thr[p].kind # "thread",
                 call[p].pc = "destroyed" => grace[p] # {}
          PROVE  /\ thr'[p].live /\ thr'[p].kind # "thread"
                 /\ call'[p].pc = "destroyed" =>
                     \A u \in Threads :
                        (call'[u].pc = "lookup" /\ (call[p].pc = "destroyed" => u \in grace[p]))
                        => u \in grace'[p]
        <3>1. p # c BY <2>2
        <3>2. QED BY <2>1, <2>2, <3>1, <1>1
    <2>3. QED BY <2>1, <2>2, LookedUpKept
<1>8. Reserving' = Reserving
    <2>1. ASSUME NEW u \in Threads
          PROVE  (Runs(u) /\ call[u].pc \in {"create", "attach"})
                        <=> (Runs(u)' /\ call'[u].pc \in {"create", "attach"})
        <3>1. CASE u = c BY <3>1, <1>1, InUserType
        <3>2. CASE u # c BY <3>2, <1>1 DEF Runs
        <3>3. QED BY <3>1, <3>2
    <2>2. QED BY <2>1 DEF Reserving
<1>9. PidsAreExact' BY <1>3, <1>8, PidsSame
<1>10. QED BY <1>3, <1>4, <1>5, <1>6, <1>7, <1>9 DEF CountInv, Places, Counting

\* The RCU callback frees the page.
LEMMA RcuFreeKeeps ==
    ASSUME CountInv, NEW c \in Threads, RcuFree(c)
    PROVE  CountInv'
<1>f. /\ thr[c] \in ThreadRecord /\ Sound(c, thr[c], call[c], OwnReaper(c))
      /\ thr \in [Threads -> ThreadRecord] /\ call \in [Threads -> CallRecord]
    BY ThreadFacts
<1>1. /\ thr[c].live /\ call[c].pc = "destroyed" /\ grace[c] = {}
      /\ thr' = [thr EXCEPT ![c] = FreeThread] /\ call' = [call EXCEPT ![c] = InUser]
      /\ UNCHANGED <<group, nextpid, allocated_cnt, readers, grace>>
    BY DEF RcuFree
<1>2. ProcTypeOK' BY <1>f, <1>1, FreeThreadIs, InUserType DEF CountInv, ProcTypeOK
<1>3. thr[c].parent = None BY <1>f, <1>1 DEF Sound
<1>4. \A u \in Threads : c \notin thr[u].kids BY <1>3, Consts DEF CountInv, Families, KidsAgree
<1>5. QED BY <1>1, <1>2, <1>4, PageFreed

\* A thread that reaps itself is freed.
LEMMA SelfReapKeeps ==
    ASSUME CountInv, NEW t \in Threads, SelfReap(t)
    PROVE  CountInv'
<1>f. /\ thr[t] \in ThreadRecord /\ Sound(t, thr[t], call[t], OwnReaper(t))
      /\ thr \in [Threads -> ThreadRecord] /\ call \in [Threads -> CallRecord]
      /\ grace \in [Threads -> SUBSET Threads]
    BY ThreadFacts
<1>1. /\ thr[t].live /\ call[t].pc = "selfreap"
      /\ thr' = [thr EXCEPT ![t] = FreeThread] /\ call' = [call EXCEPT ![t] = InUser] /\ Quiescent(t)
      /\ UNCHANGED <<group, nextpid, allocated_cnt, readers>>
    BY DEF SelfReap, At, Runs
<1>2. grace' \in [Threads -> SUBSET Threads] /\ \A d \in Threads : grace[d] \ {t} \subseteq grace'[d]
    BY <1>f, <1>1, QuiescentIs
<1>3. ProcTypeOK' BY <1>f, <1>1, <1>2, FreeThreadIs, InUserType DEF CountInv, ProcTypeOK
<1>4. thr[t].kind = "thread" BY <1>f, <1>1 DEF Sound
<1>5. \A u \in Threads : t \notin thr[u].kids BY <1>4 DEF CountInv, Families, KidsAgree
<1>6. QED BY <1>1, <1>2, <1>3, <1>4, <1>5, PageFreed

\* The creator lets its child run.
LEMMA CloneStartKeeps ==
    ASSUME CountInv, NEW t \in Threads, CloneStart(t)
    PROVE  CountInv'
<1> DEFINE c == call[t].child
           k == IF call[t].kind = "vfork" THEN [call[t] EXCEPT !.pc = "vfork"] ELSE InUser
<1>f. /\ thr[t] \in ThreadRecord /\ call[t] \in CallRecord /\ Sound(t, thr[t], call[t], OwnReaper(t))
      /\ thr \in [Threads -> ThreadRecord] /\ call \in [Threads -> CallRecord]
      /\ grace \in [Threads -> SUBSET Threads]
    BY ThreadFacts
<1>0. /\ thr[t].live /\ thr[t].queued /\ call[t].pc = "start" /\ Creates(t)
      /\ thr' = Woken(thr, c, {"INTERRUPTIBLE", "UNINTERRUPTIBLE"})
      /\ UNCHANGED grace \/ Quiescent(t)
      /\ UNCHANGED <<group, nextpid, allocated_cnt, readers>>
    BY DEF CloneStart, At, Runs, WakeAny, Creates
<1>1. /\ c \in Threads /\ call[c].pc = "new" /\ thr[c].pid # 0
      /\ thr[c].kind = "kthread" \/ thr[c].tg # None
    BY <1>0 DEF CountInv, Places, ChildIsNew, Creation
<1>2. c # t BY <1>0, <1>1
<1>3. k \in CallRecord /\ k.pc \in {"vfork", "user"} BY <1>f, InUserType DEF CallRecord, Pcs
<1>4. call' = [call EXCEPT ![c] = InUser, ![t] = k] BY <1>0, <1>1, <1>2, <1>f DEF CloneStart
<1> HIDE DEF k, c
<1>5. /\ call'[t] = k /\ call'[c] = InUser /\ \A u \in Threads \ {t, c} : call'[u] = call[u]
    BY <1>1, <1>2, <1>4, <1>f
<1>6. /\ thr' \in [Threads -> ThreadRecord] /\ \A u \in Threads : Kept(thr[u], thr'[u])
    BY <1>0, <1>1, <1>f, WokenKeeps
<1>7. grace' \in [Threads -> SUBSET Threads] /\ \A d \in Threads : grace[d] \ {t} \subseteq grace'[d]
    BY <1>f, <1>0, QuiescentIs
<1>8. ProcTypeOK' BY <1>0, <1>1, <1>3, <1>4, <1>6, <1>7, <1>f, InUserType DEF CountInv, ProcTypeOK
<1>9. \A u \in Threads : Same(thr[u], thr'[u]) BY <1>6 DEF Kept
<1>10. \A u \in Threads : OwnReaper(u)' <=> OwnReaper(u) BY <1>0, <1>9, OwnReaperKept DEF Same
<1>11. ThreadsSound'
    <2> SUFFICES ASSUME NEW u \in Threads PROVE Sound(u, thr'[u], call'[u], OwnReaper(u)')
        BY DEF ThreadsSound
    <2>0. Sound(u, thr[u], call[u], OwnReaper(u)) /\ thr[u] \in ThreadRecord /\ call[u] \in CallRecord
        BY ThreadFacts
    <2>1. Sound(u, thr[u], call'[u], OwnReaper(u))
        <3>1. CASE u = c
            <4>1. Sound(c, thr[c], InUser, OwnReaper(c))
                BY <1>1, <2>0, <3>1, InUserType DEF Sound, Same, OffCpu, PidIsBack, OwnWay, ZombieWay, Childless, Exiting
            <4>2. QED BY <3>1, <4>1, <1>5
        <3>2. CASE u = t
            <4>1. Sound(t, thr[t], k, OwnReaper(t)) BY <1>0, <1>3, <1>f DEF Sound, Same, OffCpu, PidIsBack, OwnWay, ZombieWay, Childless, Exiting
            <4>2. QED BY <3>2, <4>1, <1>5
        <3>3. CASE u # t /\ u # c BY <2>0, <3>3, <1>5
        <3>4. QED BY <3>1, <3>2, <3>3
    <2>2. call'[u] \in CallRecord /\ thr'[u] \in ThreadRecord BY <1>8 DEF ProcTypeOK
    <2>3. Sound(u, thr'[u], call'[u], OwnReaper(u)) BY <1>6, <2>0, <2>1, <2>2, SoundKept
    <2>4. QED BY <2>3, <1>10 DEF Sound
<1>12. ChildIsNew' /\ OneCreator'
    <2>1. {t, c} \in SUBSET Threads BY <1>1
    <2>2. \A u \in Threads \ {t, c} : call'[u] = call[u] BY <1>5
    <2>3. \A u \in {t, c} : ~Creates(u)' BY <1>3, <1>5, InUserType DEF Creates
    <2>4. \A d \in Threads : call[d].pc = "new" /\ (\A m \in {t, c} : ~(Creates(m) /\ call[m].child = d)) =>
            /\ call'[d].pc = "new" /\ thr'[d].pid = thr[d].pid /\ thr'[d].tg = thr[d].tg
            /\ thr'[d].kind = thr[d].kind /\ (thr[d].parent = None => thr'[d].parent = None)
        <3> SUFFICES ASSUME NEW d \in Threads, call[d].pc = "new",
                            \A m \in {t, c} : ~(Creates(m) /\ call[m].child = d)
                     PROVE  /\ call'[d].pc = "new" /\ thr'[d].pid = thr[d].pid /\ thr'[d].tg = thr[d].tg
                            /\ thr'[d].kind = thr[d].kind /\ (thr[d].parent = None => thr'[d].parent = None)
            OBVIOUS
        <3>1. d # c /\ d # t BY <1>0 DEF c
        <3>2. QED BY <3>1, <1>5, <1>9 DEF Same
    <2>5. QED BY <2>1, <2>2, <2>3, <2>4, ChildKept
<1>13. ZombieIsTaken'
    <2>1. \A u \in Threads : call'[u].pc \in {"reap", "reaplocked"} =>
             /\ call'[u] = call[u]
             /\ \A d \in thr[u].kids : call[d].pc = "dead" => d \in thr'[u].kids /\ call'[d].pc = "dead"
        <3> SUFFICES ASSUME NEW u \in Threads, call'[u].pc \in {"reap", "reaplocked"}
                     PROVE  /\ call'[u] = call[u]
                            /\ \A d \in thr[u].kids :
                                  call[d].pc = "dead" => d \in thr'[u].kids /\ call'[d].pc = "dead"
            OBVIOUS
        <3>1. u # t /\ u # c BY <1>3, <1>5, InUserType
        <3>2. thr[u].kids \in SUBSET Threads /\ thr'[u].kids = thr[u].kids BY <1>f, <1>9 DEF ThreadRecord, Same
        <3>3. QED BY <3>1, <3>2, <1>0, <1>1, <1>5
    <2>2. QED BY <2>1, TakenKept
<1>14. LookedUp'
    <2>1. \A u \in Threads : call'[u].pc = "lookup" => u # t /\ call'[u] = call[u] BY <1>3, <1>5, InUserType
    <2>2. \A p \in Threads : thr[p].live /\ thr[p].kind # "thread" =>
             /\ thr'[p].live /\ thr'[p].kind # "thread"
             /\ call'[p].pc = "destroyed" => call[p].pc = "destroyed"
        BY <1>3, <1>5, <1>9, InUserType DEF Same
    <2>3. QED BY <2>1, <2>2, <1>7, LookedUpKept
<1>15. Families' BY <1>9, FamiliesKept DEF CountInv, Places
<1>16. GroupsCount' /\ UnusedGroups' BY <1>0, <1>9, GroupsSame, GroupsKept DEF CountInv, Counting
<1>17. Members'
    <2> SUFFICES ASSUME NEW g \in Groups, NEW u \in Threads
                 PROVE  u \in group'[g].members <=>
                            thr'[u].live /\ thr'[u].tg = g /\ ~Left(call'[u], OwnReaper(u)')
        BY DEF Members
    <2>1. u \in group[g].members <=> thr[u].live /\ thr[u].tg = g /\ ~Left(call[u], OwnReaper(u))
        BY DEF CountInv, Counting, Members
    <2>2. Left(call'[u], OwnReaper(u)') <=> Left(call[u], OwnReaper(u))
        <3>1. CASE u = t BY <3>1, <1>0, <1>3, <1>5 DEF Left
        <3>2. CASE u = c BY <3>2, <1>1, <1>5, InUserType DEF Left
        <3>3. CASE u # t /\ u # c BY <3>3, <1>5, <1>10 DEF Left
        <3>4. QED BY <3>1, <3>2, <3>3
    <2>3. QED BY <2>1, <2>2, <1>0, <1>9 DEF Same
<1>18. PidsAreExact'
    <2>1. Reserving' = Reserving
        <3>1. ASSUME NEW u \in Threads
              PROVE  (Runs(u) /\ call[u].pc \in {"create", "attach"})
                        <=> (Runs(u)' /\ call'[u].pc \in {"create", "attach"})
            <4>1. CASE u = t BY <4>1, <1>0, <1>3, <1>5
            <4>2. CASE u = c BY <4>2, <1>1, <1>5, InUserType
            <4>3. CASE u # t /\ u # c
                <5>1. Sound(u, thr[u], call[u], OwnReaper(u)) BY ThreadFacts
                <5>2. call[u].pc \in {"create", "attach"} => thr[u].queued BY <5>1 DEF Sound, OffCpu
                <5>3. QED BY <4>3, <5>2, <1>5, <1>6 DEF Runs, Kept, Same
            <4>4. QED BY <4>1, <4>2, <4>3
        <3>2. QED BY <3>1 DEF Reserving
    <2>2. QED BY <2>1, <1>0, <1>9, PidsKept DEF CountInv, Counting, Same
<1>19. QED BY <1>8, <1>11, <1>12, <1>13, <1>14, <1>15, <1>16, <1>17, <1>18 DEF CountInv, Places, Counting

\* A thread moves and changes its own pid or group: the places of all threads.
LEMMA OwnPlaces ==
    ASSUME CountInv, NEW t \in Threads, NEW r \in ThreadRecord, NEW k \in CallRecord,
           thr' = [thr EXCEPT ![t] = r], call' = [call EXCEPT ![t] = k],
           r.live = thr[t].live, r.kids = thr[t].kids, r.kind = thr[t].kind,
           \A u \in Threads \ {t} : OwnReaper(u)' <=> OwnReaper(u), Sound(t, r, k, OwnReaper(t)'),
           call[t].pc \notin {"new", "dead", "destroyed"},
           k.pc \notin {"attach", "group", "start", "destroyed", "reap", "reaplocked", "lookup"},
           UNCHANGED grace
    PROVE  Places'
<1>f. thr \in [Threads -> ThreadRecord] /\ call \in [Threads -> CallRecord] BY ThreadFacts
<1>1. /\ thr'[t] = r /\ call'[t] = k
      /\ \A u \in Threads \ {t} : thr'[u] = thr[u] /\ call'[u] = call[u]
    BY <1>f
<1>2. ThreadsSound'
    <2> SUFFICES ASSUME NEW u \in Threads PROVE Sound(u, thr'[u], call'[u], OwnReaper(u)')
        BY DEF ThreadsSound
    <2>1. CASE u = t BY <2>1, <1>1
    <2>2. CASE u # t
        <3>1. Sound(u, thr[u], call[u], OwnReaper(u)) BY ThreadFacts
        <3>2. QED BY <2>2, <3>1, <1>1 DEF Sound
    <2>3. QED BY <2>1, <2>2
<1>3. ChildIsNew' /\ OneCreator'
    <2>1. {t} \in SUBSET Threads OBVIOUS
    <2>2. \A u \in Threads \ {t} : call'[u] = call[u] BY <1>1
    <2>3. \A u \in {t} : ~Creates(u)' BY <1>1 DEF Creates
    <2>4. \A d \in Threads : call[d].pc = "new" =>
            /\ call'[d].pc = "new" /\ thr'[d].pid = thr[d].pid /\ thr'[d].tg = thr[d].tg
            /\ thr'[d].kind = thr[d].kind /\ (thr[d].parent = None => thr'[d].parent = None)
        BY <1>1
    <2>5. QED BY <2>1, <2>2, <2>3, <2>4, ChildKept
<1>4. ZombieIsTaken'
    <2>1. \A u \in Threads : call'[u].pc \in {"reap", "reaplocked"} =>
             /\ call'[u] = call[u]
             /\ \A d \in thr[u].kids : call[d].pc = "dead" => d \in thr'[u].kids /\ call'[d].pc = "dead"
        <3> SUFFICES ASSUME NEW u \in Threads, call'[u].pc \in {"reap", "reaplocked"}
                     PROVE  /\ call'[u] = call[u]
                            /\ \A d \in thr[u].kids :
                                  call[d].pc = "dead" => d \in thr'[u].kids /\ call'[d].pc = "dead"
            OBVIOUS
        <3>1. u # t BY <1>1
        <3>2. thr[u].kids \in SUBSET Threads BY <1>f DEF ThreadRecord
        <3>3. QED BY <3>1, <3>2, <1>1
    <2>2. QED BY <2>1, TakenKept
<1>5. LookedUp'
    <2>1. \A u \in Threads : call'[u].pc = "lookup" => u # t /\ call'[u] = call[u] BY <1>1
    <2>2. \A p \in Threads : thr[p].live /\ thr[p].kind # "thread" =>
             /\ thr'[p].live /\ thr'[p].kind # "thread"
             /\ call'[p].pc = "destroyed" => call[p].pc = "destroyed"
        BY <1>1
    <2>3. QED BY <2>1, <2>2, LookedUpKept
<1>6. QED BY <1>2, <1>3, <1>4, <1>5 DEF Places

\* The families do not change with the pid of a childless thread.
LEMMA OwnFamilies ==
    ASSUME CountInv, NEW t \in Threads, NEW r \in ThreadRecord, thr' = [thr EXCEPT ![t] = r],
           r.live = thr[t].live, r.kids = thr[t].kids, r.kind = thr[t].kind, r.parent = thr[t].parent,
           r.pid = thr[t].pid \/ thr[t].kids = {}
    PROVE  Families'
<1>f. thr \in [Threads -> ThreadRecord] BY ThreadFacts
<1>1. thr'[t] = r /\ \A u \in Threads \ {t} : thr'[u] = thr[u] BY <1>f
<1>2. \A u \in Threads : /\ thr'[u].live = thr[u].live /\ thr'[u].kids = thr[u].kids
                         /\ thr'[u].kind = thr[u].kind /\ thr'[u].parent = thr[u].parent
                         /\ (thr'[u].pid = thr[u].pid \/ thr[u].kids = {})
                         /\ thr[u].kids \in SUBSET Threads /\ thr[u].parent \in Threads \cup {None}
    BY <1>1, <1>f DEF ThreadRecord
<1>3. KidsAgree' BY <1>2 DEF CountInv, Families, KidsAgree
<1>4. FamilyAgrees'
    <2> SUFFICES ASSUME NEW d \in Threads, thr'[d].live, thr'[d].kind # "thread"
                 PROVE  /\ \A u \in Threads : d \in thr'[u].kids <=> thr'[d].parent = u
                        /\ thr'[d].parent # None => thr'[thr'[d].parent].live /\ thr'[thr'[d].parent].pid # 0
        BY DEF FamilyAgrees
    <2>1. /\ \A u \in Threads : d \in thr[u].kids <=> thr[d].parent = u
          /\ thr[d].parent # None => thr[thr[d].parent].live /\ thr[thr[d].parent].pid # 0
        BY <1>2 DEF CountInv, Families, FamilyAgrees
    <2>2. thr[d].parent # None => thr[d].parent \in Threads /\ thr[thr[d].parent].kids # {} BY <1>2, <2>1
    <2>3. QED BY <1>2, <2>1, <2>2
<1>5. QED BY <1>3, <1>4 DEF Families

\* thread_group_remove.
LEMMA LeaveIs ==
    ASSUME CountInv, NEW g \in Groups, NEW t \in group[g].members, group' = Leave(g, t)
    PROVE  /\ group' \in [Groups -> GroupRecord]
           /\ \A h \in Groups \ {g} : group'[h] = group[h]
           /\ group'[g].members = group[g].members \ {t} /\ group'[g].used = group[g].used
           /\ group'[g].leader = group[g].leader /\ group'[g].ref = group[g].ref
           /\ group'[g].live = Cardinality(group'[g].members)
<1> DEFINE q == [group[g] EXCEPT !.live = group[g].live - 1, !.members = group[g].members \ {t}]
<1>f. group \in [Groups -> GroupRecord] /\ group[g] \in GroupRecord BY DEF CountInv, ProcTypeOK
<1>1. group' = [group EXCEPT ![g] = q] BY <1>f DEF Leave
<1>2. /\ q \in GroupRecord /\ q.members = group[g].members \ {t} /\ q.live = group[g].live - 1
      /\ q.used = group[g].used /\ q.leader = group[g].leader /\ q.ref = group[g].ref
    <2>1. group[g].live - 1 \in Int /\ group[g].members \ {t} \in SUBSET Threads BY <1>f DEF GroupRecord
    <2>2. q \in GroupRecord BY <1>f, <2>1 DEF GroupRecord
    <2>3. q.members = group[g].members \ {t} /\ q.live = group[g].live - 1 BY <1>f DEF GroupRecord
    <2>4. q.used = group[g].used BY <1>f DEF GroupRecord
    <2>5. q.leader = group[g].leader /\ q.ref = group[g].ref BY <1>f DEF GroupRecord
    <2>6. QED BY <2>2, <2>3, <2>4, <2>5
<1> HIDE DEF q
<1>3. group[g].members \in SUBSET Threads /\ t \in Threads BY <1>f DEF GroupRecord
<1>4. group[g].live = Cardinality(group[g].members) BY DEF CountInv, Counting, GroupsCount
<1>5. Cardinality(group[g].members \ {t}) = Cardinality(group[g].members) - 1 BY <1>3, Count
<1>6. QED BY <1>1, <1>2, <1>4, <1>5, <1>f

\* A thread leaves its group and goes on: groups, members and who reaps itself.
LEMMA LeaveGroup ==
    ASSUME CountInv, NEW t \in Threads, NEW r \in ThreadRecord, NEW k \in CallRecord,
           thr[t].tg \in Groups, thr[t].live, ~Left(call[t], OwnReaper(t)), Left(k, OwnReaper(t)),
           group' = Leave(thr[t].tg, t), thr' = [thr EXCEPT ![t] = r], call' = [call EXCEPT ![t] = k],
           r.live = thr[t].live, r.tg = thr[t].tg, r.kind = thr[t].kind
    PROVE  /\ group' \in [Groups -> GroupRecord] /\ GroupsCount' /\ UnusedGroups' /\ Members'
           /\ \A u \in Threads : OwnReaper(u)' <=> OwnReaper(u)
<1> DEFINE g == thr[t].tg
<1>f. thr \in [Threads -> ThreadRecord] /\ call \in [Threads -> CallRecord] BY ThreadFacts
<1>1. /\ thr'[t] = r /\ call'[t] = k
      /\ \A u \in Threads \ {t} : thr'[u] = thr[u] /\ call'[u] = call[u]
    BY <1>f
<1>2. t \in group[g].members BY DEF CountInv, Counting, Members
<1>3. /\ group' \in [Groups -> GroupRecord]
      /\ \A h \in Groups \ {g} : group'[h] = group[h]
      /\ group'[g].members = group[g].members \ {t} /\ group'[g].used = group[g].used
      /\ group'[g].leader = group[g].leader /\ group'[g].ref = group[g].ref
      /\ group'[g].live = Cardinality(group'[g].members)
    BY <1>2, LeaveIs
<1>4. \A u \in Threads : OwnReaper(u)' <=> OwnReaper(u)
    <2>1. \A h \in Groups : group'[h].leader = group[h].leader BY <1>3
    <2>2. \A u \in Threads : thr'[u].kind = thr[u].kind /\ thr'[u].tg = thr[u].tg BY <1>1
    <2>3. QED BY <2>1, <2>2, OwnReaperKept
<1>5. \A h \in Groups : Refs(h)' = Refs(h)
    <2>1. \A u \in Threads : thr'[u].live = thr[u].live /\ thr'[u].tg = thr[u].tg BY <1>1
    <2>2. QED BY <2>1 DEF Refs
<1>6. GroupsCount'
    <2>1. \A h \in Groups : /\ group'[h].used = group[h].used /\ group'[h].ref = group[h].ref
                            /\ group'[h].live = Cardinality(group'[h].members)
        BY <1>3 DEF CountInv, Counting, GroupsCount
    <2>2. QED BY <2>1, <1>5 DEF CountInv, Counting, GroupsCount
<1>7. UnusedGroups'
    <2>1. group[g].used
        <3>1. t \in Refs(g) BY DEF Refs
        <3>2. QED BY <3>1 DEF CountInv, Counting, GroupsCount
    <2>2. QED BY <2>1, <1>3 DEF CountInv, Counting, UnusedGroups
<1>8. Members'
    <2> SUFFICES ASSUME NEW h \in Groups, NEW u \in Threads
                 PROVE  u \in group'[h].members <=>
                            thr'[u].live /\ thr'[u].tg = h /\ ~Left(call'[u], OwnReaper(u)')
        BY DEF Members
    <2>1. u \in group[h].members <=> thr[u].live /\ thr[u].tg = h /\ ~Left(call[u], OwnReaper(u))
        BY DEF CountInv, Counting, Members
    <2>2. CASE u = t
        <3>1. Left(call'[t], OwnReaper(t)') BY <1>1, <1>4 DEF Left
        <3>2. t \notin group'[h].members
            <4>1. CASE h = g BY <4>1, <1>3
            <4>2. CASE h # g BY <4>2, <2>1, <2>2, <1>3
            <4>3. QED BY <4>1, <4>2
        <3>3. QED BY <2>2, <3>1, <3>2
    <2>3. CASE u # t
        <3>1. Left(call'[u], OwnReaper(u)') <=> Left(call[u], OwnReaper(u)) BY <2>3, <1>1, <1>4 DEF Left
        <3>2. u \in group'[h].members <=> u \in group[h].members BY <2>3, <1>3
        <3>3. QED BY <2>1, <2>3, <3>1, <3>2, <1>1
    <2>4. QED BY <2>2, <2>3
<1>9. QED BY <1>3, <1>4, <1>6, <1>7, <1>8

\* exit: the thread leaves its group.
LEMMA ExitLeaveKeeps ==
    ASSUME CountInv, NEW t \in Threads, ExitLeave(t)
    PROVE  CountInv'
<1>f. /\ thr[t] \in ThreadRecord /\ call[t] \in CallRecord /\ Sound(t, thr[t], call[t], OwnReaper(t))
      /\ thr \in [Threads -> ThreadRecord] /\ call \in [Threads -> CallRecord]
    BY ThreadFacts
<1>1. /\ thr[t].live /\ thr[t].queued /\ call[t].pc = "leave" /\ thr' = [thr EXCEPT ![t] = thr[t]]
      /\ UNCHANGED <<thr, nextpid, allocated_cnt, readers, grace>>
    BY <1>f DEF ExitLeave, At, Runs
<1> DEFINE l == IF thr[t].tg = None THEN TRUE ELSE group[thr[t].tg].live <= 1
           k == [call[t] EXCEPT !.pc = "reparent", !.last = l]
<1>2. call' = [call EXCEPT ![t] = k] BY <1>f DEF ExitLeave
<1>3. k \in CallRecord /\ k.pc = "reparent"
    <2>1. l \in BOOLEAN
        <3>1. CASE thr[t].tg = None BY <3>1
        <3>2. CASE thr[t].tg # None BY <3>2
        <3>3. QED BY <3>1, <3>2
    <2> HIDE DEF l
    <2>2. QED BY <2>1, <1>f DEF CallRecord, Pcs
<1> HIDE DEF k
<1>4. Sound(t, thr[t], k, OwnReaper(t)) BY <1>f, <1>1, <1>3 DEF Sound, Same, OffCpu, PidIsBack, OwnWay, ZombieWay, Childless, Exiting
<1>5. ~OwnReaper(t) BY <1>f, <1>1 DEF Sound, ZombieWay
<1>6. Left(k, OwnReaper(t)) /\ ~Left(call[t], OwnReaper(t)) BY <1>1, <1>3, <1>5 DEF Left
<1>7. /\ group' \in [Groups -> GroupRecord] /\ GroupsCount' /\ UnusedGroups' /\ Members'
      /\ \A u \in Threads : OwnReaper(u)' <=> OwnReaper(u)
    <2>1. CASE thr[t].tg = None
        <3>1. UNCHANGED group BY <2>1 DEF ExitLeave
        <3>2. call'[t] = k /\ \A u \in Threads \ {t} : call'[u] = call[u] BY <1>2, <1>f
        <3>3. \A u \in Threads : OwnReaper(u)' <=> OwnReaper(u) BY <1>1, <3>1, OwnReaperKept
        <3>4. GroupsCount' /\ UnusedGroups' BY <1>1, <3>1, GroupsSame, KeptRefl, GroupsKept DEF CountInv, Counting
        <3>5. Members'
            <4> SUFFICES ASSUME NEW h \in Groups, NEW u \in Threads
                         PROVE  u \in group'[h].members <=>
                                    thr'[u].live /\ thr'[u].tg = h /\ ~Left(call'[u], OwnReaper(u)')
                BY DEF Members
            <4>1. u \in group[h].members <=> thr[u].live /\ thr[u].tg = h /\ ~Left(call[u], OwnReaper(u))
                BY DEF CountInv, Counting, Members
            <4>2. CASE u = t BY <4>1, <4>2, <1>1, <2>1, <3>1, Consts
            <4>3. CASE u # t
                <5>1. Left(call'[u], OwnReaper(u)') <=> Left(call[u], OwnReaper(u))
                    BY <4>3, <3>2, <3>3 DEF Left
                <5>2. QED BY <4>1, <5>1, <1>1, <3>1
            <4>4. QED BY <4>2, <4>3
        <3>6. group' \in [Groups -> GroupRecord] BY <3>1 DEF CountInv, ProcTypeOK
        <3>7. QED BY <3>3, <3>4, <3>5, <3>6
    <2>2. CASE thr[t].tg # None
        <3>1. thr[t].tg \in Groups /\ group' = Leave(thr[t].tg, t)
            BY <2>2, <1>f DEF ExitLeave, ThreadRecord
        <3>2. QED BY <3>1, <1>f, <1>1, <1>2, <1>3, <1>6, LeaveGroup
    <2>3. QED BY <2>1, <2>2
<1>8. ProcTypeOK' BY <1>1, <1>2, <1>3, <1>7, <1>f DEF CountInv, ProcTypeOK
<1>9. Places'
    <2>1. Sound(t, thr[t], k, OwnReaper(t)') BY <1>4, <1>7 DEF Sound
    <2>2. QED BY <2>1, <1>f, <1>1, <1>2, <1>3, <1>7, OwnPlaces
<1>10. Families' BY <1>f, <1>1, OwnFamilies
<1>11. PidsAreExact'
    <2>1. call'[t] = k /\ \A u \in Threads \ {t} : call'[u] = call[u] BY <1>2, <1>f
    <2>2. Reserving' = Reserving BY <1>1, <1>3, <2>1 DEF Reserving, Runs
    <2>3. QED BY <1>1, <2>2, PidsKept DEF CountInv, Counting
<1>12. QED BY <1>7, <1>8, <1>9, <1>10, <1>11 DEF CountInv, Counting

\* A registered thread gives its pid back.
LEMMA PidsLeave ==
    ASSUME CountInv, NEW c \in Registered, Registered' = Registered \ {c},
           \A u \in Registered \ {c} : thr'[u].pid = thr[u].pid,
           Reserving' = Reserving, allocated_cnt' = allocated_cnt - 1
    PROVE  PidsAreExact'
<1>1. /\ \A a, b \in Registered : a # b => thr[a].pid # thr[b].pid
      /\ allocated_cnt = Cardinality(Registered) + Cardinality(Reserving)
    BY DEF CountInv, Counting, PidsAreExact, Reserving
<1>r. Registered \in SUBSET Threads /\ Reserving \in SUBSET Threads /\ c \in Threads BY DEF Registered, Reserving
<1>2. Cardinality(Registered') = Cardinality(Registered) - 1 /\ Cardinality(Registered) \in Nat
    BY <1>r, Count
<1>3. Cardinality(Reserving) \in Nat BY <1>r, Count
<1>4. allocated_cnt' = Cardinality(Registered') + Cardinality(Reserving') BY <1>1, <1>2, <1>3
<1>5. \A a, b \in Registered' : a # b => thr'[a].pid # thr'[b].pid BY <1>1
<1>6. QED BY <1>4, <1>5 DEF PidsAreExact, Reserving

\* A thread that is not the leader leaves its group and the table.
LEMMA ExitRemoveKeeps ==
    ASSUME CountInv, NEW t \in Threads, ExitRemove(t)
    PROVE  CountInv'
<1>f. /\ thr[t] \in ThreadRecord /\ call[t] \in CallRecord /\ Sound(t, thr[t], call[t], OwnReaper(t))
      /\ thr \in [Threads -> ThreadRecord] /\ call \in [Threads -> CallRecord]
    BY ThreadFacts
<1> DEFINE r == [thr[t] EXCEPT !.pid = 0]
           x == IF group[thr[t].tg].live <= 1 THEN "lastout" ELSE "release"
<1>1. /\ thr[t].live /\ thr[t].queued /\ call[t].pc = "remove" /\ thr' = [thr EXCEPT ![t] = r]
      /\ group' = Leave(thr[t].tg, t) /\ allocated_cnt' = allocated_cnt - 1 /\ Then(t, x)
      /\ UNCHANGED <<nextpid, readers, grace>>
    BY <1>f DEF ExitRemove, At, Runs, FreePid
<1>2. x \in {"lastout", "release"} OBVIOUS
<1> HIDE DEF x
<1>3. PICK k \in CallRecord : call' = [call EXCEPT ![t] = k] /\ k.pc = x
    <2>1. x \in Pcs BY <1>2 DEF Pcs
    <2>2. QED BY <2>1, <1>f, <1>1, ThenIs
<1>4. /\ r \in ThreadRecord /\ r.pid = 0 /\ r.live = thr[t].live /\ r.kids = thr[t].kids
      /\ r.kind = thr[t].kind /\ r.tg = thr[t].tg /\ r.parent = thr[t].parent
      /\ r.state = thr[t].state /\ r.queued = thr[t].queued
    <2>1. 0 \in 0 .. MAXPID - 1 BY Consts
    <2>2. r \in ThreadRecord BY <2>1, <1>f DEF ThreadRecord
    <2>3. /\ r.pid = 0 /\ r.kids = thr[t].kids
          /\ r.kind = thr[t].kind /\ r.tg = thr[t].tg /\ r.parent = thr[t].parent
          /\ r.state = thr[t].state
        BY <1>f DEF ThreadRecord
    <2>4. r.live = thr[t].live /\ r.queued = thr[t].queued BY <1>f DEF ThreadRecord
    <2>5. QED BY <2>2, <2>3, <2>4
<1> HIDE DEF r
<1>5. /\ OwnReaper(t) /\ thr[t].kids = {} /\ thr[t].pid # 0
    BY <1>f, <1>1 DEF Sound, OwnWay, Childless, PidIsBack
<1>6. Sound(t, r, k, OwnReaper(t))
    BY <1>f, <1>1, <1>2, <1>3, <1>4, <1>5 DEF Sound, OffCpu, PidIsBack, OwnWay, ZombieWay, Childless, Exiting
<1>7. thr[t].tg \in Groups /\ Left(k, OwnReaper(t)) /\ ~Left(call[t], OwnReaper(t))
    BY <1>1, <1>2, <1>3, <1>5 DEF Left, OwnReaper
<1>8. /\ group' \in [Groups -> GroupRecord] /\ GroupsCount' /\ UnusedGroups' /\ Members'
      /\ \A u \in Threads : OwnReaper(u)' <=> OwnReaper(u)
    BY <1>1, <1>3, <1>4, <1>7, LeaveGroup
<1>9. ProcTypeOK'
    <2>1. allocated_cnt' \in Int /\ allocated_cnt' <= NR_THREAD BY <1>1, Consts DEF CountInv, ProcTypeOK
    <2>2. QED BY <2>1, <1>1, <1>3, <1>4, <1>8, <1>f DEF CountInv, ProcTypeOK
<1>10. Places'
    <2>1. Sound(t, r, k, OwnReaper(t)') BY <1>6, <1>8 DEF Sound
    <2>2. QED BY <2>1, <1>1, <1>2, <1>3, <1>4, <1>8, OwnPlaces
<1>11. Families' BY <1>1, <1>4, <1>5, OwnFamilies
<1>12. PidsAreExact'
    <2>1. /\ call'[t] = k /\ \A u \in Threads \ {t} : call'[u] = call[u] /\ thr'[u] = thr[u]
          /\ thr'[t] = r
        BY <1>1, <1>3, <1>f
    <2>2. Reserving' = Reserving BY <1>1, <1>2, <1>3, <2>1 DEF Reserving, Runs
    <2>3. t \in Registered /\ Registered' = Registered \ {t} BY <1>1, <1>4, <1>5, <2>1 DEF Registered
    <2>4. \A u \in Registered \ {t} : thr'[u].pid = thr[u].pid BY <2>1 DEF Registered
    <2>5. QED BY <1>1, <2>2, <2>3, <2>4, PidsLeave
<1>13. QED BY <1>8, <1>9, <1>10, <1>11, <1>12 DEF CountInv, Counting

\* thread_group_put of a thread that has left its group.
LEMMA PutGroup ==
    ASSUME CountInv, NEW c \in Threads, thr[c].live, Left(call[c], OwnReaper(c)),
           group' = GroupPut(group, thr[c].tg), thr'[c].tg = None,
           \A u \in Threads \ {c} : /\ thr'[u].live = thr[u].live /\ thr'[u].tg = thr[u].tg
                                    /\ thr'[u].kind = thr[u].kind,
           \A u \in Threads \ {c} : Left(call'[u], OwnReaper(u)) <=> Left(call[u], OwnReaper(u))
    PROVE  /\ group' \in [Groups -> GroupRecord] /\ GroupsCount' /\ UnusedGroups' /\ Members'
           /\ \A u \in Threads \ {c} : OwnReaper(u)' <=> OwnReaper(u)
           /\ ~OwnReaper(c)'
<1>f. /\ group \in [Groups -> GroupRecord] /\ thr[c] \in ThreadRecord
      /\ thr \in [Threads -> ThreadRecord]
    BY ThreadFacts
<1>n. None \notin Groups BY Consts
<1> DEFINE g == thr[c].tg
<1>g. g \in Groups \cup {None} BY <1>f DEF ThreadRecord
<1>1. \A h \in Groups : Refs(h)' = Refs(h) \ {c}
    <2> SUFFICES ASSUME NEW h \in Groups, NEW u \in Threads
                 PROVE  (thr'[u].live /\ thr'[u].tg = h) <=> (thr[u].live /\ thr[u].tg = h /\ u # c)
        BY DEF Refs
    <2>1. CASE u = c BY <2>1, <1>n
    <2>2. CASE u # c BY <2>2
    <2>3. QED BY <2>1, <2>2
<1>2. \A h \in Groups : c \in Refs(h) <=> h = g BY <1>g DEF Refs
<1>3. \A h \in Groups : group[h].members \subseteq Refs(h) \ {c}
    <2> SUFFICES ASSUME NEW h \in Groups, NEW u \in group[h].members
                 PROVE  u \in Refs(h) \ {c}
        OBVIOUS
    <2>1. u \in Threads BY <1>f DEF GroupRecord
    <2>2. thr[u].live /\ thr[u].tg = h /\ ~Left(call[u], OwnReaper(u)) BY <2>1 DEF CountInv, Counting, Members
    <2>3. QED BY <2>1, <2>2 DEF Refs
<1>4. \A h \in Groups : h # g => group'[h] = group[h] BY <1>f, <1>g DEF GroupPut
<1>5. ASSUME g \in Groups
      PROVE  \/ group[g].ref = 1 /\ group'[g] = FreeGroup
             \/ /\ group[g].ref # 1 /\ group'[g] \in GroupRecord /\ group'[g].used = group[g].used
                /\ group'[g].leader = group[g].leader /\ group'[g].members = group[g].members
                /\ group'[g].live = group[g].live /\ group'[g].ref = group[g].ref - 1
    <2>0. g # None /\ group[g] \in GroupRecord BY <1>5, <1>n, <1>f
    <2>1. CASE group[g].ref = 1 BY <1>5, <1>f, <2>0, <2>1 DEF GroupPut
    <2>2. CASE group[g].ref # 1
        <3> DEFINE q == [group[g] EXCEPT !.ref = group[g].ref - 1]
        <3>0. group' = [group EXCEPT ![g] = IF group[g].ref = 1 THEN FreeGroup ELSE q] BY <1>5, <2>0, <1>f DEF GroupPut
        <3>1. group' = [group EXCEPT ![g] = q] BY <2>2, <3>0
        <3>2. group[g].ref - 1 \in Int BY <2>0 DEF GroupRecord
        <3>3. q \in GroupRecord BY <2>0, <3>2 DEF GroupRecord
        <3>4. q.ref = group[g].ref - 1 /\ q.leader = group[g].leader /\ q.members = group[g].members
              /\ q.live = group[g].live
            BY <2>0 DEF GroupRecord
        <3>5. q.used = group[g].used BY <2>0 DEF GroupRecord
        <3> HIDE DEF q
        <3>6. QED BY <1>5, <1>f, <2>2, <3>1, <3>3, <3>4, <3>5
    <2>3. QED BY <2>1, <2>2
<1>6. ASSUME g \in Groups
      PROVE  /\ group[g].used /\ group[g].ref = Cardinality(Refs(g)) /\ Refs(g) \in SUBSET Threads
             /\ Cardinality(Refs(g) \ {c}) = group[g].ref - 1
             /\ (group[g].ref = 1 <=> Refs(g) \ {c} = {})
    <2>1. c \in Refs(g) BY <1>2, <1>6
    <2>2. group[g].used /\ group[g].ref = Cardinality(Refs(g)) BY <2>1, <1>6 DEF CountInv, Counting, GroupsCount
    <2>3. Refs(g) \in SUBSET Threads BY DEF Refs
    <2>4. Cardinality(Refs(g) \ {c}) = Cardinality(Refs(g)) - 1 /\ Cardinality(Refs(g)) \in Nat BY <2>1, <2>3, Count
    <2>5. Refs(g) \ {c} \in SUBSET Threads BY <2>3
    <2>6. Cardinality(Refs(g) \ {c}) = 0 <=> Refs(g) \ {c} = {} BY <2>5, Count
    <2>7. QED BY <2>2, <2>3, <2>4, <2>6
<1>F. /\ FreeGroup \in GroupRecord /\ FreeGroup.used = FALSE /\ FreeGroup.members = {}
      /\ FreeGroup.live = 0
    BY DEF FreeGroup, GroupRecord
<1>7. \A h \in Groups : group'[h] \in GroupRecord BY <1>4, <1>5, <1>f, <1>F
<1>8. group' \in [Groups -> GroupRecord]
    <2>1. group' = [h \in Groups |-> group'[h]]
        BY <1>f, <1>g DEF GroupPut
    <2>2. QED BY <2>1, <1>7
<1>c. Cardinality({}) = 0 BY FS_EmptySet
<1>9. GroupsCount'
    <2> SUFFICES ASSUME NEW h \in Groups
                 PROVE  /\ group'[h].used <=> Refs(h)' # {}
                        /\ group'[h].used => group'[h].ref = Cardinality(Refs(h)')
                        /\ group'[h].live = Cardinality(group'[h].members)
        BY DEF GroupsCount
    <2>o. /\ group[h].used <=> Refs(h) # {}
          /\ group[h].used => group[h].ref = Cardinality(Refs(h))
          /\ group[h].live = Cardinality(group[h].members)
        BY DEF CountInv, Counting, GroupsCount
    <2>1. CASE h # g
        <3>1. Refs(h)' = Refs(h) BY <1>1, <1>2, <2>1
        <3>2. QED BY <2>1, <2>o, <3>1, <1>4
    <2>2. CASE h = g /\ group[g].ref = 1
        <3>1. group'[h] = FreeGroup BY <2>2, <1>5
        <3>2. Refs(h)' = {} BY <2>2, <1>1, <1>6
        <3>3. QED BY <3>1, <3>2, <1>F, <1>c
    <2>3. CASE h = g /\ group[g].ref # 1
        <3>1. /\ group'[h].used = group[h].used /\ group'[h].members = group[h].members
              /\ group'[h].live = group[h].live /\ group'[h].ref = group[h].ref - 1
            BY <2>3, <1>5
        <3>2. Refs(h)' = Refs(h) \ {c} BY <1>1
        <3>3. group[h].used /\ Refs(h) \ {c} # {} /\ Cardinality(Refs(h) \ {c}) = group[h].ref - 1
            BY <2>3, <1>6
        <3>4. QED BY <2>o, <3>1, <3>2, <3>3
    <2>4. QED BY <2>1, <2>2, <2>3
<1>10. UnusedGroups'
    <2> SUFFICES ASSUME NEW h \in Groups
                 PROVE  /\ ~group'[h].used => group'[h] = FreeGroup
                        /\ group'[h].used => group'[h].leader \in Threads
        BY DEF UnusedGroups
    <2>o. (~group[h].used => group[h] = FreeGroup) /\ (group[h].used => group[h].leader \in Threads)
        BY DEF CountInv, Counting, UnusedGroups
    <2>1. CASE h # g BY <2>1, <2>o, <1>4
    <2>2. CASE h = g BY <2>2, <2>o, <1>5, <1>6, <1>F
    <2>3. QED BY <2>1, <2>2
<1>11. \A u \in Threads \ {c} : OwnReaper(u)' <=> OwnReaper(u)
    <2> SUFFICES ASSUME NEW u \in Threads \ {c} PROVE OwnReaper(u)' <=> OwnReaper(u)
        OBVIOUS
    <2>1. ASSUME thr[u].tg \in Groups PROVE group'[thr[u].tg].leader = group[thr[u].tg].leader
        <3>1. u \in Refs(thr[u].tg)
            <4>1. thr[u].live
                <5>1. Sound(u, thr[u], call[u], OwnReaper(u)) BY ThreadFacts
                <5>2. QED BY <5>1, <2>1, <1>n, FreeThreadIs DEF Sound
            <4>2. QED BY <4>1 DEF Refs
        <3>2. CASE thr[u].tg # g BY <3>2, <2>1, <1>4
        <3>3. CASE thr[u].tg = g BY <3>1, <3>3, <2>1, <1>5, <1>6
        <3>4. QED BY <3>2, <3>3
    <2>2. QED BY <2>1 DEF OwnReaper
<1>12. ~OwnReaper(c)' BY <1>n DEF OwnReaper
<1>13. Members'
    <2> SUFFICES ASSUME NEW h \in Groups, NEW u \in Threads
                 PROVE  u \in group'[h].members <=>
                            thr'[u].live /\ thr'[u].tg = h /\ ~Left(call'[u], OwnReaper(u)')
        BY DEF Members
    <2>1. u \in group[h].members <=> thr[u].live /\ thr[u].tg = h /\ ~Left(call[u], OwnReaper(u))
        BY DEF CountInv, Counting, Members
    <2>2. group'[h].members = group[h].members
        <3>1. CASE h # g BY <3>1, <1>4
        <3>2. CASE h = g /\ group[g].ref = 1 BY <3>2, <1>3, <1>5, <1>6, <1>F
        <3>3. CASE h = g /\ group[g].ref # 1 BY <3>3, <1>5
        <3>4. QED BY <3>1, <3>2, <3>3
    <2>3. CASE u = c BY <2>1, <2>2, <2>3, <1>n
    <2>4. CASE u # c
        <3>1. Left(call'[u], OwnReaper(u)') <=> Left(call[u], OwnReaper(u)) BY <2>4, <1>11 DEF Left
        <3>2. QED BY <2>1, <2>2, <2>4, <3>1
    <2>5. QED BY <2>3, <2>4
<1>14. QED BY <1>8, <1>9, <1>10, <1>11, <1>12, <1>13

\* The thread that reaps itself gives its group back.
LEMMA ExitReleaseKeeps ==
    ASSUME CountInv, NEW t \in Threads, ExitRelease(t)
    PROVE  CountInv'
<1>f. /\ thr[t] \in ThreadRecord /\ call[t] \in CallRecord /\ Sound(t, thr[t], call[t], OwnReaper(t))
      /\ thr \in [Threads -> ThreadRecord] /\ call \in [Threads -> CallRecord]
    BY ThreadFacts
<1> DEFINE r == [thr[t] EXCEPT !.tg = None, !.state = "ZOMBIE"]
<1>1. /\ thr[t].live /\ thr[t].queued /\ call[t].pc = "release" /\ thr' = [thr EXCEPT ![t] = r]
      /\ group' = GroupPut(group, thr[t].tg) /\ Then(t, "selfreap")
      /\ UNCHANGED <<nextpid, allocated_cnt, readers, grace>>
    BY <1>f DEF ExitRelease, At, Runs
<1>2. PICK k \in CallRecord : call' = [call EXCEPT ![t] = k] /\ k.pc = "selfreap"
    BY <1>f, <1>1, ThenIs DEF Pcs
<1>3. /\ r \in ThreadRecord /\ r.pid = thr[t].pid /\ r.live = thr[t].live /\ r.kids = thr[t].kids
      /\ r.kind = thr[t].kind /\ r.tg = None /\ r.parent = thr[t].parent
      /\ r.state = "ZOMBIE" /\ r.queued = thr[t].queued
    <2>2. r \in ThreadRecord BY <1>f DEF ThreadRecord, States
    <2>3. /\ r.pid = thr[t].pid /\ r.kids = thr[t].kids
          /\ r.kind = thr[t].kind /\ r.tg = None /\ r.parent = thr[t].parent
          /\ r.state = "ZOMBIE"
        BY <1>f DEF ThreadRecord
    <2>4. r.live = thr[t].live /\ r.queued = thr[t].queued BY <1>f DEF ThreadRecord
    <2>5. QED BY <2>2, <2>3, <2>4
<1> HIDE DEF r
<1>4. OwnReaper(t) /\ thr[t].pid = 0 /\ thr[t].kind = "thread" /\ thr[t].kids = {}
    BY <1>f, <1>1 DEF Sound, OwnWay, PidIsBack, OwnReaper, Childless
<1>5. Sound(t, r, k, FALSE)
    BY <1>f, <1>1, <1>2, <1>3, <1>4 DEF Sound, OffCpu, PidIsBack, OwnWay, ZombieWay, Childless, Exiting
<1>6. /\ call'[t] = k /\ thr'[t] = r
      /\ \A u \in Threads \ {t} : call'[u] = call[u] /\ thr'[u] = thr[u]
    BY <1>1, <1>2, <1>f
<1>7. /\ group' \in [Groups -> GroupRecord] /\ GroupsCount' /\ UnusedGroups' /\ Members'
      /\ \A u \in Threads \ {t} : OwnReaper(u)' <=> OwnReaper(u)
      /\ ~OwnReaper(t)'
    <2>1. Left(call[t], OwnReaper(t)) BY <1>1 DEF Left
    <2>2. QED BY <2>1, <1>1, <1>3, <1>6, PutGroup
<1>8. ProcTypeOK' BY <1>1, <1>2, <1>3, <1>7, <1>f DEF CountInv, ProcTypeOK
<1>9. Places'
    <2>1. Sound(t, r, k, OwnReaper(t)') BY <1>5, <1>7 DEF Sound
    <2>2. QED BY <2>1, <1>1, <1>2, <1>3, <1>7, OwnPlaces
<1>10. Families' BY <1>1, <1>3, OwnFamilies
<1>11. PidsAreExact'
    <2>1. Reserving' = Reserving BY <1>1, <1>2, <1>6 DEF Reserving, Runs
    <2>2. Registered' = Registered BY <1>3, <1>4, <1>6 DEF Registered
    <2>3. \A u \in Registered : thr'[u].pid = thr[u].pid BY <1>3, <1>6 DEF Registered
    <2>4. QED BY <1>1, <2>1, <2>2, <2>3, PidsSame
<1>12. QED BY <1>7, <1>8, <1>9, <1>10, <1>11 DEF CountInv, Counting

\* Groups do not change when every thread stays in its group.
LEMMA GroupsStay ==
    ASSUME CountInv, UNCHANGED group,
           \A u \in Threads : /\ thr'[u].live = thr[u].live /\ thr'[u].tg = thr[u].tg
                              /\ thr'[u].kind = thr[u].kind,
           \A u \in Threads : Left(call'[u], OwnReaper(u)) <=> Left(call[u], OwnReaper(u))
    PROVE  /\ GroupsCount' /\ UnusedGroups' /\ Members'
           /\ \A u \in Threads : OwnReaper(u)' <=> OwnReaper(u)
<1>1. \A g \in Groups : Refs(g)' = Refs(g) BY DEF Refs
<1>2. GroupsCount' BY <1>1 DEF CountInv, Counting, GroupsCount
<1>3. UnusedGroups' BY DEF CountInv, Counting, UnusedGroups
<1>4. \A u \in Threads : OwnReaper(u)' <=> OwnReaper(u) BY OwnReaperKept
<1>5. Members'
    <2> SUFFICES ASSUME NEW h \in Groups, NEW u \in Threads
                 PROVE  u \in group'[h].members <=>
                            thr'[u].live /\ thr'[u].tg = h /\ ~Left(call'[u], OwnReaper(u)')
        BY DEF Members
    <2>1. u \in group[h].members <=> thr[u].live /\ thr[u].tg = h /\ ~Left(call[u], OwnReaper(u))
        BY DEF CountInv, Counting, Members
    <2>2. Left(call'[u], OwnReaper(u)') <=> Left(call[u], OwnReaper(u)) BY <1>4 DEF Left
    <2>3. QED BY <2>1, <2>2
<1>6. QED BY <1>2, <1>3, <1>4, <1>5

\* The children of an exiting thread go to init.
LEMMA ExitReparentKeeps ==
    ASSUME CountInv, NEW t \in Threads, ExitReparent(t)
    PROVE  CountInv'
<1>f. /\ thr[t] \in ThreadRecord /\ call[t] \in CallRecord /\ Sound(t, thr[t], call[t], OwnReaper(t))
      /\ thr \in [Threads -> ThreadRecord] /\ call \in [Threads -> CallRecord]
    BY ThreadFacts
<1> DEFINE K == thr[t].kids
           z == \E c \in K : thr[c].state = "ZOMBIE"
           next == IF SelfReaps(t) THEN "remove" ELSE "zombie"
           k == [call[t] EXCEPT !.pc = IF z THEN "wakeinit" ELSE next, !.kind = IF z THEN next ELSE None]
<1>1. /\ thr[t].live /\ thr[t].queued /\ call[t].pc = "reparent"
      /\ thr' = [c \in Threads |-> IF c = t THEN [thr[t] EXCEPT !.kids = {}]
                                 ELSE IF c = initproc THEN [thr[c] EXCEPT !.kids = @ \cup K]
                                 ELSE IF c \in K THEN [thr[c] EXCEPT !.parent = initproc]
                                 ELSE thr[c]]
      /\ call' = [call EXCEPT ![t] = k]
      /\ UNCHANGED <<group, nextpid, allocated_cnt, readers, grace>>
    BY <1>f DEF ExitReparent, Reparent, At, Runs
<1>2. SelfReaps(t) <=> OwnReaper(t) BY <1>1, SelfReapsIs
<1>3. next \in {"remove", "zombie"} /\ (next = "remove" <=> OwnReaper(t)) BY <1>2
<1> HIDE DEF next, z
<1>4. /\ k \in CallRecord
      /\ \/ k.pc = "wakeinit" /\ k.kind = next
         \/ k.pc = next
    <2>1. CASE z BY <2>1, <1>f, <1>3 DEF CallRecord, Pcs, CallKindSet
    <2>2. CASE ~z BY <2>2, <1>f, <1>3 DEF CallRecord, Pcs, CallKindSet
    <2>3. QED BY <2>1, <2>2
<1> HIDE DEF k
<1>5. /\ call'[t] = k /\ \A u \in Threads \ {t} : call'[u] = call[u] BY <1>1, <1>f
<1>i. initproc \in Threads /\ t # initproc /\ None \notin Threads /\ initproc # None
    BY <1>f, <1>1, Consts DEF Sound, Exiting
<1>k. /\ K \in SUBSET Threads /\ t \notin K
      /\ \A c \in K : thr[c].live /\ thr[c].kind # "thread" /\ thr[c].parent = t
    BY <1>f DEF Sound, ThreadRecord, CountInv, Families, KidsAgree
<1>6. initproc \notin K /\ thr[initproc].live /\ thr[initproc].pid = 1 /\ thr[initproc].parent = None
      /\ call[initproc].pc \notin Exiting \cup {"new", "destroyed"}
    <2>1. Sound(initproc, thr[initproc], call[initproc], OwnReaper(initproc)) BY <1>i, ThreadFacts
    <2>2. QED BY <2>1, <1>i, <1>k DEF Sound
<1> HIDE DEF K
<1>7. \A u \in Threads :
        /\ thr'[u] \in ThreadRecord /\ thr[u] \in ThreadRecord
        /\ thr'[u].state = thr[u].state
        /\ thr'[u].pid = thr[u].pid /\ thr'[u].tg = thr[u].tg /\ thr'[u].kind = thr[u].kind
        /\ thr'[u].kids = (IF u = t THEN {} ELSE IF u = initproc THEN thr[u].kids \cup K ELSE thr[u].kids)
        /\ thr'[u].parent = (IF u \in K THEN initproc ELSE thr[u].parent)
    <2> SUFFICES ASSUME NEW u \in Threads
                 PROVE
        /\ thr'[u] \in ThreadRecord /\ thr[u] \in ThreadRecord
        /\ thr'[u].state = thr[u].state
        /\ thr'[u].pid = thr[u].pid /\ thr'[u].tg = thr[u].tg /\ thr'[u].kind = thr[u].kind
        /\ thr'[u].kids = (IF u = t THEN {} ELSE IF u = initproc THEN thr[u].kids \cup K ELSE thr[u].kids)
        /\ thr'[u].parent = (IF u \in K THEN initproc ELSE thr[u].parent)
        OBVIOUS
    <2>0. thr[u] \in ThreadRecord BY <1>f
    <2>1. CASE u = t
        <3>1. thr'[u] = [thr[u] EXCEPT !.kids = {}] BY <2>1, <1>1
        <3>2. QED BY <2>0, <2>1, <3>1, <1>k DEF ThreadRecord
    <2>2. CASE u # t /\ u = initproc
        <3>1. thr'[u] = [thr[u] EXCEPT !.kids = thr[u].kids \cup K] BY <2>2, <1>1
        <3>2. thr[u].kids \cup K \in SUBSET Threads BY <2>0, <1>k DEF ThreadRecord
        <3>3. QED BY <2>0, <2>2, <3>1, <3>2, <1>6 DEF ThreadRecord
    <2>3. CASE u # t /\ u # initproc /\ u \in K
        <3>1. thr'[u] = [thr[u] EXCEPT !.parent = initproc] BY <2>3, <1>1
        <3>2. QED BY <2>0, <2>3, <3>1, <1>i DEF ThreadRecord
    <2>4. CASE u # t /\ u # initproc /\ u \notin K
        <3>1. thr'[u] = thr[u] BY <2>4, <1>1
        <3>2. QED BY <2>0, <2>4, <3>1
    <2>5. QED BY <2>1, <2>2, <2>3, <2>4
<1>8. \A u \in Threads :
        /\ thr'[u].live = thr[u].live /\ thr'[u].queued = thr[u].queued
        /\ (~thr[u].live => thr'[u] = thr[u])
    <2> SUFFICES ASSUME NEW u \in Threads
                 PROVE  /\ thr'[u].live = thr[u].live /\ thr'[u].queued = thr[u].queued
                        /\ (~thr[u].live => thr'[u] = thr[u])
        OBVIOUS
    <2>0. thr[u] \in ThreadRecord BY <1>f
    <2>1. CASE u = t BY <2>0, <2>1, <1>1 DEF ThreadRecord
    <2>2. CASE u # t /\ u = initproc BY <2>0, <2>2, <1>1, <1>6 DEF ThreadRecord
    <2>3. CASE u # t /\ u # initproc /\ u \in K BY <2>0, <2>3, <1>1, <1>k DEF ThreadRecord
    <2>4. CASE u # t /\ u # initproc /\ u \notin K BY <2>4, <1>1
    <2>5. QED BY <2>1, <2>2, <2>3, <2>4
<1>9. ProcTypeOK'
    <2>1. thr' \in [Threads -> ThreadRecord]
        <3>1. thr' = [c \in Threads |-> thr'[c]] BY <1>1
        <3>2. QED BY <3>1, <1>7
    <2>2. QED BY <2>1, <1>1, <1>4, <1>f DEF CountInv, ProcTypeOK
<1>10. /\ GroupsCount' /\ UnusedGroups' /\ Members'
       /\ \A u \in Threads : OwnReaper(u)' <=> OwnReaper(u)
    <2>1. Left(k, OwnReaper(t)) <=> Left(call[t], OwnReaper(t)) BY <1>1, <1>3, <1>4 DEF Left
    <2>2. \A u \in Threads : Left(call'[u], OwnReaper(u)) <=> Left(call[u], OwnReaper(u)) BY <2>1, <1>5
    <2>3. QED BY <2>2, <1>1, <1>7, <1>8, GroupsStay
<1>11. ThreadsSound'
    <2> SUFFICES ASSUME NEW u \in Threads PROVE Sound(u, thr'[u], call'[u], OwnReaper(u)')
        BY DEF ThreadsSound
    <2>0. Sound(u, thr[u], call[u], OwnReaper(u)) BY ThreadFacts
    <2>1. CASE u = t
        <3>a. /\ thr'[t].state = thr[t].state /\ thr'[t].pid = thr[t].pid /\ thr'[t].tg = thr[t].tg
              /\ thr'[t].kind = thr[t].kind /\ thr'[t].kids = {} /\ thr'[t].live = thr[t].live
              /\ thr'[t].queued = thr[t].queued
            BY <1>7, <1>8
        <3>b. thr[t].live /\ thr[t].queued /\ call[t].pc = "reparent" BY <1>1
        <3>1. Sound(t, thr'[t], k, OwnReaper(t))
            BY <1>f, <3>a, <3>b, <1>3, <1>4, <1>i DEF Sound, OffCpu, PidIsBack, OwnWay, ZombieWay, Childless, Exiting
        <3>2. QED BY <2>1, <3>1, <1>5, <1>10 DEF Sound
    <2>2. CASE u # t
        <3>0. call'[u] = call[u] BY <2>2, <1>5
        <3>1. /\ call[u].pc \in Childless => thr'[u].kids = {}
              /\ u \notin thr'[u].kids
              /\ call[u].pc = "destroyed" => thr'[u].parent = None
              /\ u = initproc => thr'[u].parent = None
            <4>1. CASE u = initproc BY <2>0, <2>2, <4>1, <1>6, <1>7, <1>i DEF Sound, Childless, Exiting
            <4>2. CASE u # initproc
                <5>1. thr'[u].kids = thr[u].kids BY <4>2, <2>2, <1>7
                <5>2. call[u].pc = "destroyed" => u \notin K BY <2>0, <1>k, <1>i DEF Sound
                <5>3. QED BY <2>0, <4>2, <5>1, <5>2, <1>7 DEF Sound
            <4>3. QED BY <4>1, <4>2
        <3>2. Sound(u, thr'[u], call[u], OwnReaper(u))
            BY <2>0, <2>2, <3>1, <1>7, <1>8 DEF Sound
        <3>3. QED BY <3>0, <3>2, <1>10 DEF Sound
    <2>3. QED BY <2>1, <2>2
<1>12. ChildIsNew' /\ OneCreator'
    <2>1. {t} \in SUBSET Threads OBVIOUS
    <2>2. \A u \in Threads \ {t} : call'[u] = call[u] BY <1>5
    <2>3. \A u \in {t} : ~Creates(u)' BY <1>3, <1>4, <1>5 DEF Creates
    <2>4. \A d \in Threads : call[d].pc = "new" =>
            /\ call'[d].pc = "new" /\ thr'[d].pid = thr[d].pid /\ thr'[d].tg = thr[d].tg
            /\ thr'[d].kind = thr[d].kind /\ (thr[d].parent = None => thr'[d].parent = None)
        BY <1>1, <1>5, <1>7, <1>k, <1>i
    <2>5. QED BY <2>1, <2>2, <2>3, <2>4, ChildKept
<1>13. ZombieIsTaken'
    <2>1. \A u \in Threads : call'[u].pc \in {"reap", "reaplocked"} =>
             /\ call'[u] = call[u]
             /\ \A d \in thr[u].kids : call[d].pc = "dead" => d \in thr'[u].kids /\ call'[d].pc = "dead"
        <3> SUFFICES ASSUME NEW u \in Threads, call'[u].pc \in {"reap", "reaplocked"}
                     PROVE  /\ call'[u] = call[u]
                            /\ \A d \in thr[u].kids :
                                  call[d].pc = "dead" => d \in thr'[u].kids /\ call'[d].pc = "dead"
            OBVIOUS
        <3>1. u # t BY <1>3, <1>4, <1>5
        <3>2. thr[u].kids \in SUBSET Threads BY <1>f DEF ThreadRecord
        <3>3. thr[u].kids \subseteq thr'[u].kids BY <3>1, <1>7
        <3>4. QED BY <3>1, <3>2, <3>3, <1>1, <1>5
    <2>2. QED BY <2>1, TakenKept
<1>14. LookedUp'
    <2>1. \A u \in Threads : call'[u].pc = "lookup" => u # t /\ call'[u] = call[u] BY <1>3, <1>4, <1>5
    <2>2. \A p \in Threads : thr[p].live /\ thr[p].kind # "thread" =>
             /\ thr'[p].live /\ thr'[p].kind # "thread"
             /\ call'[p].pc = "destroyed" => call[p].pc = "destroyed"
        BY <1>3, <1>4, <1>5, <1>7, <1>8
    <2>3. QED BY <2>1, <2>2, <1>1, LookedUpKept
<1>15. KidsAgree'
    <2> SUFFICES ASSUME NEW u \in Threads, NEW d \in thr'[u].kids
                 PROVE  thr'[d].live /\ thr'[d].kind # "thread" /\ thr'[d].parent = u
        BY DEF KidsAgree
    <2>1. u # t BY <1>7
    <2>2. CASE d \in K
        <3>1. u = initproc
            <4>1. d \in Threads BY <2>2, <1>k
            <4>2. thr[d].parent = t BY <2>2, <1>k
            <4>3. d \notin thr[u].kids BY <2>1, <4>2 DEF CountInv, Families, KidsAgree
            <4>4. QED BY <2>1, <4>3, <1>7
        <3>2. QED BY <2>2, <3>1, <1>k, <1>7, <1>8
    <2>3. CASE d \notin K
        <3>1. d \in thr[u].kids BY <2>1, <2>3, <1>7
        <3>2. thr[d].live /\ thr[d].kind # "thread" /\ thr[d].parent = u
            BY <3>1 DEF CountInv, Families, KidsAgree
        <3>3. d \in Threads BY <3>1, <1>f DEF ThreadRecord
        <3>4. thr'[d].parent = thr[d].parent /\ thr'[d].kind = thr[d].kind /\ thr'[d].live = thr[d].live
            BY <2>3, <3>3, <1>7, <1>8
        <3>5. QED BY <3>2, <3>4
    <2>4. QED BY <2>2, <2>3
<1>16. FamilyAgrees'
    <2> SUFFICES ASSUME NEW d \in Threads, thr'[d].live, thr'[d].kind # "thread"
                 PROVE  /\ \A u \in Threads : d \in thr'[u].kids <=> thr'[d].parent = u
                        /\ thr'[d].parent # None => thr'[thr'[d].parent].live /\ thr'[thr'[d].parent].pid # 0
        BY DEF FamilyAgrees
    <2>0. thr[d].live /\ thr[d].kind # "thread" BY <1>7, <1>8
    <2>1. /\ \A u \in Threads : d \in thr[u].kids <=> thr[d].parent = u
          /\ thr[d].parent # None => thr[thr[d].parent].live /\ thr[thr[d].parent].pid # 0
        BY <2>0 DEF CountInv, Families, FamilyAgrees
    <2>2. CASE d \in K
        <3>1. thr'[d].parent = initproc /\ thr[d].parent = t BY <2>2, <1>7, <1>k
        <3>2. thr'[initproc].live /\ thr'[initproc].pid # 0
            <4>1. thr'[initproc].live = thr[initproc].live /\ thr'[initproc].pid = thr[initproc].pid
                BY <1>7, <1>8, <1>i
            <4>2. QED BY <4>1, <1>6
        <3>3. ASSUME NEW u \in Threads PROVE d \in thr'[u].kids <=> u = initproc
            <4>1. d \in thr[u].kids <=> u = t BY <2>1, <3>1
            <4>2. CASE u = t
                <5>1. thr'[u].kids = {} BY <4>2, <1>7
                <5>2. QED BY <4>2, <5>1, <1>i
            <4>3. CASE u = initproc
                <5>1. thr'[u].kids = thr[u].kids \cup K BY <4>3, <1>7, <1>i
                <5>2. QED BY <2>2, <4>3, <5>1
            <4>4. CASE u # t /\ u # initproc
                <5>1. thr'[u].kids = thr[u].kids BY <4>4, <1>7
                <5>2. QED BY <4>1, <4>4, <5>1
            <4>5. QED BY <4>2, <4>3, <4>4
        <3>4. QED BY <3>1, <3>2, <3>3
    <2>3. CASE d \notin K
        <3>1. thr'[d].parent = thr[d].parent /\ thr[d].parent # t BY <2>1, <2>3, <1>7 DEF K
        <3>2. \A u \in Threads : d \in thr'[u].kids <=> thr[d].parent = u BY <2>1, <2>3, <3>1, <1>7
        <3>3. thr[d].parent # None => thr[d].parent \in Threads BY <1>f DEF ThreadRecord
        <3>4. \A u \in Threads : thr'[u].live = thr[u].live /\ thr'[u].pid = thr[u].pid BY <1>7, <1>8
        <3>5. QED BY <2>1, <3>1, <3>2, <3>3, <3>4
    <2>4. QED BY <2>2, <2>3
<1>17. PidsAreExact'
    <2>1. Reserving' = Reserving
        <3>1. ASSUME NEW u \in Threads
              PROVE  (Runs(u) /\ call[u].pc \in {"create", "attach"})
                        <=> (Runs(u)' /\ call'[u].pc \in {"create", "attach"})
            <4>1. CASE u = t BY <4>1, <1>1, <1>3, <1>4, <1>5
            <4>2. CASE u # t BY <4>2, <1>5, <1>8 DEF Runs
            <4>3. QED BY <4>1, <4>2
        <3>2. QED BY <3>1 DEF Reserving
    <2>2. QED BY <2>1, <1>1, <1>7, <1>8, PidsKept DEF CountInv, Counting
<1>18. QED BY <1>9, <1>10, <1>11, <1>12, <1>13, <1>14, <1>15, <1>16, <1>17 DEF CountInv, Places, Families, Counting

-----------------------------------------------------------------------------
(* A clone is registered                                                    *)

\* The order on the natural numbers, as a set of pairs.
Less == {ss \in Nat \X Nat : ss[1] < ss[2]}

\* A nonempty set of numbers has a least element.
LEMMA HasLeast ==
    ASSUME NEW A \in SUBSET Nat, A # {}
    PROVE  \E x \in A : \A y \in A : x <= y
<1>1. IsWellFoundedOn(Less, Nat) BY NatLessThanWellFounded DEF OpToRel, Less
<1>2. PICK x \in A : \A y \in A : ~(<<y, x>> \in Less) BY <1>1, WFMin
<1>3. ASSUME NEW y \in A PROVE x <= y
    <2>1. x \in Nat /\ y \in Nat OBVIOUS
    <2>2. ~(y < x) BY <1>2, <2>1 DEF Less
    <2>3. QED BY <2>1, <2>2
<1>4. QED BY <1>3

\* The search of proctab_proc_add ends: a clone that holds a reservation finds an
\* unused pid, because there are more numbers than threads.
LEMMA FirstPidIs ==
    ASSUME CountInv, NEW t \in Threads, Runs(t), call[t].pc = "attach"
    PROVE  FirstPid \in Pids \ (UsedPids \cup {1})
<1> DEFINE A == Pids \ (UsedPids \cup {1})
           Steps(p) == IF p >= nextpid THEN p - nextpid ELSE p + (MAXPID - 2) - nextpid
<1>1. A # {}
    <2>1. t \in Reserving /\ Reserving \in SUBSET Threads /\ Registered \in SUBSET Threads
        BY DEF Reserving, Registered
    <2>2. Cardinality(Reserving) >= 1 /\ Cardinality(Registered) \in Nat /\ Cardinality(Reserving) \in Nat
        <3>1. Cardinality(Reserving) \in Nat /\ Cardinality(Registered) \in Nat BY <2>1, Count
        <3>2. Cardinality(Reserving) # 0 BY <2>1, Count
        <3>3. QED BY <3>1, <3>2
    <2>3. allocated_cnt = Cardinality(Registered) + Cardinality(Reserving) /\ allocated_cnt <= NR_THREAD
        BY DEF CountInv, Counting, PidsAreExact, Reserving, ProcTypeOK
    <2>4. Cardinality(Registered) < MAXPID - 1
        <3>1. Cardinality(Registered) + 1 <= NR_THREAD BY <2>2, <2>3, Consts
        <3>2. QED BY <3>1, <2>2, Consts
    <2>5. IsFiniteSet(UsedPids) /\ Cardinality(UsedPids) <= Cardinality(Registered)
        <3> DEFINE f == [u \in Registered |-> thr[u].pid]
        <3>1. IsFiniteSet(Registered) BY <2>1, Count
        <3>2. f \in [Registered -> UsedPids] BY DEF UsedPids
        <3>3. \A p \in UsedPids : \E u \in Registered : f[u] = p BY DEF UsedPids
        <3>4. f \in Surjection(Registered, UsedPids) BY <3>2, <3>3 DEF Surjection
        <3> HIDE DEF f
        <3>5. QED BY <3>1, <3>4, FS_Surjection
    <2>6. 1 \in UsedPids
        <3>1. Sound(initproc, thr[initproc], call[initproc], OwnReaper(initproc)) /\ initproc \in Threads
            BY Consts, ThreadFacts
        <3>2. thr[initproc].live /\ thr[initproc].pid = 1 BY <3>1 DEF Sound
        <3>3. QED BY <3>1, <3>2 DEF UsedPids, Registered
    <2>7. ASSUME A = {} PROVE FALSE
        <3>1. Pids \subseteq UsedPids BY <2>6, <2>7
        <3>2. Cardinality(Pids) <= Cardinality(UsedPids) BY <2>5, <3>1, FS_Subset
        <3>3. Cardinality(Pids) = MAXPID - 1
            <4>1. 1 \in Int /\ MAXPID - 1 \in Int /\ ~(1 > MAXPID - 1) BY Consts
            <4>2. QED BY <4>1, FS_Interval, Consts DEF Pids
        <3>4. Cardinality(UsedPids) \in Nat BY <2>5, FS_CardinalityType
        <3>5. QED BY <2>2, <2>4, <2>5, <3>2, <3>3, <3>4, Consts
    <2>8. QED BY <2>7
<1>2. \A p \in A : Steps(p) \in Nat
    <2> SUFFICES ASSUME NEW p \in A PROVE Steps(p) \in Nat OBVIOUS
    <2>1. p \in Int /\ p >= 2 /\ p <= MAXPID - 1 BY Consts DEF Pids
    <2>2. nextpid \in Nat /\ nextpid >= 2 /\ (nextpid = 2 \/ nextpid < MAXPID) BY DEF CountInv, ProcTypeOK
    <2>3. CASE p >= nextpid BY <2>1, <2>2, <2>3
    <2>4. CASE ~(p >= nextpid)
        <3>1. nextpid < MAXPID BY <2>1, <2>2, <2>4
        <3>2. p + (MAXPID - 2) - nextpid \in Nat BY <2>1, <2>2, <3>1, Consts
        <3>3. QED BY <2>4, <3>2
    <2>5. QED BY <2>3, <2>4
<1>3. \E p \in A : \A q \in A : Steps(p) <= Steps(q)
    <2> DEFINE N == {Steps(p) : p \in A}
    <2> HIDE DEF Steps, A
    <2>1. N \in SUBSET Nat /\ N # {} BY <1>1, <1>2
    <2> HIDE DEF N
    <2>2. PICK x \in N : \A y \in N : x <= y BY <2>1, HasLeast
    <2>3. PICK p \in A : x = Steps(p) BY DEF N
    <2>4. \A q \in A : Steps(q) \in N BY DEF N
    <2>5. QED BY <2>2, <2>3, <2>4
<1>4. FirstPid = CHOOSE p \in A : \A q \in A : Steps(p) <= Steps(q) BY DEF FirstPid
<1> HIDE DEF A, Steps
<1>5. FirstPid \in A BY <1>3, <1>4
<1>6. QED BY <1>5 DEF A

\* A new thread gets a group of its own.
LEMMA OwnGroup ==
    ASSUME CountInv, NEW c \in Threads, NEW g \in Groups, NEW pid \in Nat, thr[c].live, thr[c].tg = None,
           ~group[g].used, group' = [group EXCEPT ![g] = NewGroup(c, pid)],
           thr'[c].tg = g, thr'[c].live, call'[c].pc = "new",
           \A u \in Threads \ {c} : /\ thr'[u].live = thr[u].live /\ thr'[u].tg = thr[u].tg
                                    /\ thr'[u].kind = thr[u].kind,
           \A u \in Threads \ {c} : Left(call'[u], OwnReaper(u)) <=> Left(call[u], OwnReaper(u))
    PROVE  /\ group' \in [Groups -> GroupRecord] /\ GroupsCount' /\ UnusedGroups' /\ Members'
           /\ \A u \in Threads \ {c} : OwnReaper(u)' <=> OwnReaper(u)
<1>f. group \in [Groups -> GroupRecord] BY ThreadFacts
<1>n. None \notin Groups BY Consts
<1>1. /\ NewGroup(c, pid) \in GroupRecord /\ NewGroup(c, pid).used /\ NewGroup(c, pid).leader = c
      /\ NewGroup(c, pid).live = 1 /\ NewGroup(c, pid).ref = 1 /\ NewGroup(c, pid).members = {c}
    BY DEF NewGroup, GroupRecord
<1>2. group'[g] = NewGroup(c, pid) /\ \A h \in Groups \ {g} : group'[h] = group[h] BY <1>f
<1>3. Refs(g) = {} /\ group[g].members = {}
    <2>1. Refs(g) = {} BY DEF CountInv, Counting, GroupsCount
    <2>2. group[g] = FreeGroup BY DEF CountInv, Counting, UnusedGroups
    <2>3. QED BY <2>1, <2>2 DEF FreeGroup
<1>4. Refs(g)' = {c} /\ \A h \in Groups \ {g} : Refs(h)' = Refs(h)
    <2>1. ASSUME NEW h \in Groups, NEW u \in Threads
          PROVE  (thr'[u].live /\ thr'[u].tg = h) <=> (u = c /\ h = g) \/ (thr[u].live /\ thr[u].tg = h)
        <3>1. CASE u = c BY <3>1, <1>n
        <3>2. CASE u # c BY <3>2
        <3>3. QED BY <3>1, <3>2
    <2>2. \A u \in Threads : ~(thr[u].live /\ thr[u].tg = g) BY <1>3 DEF Refs
    <2>3. Refs(g)' = {c} BY <2>1, <2>2 DEF Refs
    <2>4. QED BY <2>1, <2>3 DEF Refs
<1>5. GroupsCount'
    <2>1. Cardinality({c}) = 1 BY FS_Singleton
    <2> SUFFICES ASSUME NEW h \in Groups
                 PROVE  /\ group'[h].used <=> Refs(h)' # {}
                        /\ group'[h].used => group'[h].ref = Cardinality(Refs(h)')
                        /\ group'[h].live = Cardinality(group'[h].members)
        BY DEF GroupsCount
    <2>2. CASE h = g
        <3>1. group'[h] = NewGroup(c, pid) /\ Refs(h)' = {c} BY <2>2, <1>2, <1>4
        <3>2. group'[h].used /\ group'[h].ref = 1 /\ group'[h].live = 1 /\ group'[h].members = {c}
            BY <3>1, <1>1
        <3>3. QED BY <2>1, <3>1, <3>2
    <2>3. CASE h # g BY <2>3, <1>2, <1>4 DEF CountInv, Counting, GroupsCount
    <2>4. QED BY <2>2, <2>3
<1>6. UnusedGroups' BY <1>1, <1>2 DEF CountInv, Counting, UnusedGroups
<1>7. \A u \in Threads \ {c} : OwnReaper(u)' <=> OwnReaper(u)
    <2> SUFFICES ASSUME NEW u \in Threads \ {c} PROVE OwnReaper(u)' <=> OwnReaper(u)
        OBVIOUS
    <2>1. thr[u].tg # g
        <3>1. Sound(u, thr[u], call[u], OwnReaper(u)) BY ThreadFacts
        <3>2. ~thr[u].live => thr[u].tg = None BY <3>1, FreeThreadIs DEF Sound
        <3>3. QED BY <1>3, <1>n, <3>2 DEF Refs
    <2>2. QED BY <1>2, <2>1 DEF OwnReaper
<1>8. Members'
    <2> SUFFICES ASSUME NEW h \in Groups, NEW u \in Threads
                 PROVE  u \in group'[h].members <=>
                            thr'[u].live /\ thr'[u].tg = h /\ ~Left(call'[u], OwnReaper(u)')
        BY DEF Members
    <2>1. u \in group[h].members <=> thr[u].live /\ thr[u].tg = h /\ ~Left(call[u], OwnReaper(u))
        BY DEF CountInv, Counting, Members
    <2>2. CASE u = c
        <3>1. ~Left(call'[c], OwnReaper(c)') BY DEF Left
        <3>2. CASE h = g BY <2>2, <3>1, <3>2, <1>1, <1>2
        <3>3. CASE h # g BY <2>1, <2>2, <3>3, <1>2, <1>n
        <3>4. QED BY <3>2, <3>3
    <2>3. CASE u # c
        <3>1. Left(call'[u], OwnReaper(u)') <=> Left(call[u], OwnReaper(u)) BY <2>3, <1>7 DEF Left
        <3>2. u \in group'[h].members <=> u \in group[h].members BY <2>3, <1>1, <1>2, <1>3
        <3>3. QED BY <2>1, <2>3, <3>1, <3>2
    <2>4. QED BY <2>2, <2>3
<1>9. group' \in [Groups -> GroupRecord] BY <1>1, <1>f
<1>10. QED BY <1>5, <1>6, <1>7, <1>8, <1>9

\* A new thread joins the group of its creator.
LEMMA JoinGroup ==
    ASSUME CountInv, NEW c \in Threads, NEW g \in Groups, thr[c].live, thr[c].tg = None, group[g].used,
           group' = [group EXCEPT ![g].live = @ + 1, ![g].ref = @ + 1, ![g].members = @ \cup {c}],
           thr'[c].tg = g, thr'[c].live, call'[c].pc = "new",
           \A u \in Threads \ {c} : /\ thr'[u].live = thr[u].live /\ thr'[u].tg = thr[u].tg
                                    /\ thr'[u].kind = thr[u].kind,
           \A u \in Threads \ {c} : Left(call'[u], OwnReaper(u)) <=> Left(call[u], OwnReaper(u))
    PROVE  /\ group' \in [Groups -> GroupRecord] /\ GroupsCount' /\ UnusedGroups' /\ Members'
           /\ \A u \in Threads \ {c} : OwnReaper(u)' <=> OwnReaper(u)
<1>f. group \in [Groups -> GroupRecord] /\ group[g] \in GroupRecord BY ThreadFacts
<1>n. None \notin Groups BY Consts
<1> DEFINE q == [group[g] EXCEPT !.live = group[g].live + 1, !.ref = group[g].ref + 1,
                                 !.members = group[g].members \cup {c}]
<1>1. group' = [group EXCEPT ![g] = q] BY <1>f
<1>2. /\ q \in GroupRecord /\ q.leader = group[g].leader /\ q.live = group[g].live + 1
      /\ q.ref = group[g].ref + 1 /\ q.members = group[g].members \cup {c} /\ q.used
    <2>1. group[g].live + 1 \in Int /\ group[g].ref + 1 \in Int /\ group[g].members \cup {c} \in SUBSET Threads
        BY <1>f DEF GroupRecord
    <2>2. q \in GroupRecord BY <1>f, <2>1 DEF GroupRecord
    <2>3. /\ q.leader = group[g].leader /\ q.live = group[g].live + 1
          /\ q.ref = group[g].ref + 1 /\ q.members = group[g].members \cup {c}
        BY <1>f DEF GroupRecord
    <2>4. q.used = group[g].used BY <1>f DEF GroupRecord
    <2>5. QED BY <2>2, <2>3, <2>4
<1> HIDE DEF q
<1>3. group'[g] = q /\ \A h \in Groups \ {g} : group'[h] = group[h] BY <1>1, <1>f
<1>4. Refs(g)' = Refs(g) \cup {c} /\ c \notin Refs(g) /\ \A h \in Groups \ {g} : Refs(h)' = Refs(h)
    <2>1. ASSUME NEW h \in Groups, NEW u \in Threads
          PROVE  (thr'[u].live /\ thr'[u].tg = h) <=> (u = c /\ h = g) \/ (thr[u].live /\ thr[u].tg = h)
        <3>1. CASE u = c BY <3>1, <1>n
        <3>2. CASE u # c BY <3>2
        <3>3. QED BY <3>1, <3>2
    <2>2. c \notin Refs(g) BY <1>n DEF Refs
    <2>3. Refs(g)' = Refs(g) \cup {c} BY <2>1 DEF Refs
    <2>4. QED BY <2>1, <2>2, <2>3 DEF Refs
<1>m. c \notin group[g].members /\ group[g].members \in SUBSET Threads /\ Refs(g) \in SUBSET Threads
    <2>1. c \notin group[g].members BY <1>n DEF CountInv, Counting, Members
    <2>2. QED BY <2>1, <1>f DEF GroupRecord, Refs
<1>5. GroupsCount'
    <2>1. Cardinality(Refs(g) \cup {c}) = Cardinality(Refs(g)) + 1 BY <1>4, <1>m, Count
    <2>2. Cardinality(group[g].members \cup {c}) = Cardinality(group[g].members) + 1 BY <1>m, Count
    <2> SUFFICES ASSUME NEW h \in Groups
                 PROVE  /\ group'[h].used <=> Refs(h)' # {}
                        /\ group'[h].used => group'[h].ref = Cardinality(Refs(h)')
                        /\ group'[h].live = Cardinality(group'[h].members)
        BY DEF GroupsCount
    <2>o. /\ group[h].used <=> Refs(h) # {}
          /\ group[h].used => group[h].ref = Cardinality(Refs(h))
          /\ group[h].live = Cardinality(group[h].members)
        BY DEF CountInv, Counting, GroupsCount
    <2>3. CASE h = g BY <2>1, <2>2, <2>o, <2>3, <1>2, <1>3, <1>4
    <2>4. CASE h # g BY <2>o, <2>4, <1>3, <1>4
    <2>5. QED BY <2>3, <2>4
<1>6. UnusedGroups' BY <1>2, <1>3 DEF CountInv, Counting, UnusedGroups
<1>7. \A u \in Threads \ {c} : OwnReaper(u)' <=> OwnReaper(u)
    <2>1. \A h \in Groups : group'[h].leader = group[h].leader BY <1>2, <1>3
    <2>2. QED BY <2>1, OwnReaperKept
<1>8. Members'
    <2> SUFFICES ASSUME NEW h \in Groups, NEW u \in Threads
                 PROVE  u \in group'[h].members <=>
                            thr'[u].live /\ thr'[u].tg = h /\ ~Left(call'[u], OwnReaper(u)')
        BY DEF Members
    <2>1. u \in group[h].members <=> thr[u].live /\ thr[u].tg = h /\ ~Left(call[u], OwnReaper(u))
        BY DEF CountInv, Counting, Members
    <2>2. CASE u = c
        <3>1. ~Left(call'[c], OwnReaper(c)') BY DEF Left
        <3>2. CASE h = g BY <2>2, <3>1, <3>2, <1>2, <1>3
        <3>3. CASE h # g BY <2>1, <2>2, <3>3, <1>3, <1>n
        <3>4. QED BY <3>2, <3>3
    <2>3. CASE u # c
        <3>1. Left(call'[u], OwnReaper(u)') <=> Left(call[u], OwnReaper(u)) BY <2>3, <1>7 DEF Left
        <3>2. u \in group'[h].members <=> u \in group[h].members BY <2>3, <1>2, <1>3
        <3>3. QED BY <2>1, <2>3, <3>1, <3>2
    <2>4. QED BY <2>2, <2>3
<1>9. group' \in [Groups -> GroupRecord] BY <1>1, <1>2, <1>f
<1>10. QED BY <1>5, <1>6, <1>7, <1>8, <1>9

\* A thread that is entered nowhere, and one that may get a child.
EntryKeeps(r, q, kids) ==
    /\ q.live = r.live /\ q.state = r.state /\ q.queued = r.queued
    /\ q.pid = r.pid /\ q.tg = r.tg /\ q.kind = r.kind /\ q.parent = r.parent
    /\ q.kids = kids
    /\ (~r.live => q = r)
\* The record of the thread that is entered.
Entry(r, q, pid, par, G) ==
    /\ q.live = r.live /\ q.state = r.state /\ q.queued = r.queued
    /\ q.kind = r.kind /\ q.kids = r.kids
    /\ q.pid = pid /\ q.parent = par /\ q.tg = G
\* Who gets it as a child: nobody, or a parent that can have children.
Adopted(c, par, K) ==
    \/ thr[c].kind = "thread" /\ K = {}
    \/ /\ thr[c].kind # "thread" /\ K = {par} /\ thr[par].live /\ thr[par].pid # 0
       /\ call[par].pc \notin Childless

\* The pages, families and pids when thread c is entered with pid, group and parent
\* by its creator t; the threads in K get it as a child.
LEMMA Entered ==
    ASSUME CountInv, NEW t \in Threads, Runs(t), call[t].pc = "attach",
           NEW c \in Threads, c = call[t].child, NEW k \in CallRecord,
           call' = [call EXCEPT ![t] = k], k.pc \in {"group", "start"}, k.child = c,
           NEW pid \in Pids \ (UsedPids \cup {1}), nextpid' = IncPid(pid),
           NEW par \in Threads \cup {None}, NEW G \in Groups \cup {None}, NEW K \in SUBSET Threads,
           thr' \in [Threads -> ThreadRecord],
           \A u \in Threads \ {c} :
               EntryKeeps(thr[u], thr'[u], IF u \in K THEN thr[u].kids \cup {c} ELSE thr[u].kids),
           Entry(thr[c], thr'[c], pid, par, G), Adopted(c, par, K),
           k.pc = "group" => G = None /\ thr[c].kind = "kthread",
           k.pc = "start" => G # None \/ thr[c].kind = "kthread",
           group' \in [Groups -> GroupRecord], GroupsCount', UnusedGroups', Members',
           \A u \in Threads \ {c} : OwnReaper(u)' <=> OwnReaper(u),
           UNCHANGED <<allocated_cnt, readers, grace>>
    PROVE  CountInv'
<1>f. /\ thr[t] \in ThreadRecord /\ call[t] \in CallRecord /\ Sound(t, thr[t], call[t], OwnReaper(t))
      /\ thr \in [Threads -> ThreadRecord] /\ call \in [Threads -> CallRecord]
    BY ThreadFacts
<1>1. Creates(t) BY DEF Creates
<1>2. /\ call[c].pc = "new" /\ thr[c].pid = 0 /\ thr[c].tg = None /\ thr[c].parent = None
    BY <1>1 DEF CountInv, Places, ChildIsNew, Creation
<1>3. c # t /\ c # None /\ thr[t].live /\ thr[t].queued BY <1>2, Consts DEF Runs
<1>c. call'[t] = k /\ \A u \in Threads \ {t} : call'[u] = call[u] BY <1>f
<1>4. Sound(c, thr[c], call[c], OwnReaper(c)) BY ThreadFacts
<1>5. c # initproc /\ thr[c].live /\ thr[c].kids = {} BY <1>2, <1>4 DEF Sound, Childless
<1>6. \A u \in Threads : c \notin thr[u].kids
    BY <1>2, Consts DEF CountInv, Families, KidsAgree
<1>e. \A u \in Threads \ {c} : thr'[u].pid = thr[u].pid /\ thr'[u].parent = thr[u].parent BY DEF EntryKeeps
<1>l. \A u \in Threads : thr'[u].live = thr[u].live /\ thr'[u].kind = thr[u].kind /\ thr'[u].queued = thr[u].queued
    BY DEF EntryKeeps, Entry
<1>d. \A u \in Threads \ {c} : IF u \in K THEN thr'[u].kids = thr[u].kids \cup {c} ELSE thr'[u].kids = thr[u].kids
    BY DEF EntryKeeps
<1>h. thr'[c].pid = pid /\ thr'[c].parent = par /\ thr'[c].tg = G /\ thr'[c].kids = {} BY <1>5 DEF Entry
<1>p. pid \in Nat /\ pid # 0 /\ pid >= 2 /\ pid <= MAXPID - 1 BY Consts DEF Pids
<1>7. ProcTypeOK'
    <2>1. nextpid' \in Nat /\ nextpid' >= 2 /\ (nextpid' = 2 \/ nextpid' < MAXPID)
        BY <1>p, Consts DEF IncPid
    <2>2. QED BY <2>1, <1>f DEF CountInv, ProcTypeOK
<1>8. ThreadsSound'
    <2> SUFFICES ASSUME NEW u \in Threads PROVE Sound(u, thr'[u], call'[u], OwnReaper(u)')
        BY DEF ThreadsSound
    <2>0. Sound(u, thr[u], call[u], OwnReaper(u)) BY ThreadFacts
    <2>1. CASE u = c
        <3>1. Sound(c, thr'[c], call[c], OwnReaper(c)')
            BY <1>2, <1>4, <1>5, <1>p DEF Entry, Sound, OffCpu, PidIsBack, OwnWay, ZombieWay, Childless, Exiting
        <3>2. QED BY <2>1, <3>1, <1>3, <1>c
    <2>2. CASE u # c
        <3>1. /\ thr'[u].live = thr[u].live /\ thr'[u].state = thr[u].state /\ thr'[u].queued = thr[u].queued
              /\ thr'[u].pid = thr[u].pid /\ thr'[u].tg = thr[u].tg /\ thr'[u].kind = thr[u].kind
              /\ thr'[u].parent = thr[u].parent
              /\ (~thr[u].live => thr'[u] = thr[u])
            BY <2>2 DEF EntryKeeps
        <3>k. u \notin thr'[u].kids /\ (call[u].pc \in Childless => thr'[u].kids = thr[u].kids)
            <4>1. u \notin thr[u].kids BY <2>0 DEF Sound
            <4>2. CASE u \in K
                <5>1. call[u].pc \notin Childless BY <4>2 DEF Adopted
                <5>2. QED BY <2>2, <4>1, <4>2, <5>1, <1>d
            <4>3. CASE u \notin K BY <2>2, <4>1, <4>3, <1>d
            <4>4. QED BY <4>2, <4>3
        <3>2. CASE u = t
            <4>1. Sound(t, thr'[t], k, OwnReaper(t))
                BY <1>f, <1>3, <2>2, <3>1, <3>k, <3>2 DEF Sound, OffCpu, PidIsBack, OwnWay, ZombieWay, Childless, Exiting
            <4>2. QED BY <2>2, <3>2, <4>1, <1>c DEF Sound
        <3>3. CASE u # t
            <4>1. Sound(u, thr'[u], call[u], OwnReaper(u)) BY <2>0, <3>1, <3>k DEF Sound
            <4>2. QED BY <2>2, <3>3, <4>1, <1>c DEF Sound
        <3>4. QED BY <3>2, <3>3
    <2>3. QED BY <2>1, <2>2
<1>9. \A u \in Threads : Creates(u)' => Creates(u) /\ call'[u].child = call[u].child BY <1>1, <1>c DEF Creates
<1>10. OneCreator' BY <1>9 DEF CountInv, Places, OneCreator
<1>11. ChildIsNew'
    <2> SUFFICES ASSUME NEW u \in Threads, Creates(u)'
                 PROVE  call'[u].child \in Threads
                        /\ Creation(call'[u], thr'[call'[u].child], call'[call'[u].child])
        BY DEF ChildIsNew
    <2>1. CASE u = t
        <3>1. Creation(k, thr'[c], call[c]) BY <1>2, <1>p DEF Creation, Entry
        <3>2. QED BY <2>1, <3>1, <1>3, <1>c
    <2>2. CASE u # t
        <3>1. Creates(u) /\ call'[u] = call[u] BY <2>2, <1>9, <1>c
        <3>2. call[u].child \in Threads /\ Creation(call[u], thr[call[u].child], call[call[u].child])
            BY <3>1 DEF CountInv, Places, ChildIsNew
        <3>3. call[u].child # c BY <2>2, <3>1, <1>1 DEF CountInv, Places, OneCreator
        <3>4. call[u].child # t BY <3>2 DEF Creation
        <3>5. Creation(call[u], thr'[call[u].child], call[call[u].child]) BY <3>2, <3>3 DEF Creation, EntryKeeps
        <3>6. QED BY <3>1, <3>2, <3>4, <3>5, <1>c
    <2>3. QED BY <2>1, <2>2
<1>12. ZombieIsTaken'
    <2>1. \A u \in Threads : call'[u].pc \in {"reap", "reaplocked"} =>
             /\ call'[u] = call[u]
             /\ \A d \in thr[u].kids : call[d].pc = "dead" => d \in thr'[u].kids /\ call'[d].pc = "dead"
        <3> SUFFICES ASSUME NEW u \in Threads, call'[u].pc \in {"reap", "reaplocked"}
                     PROVE  /\ call'[u] = call[u]
                            /\ \A d \in thr[u].kids :
                                  call[d].pc = "dead" => d \in thr'[u].kids /\ call'[d].pc = "dead"
            OBVIOUS
        <3>1. u # t /\ u # c BY <1>2, <1>3, <1>c
        <3>2. thr[u].kids \in SUBSET Threads BY <1>f DEF ThreadRecord
        <3>3. thr[u].kids \subseteq thr'[u].kids BY <3>1, <1>d
        <3>4. \A d \in thr[u].kids : call[d].pc = "dead" => d # t /\ d \in Threads BY <3>2
        <3>5. QED BY <3>1, <3>3, <3>4, <1>c
    <2>2. QED BY <2>1, TakenKept
<1>13. LookedUp'
    <2>1. \A u \in Threads : call'[u].pc = "lookup" => u # t /\ call'[u] = call[u] BY <1>c
    <2>3. \A p \in Threads : thr[p].live /\ thr[p].kind # "thread" =>
             /\ thr'[p].live /\ thr'[p].kind # "thread"
             /\ call'[p].pc = "destroyed" => call[p].pc = "destroyed"
        BY <1>l, <1>c
    <2>4. QED BY <2>1, <2>3, LookedUpKept
<1>14. KidsAgree'
    <2> SUFFICES ASSUME NEW u \in Threads, NEW d \in thr'[u].kids
                 PROVE  thr'[d].live /\ thr'[d].kind # "thread" /\ thr'[d].parent = u
        BY DEF KidsAgree
    <2>0. u # c BY <1>h
    <2>1. CASE d = c
        <3>1. u \in K BY <2>0, <2>1, <1>6, <1>d
        <3>2. thr[c].kind # "thread" /\ u = par BY <3>1 DEF Adopted
        <3>3. QED BY <2>1, <3>2, <1>5, <1>l, <1>h
    <2>2. CASE d # c
        <3>1. d \in thr[u].kids BY <2>0, <2>2, <1>d
        <3>2. thr[d].live /\ thr[d].kind # "thread" /\ thr[d].parent = u BY <3>1 DEF CountInv, Families, KidsAgree
        <3>3. d \in Threads \ {c} BY <2>2, <3>1, <1>f DEF ThreadRecord
        <3>4. QED BY <3>2, <3>3, <1>l, <1>e
    <2>3. QED BY <2>1, <2>2
<1>15. FamilyAgrees'
    <2> SUFFICES ASSUME NEW d \in Threads, thr'[d].live, thr'[d].kind # "thread"
                 PROVE  /\ \A u \in Threads : d \in thr'[u].kids <=> thr'[d].parent = u
                        /\ thr'[d].parent # None => thr'[thr'[d].parent].live /\ thr'[thr'[d].parent].pid # 0
        BY DEF FamilyAgrees
    <2>1. CASE d = c
        <3>1. thr[c].kind # "thread" BY <2>1, <1>l
        <3>2. K = {par} /\ par \in Threads /\ thr[par].live /\ thr[par].pid # 0 BY <3>1, Consts DEF Adopted
        <3>3. par # c BY <3>2, <1>2
        <3>4. thr'[par].live /\ thr'[par].pid # 0 BY <3>2, <3>3, <1>l, <1>e
        <3>5. ASSUME NEW u \in Threads PROVE c \in thr'[u].kids <=> u = par
            <4>1. CASE u = c BY <4>1, <3>3, <1>h
            <4>2. CASE u # c
                <5>1. c \notin thr[u].kids BY <1>6
                <5>2. QED BY <4>2, <5>1, <3>2, <1>d
            <4>3. QED BY <4>1, <4>2
        <3>6. QED BY <2>1, <3>4, <3>5, <1>h
    <2>2. CASE d # c
        <3>0. thr[d].live /\ thr[d].kind # "thread" /\ thr'[d].parent = thr[d].parent BY <2>2, <1>l, <1>e
        <3>1. /\ \A u \in Threads : d \in thr[u].kids <=> thr[d].parent = u
              /\ thr[d].parent # None => thr[thr[d].parent].live /\ thr[thr[d].parent].pid # 0
            BY <3>0 DEF CountInv, Families, FamilyAgrees
        <3>2. ASSUME NEW u \in Threads PROVE d \in thr'[u].kids <=> d \in thr[u].kids
            <4>1. CASE u = c BY <4>1, <1>h, <1>5
            <4>2. CASE u # c BY <2>2, <4>2, <1>d
            <4>3. QED BY <4>1, <4>2
        <3>3. thr[d].parent \in Threads \cup {None} BY <1>f DEF ThreadRecord
        <3>4. thr[d].parent # None => thr[d].parent \in Threads \ {c} BY <3>1, <3>3, <1>2
        <3>5. QED BY <3>0, <3>1, <3>2, <3>4, <1>l, <1>e
    <2>3. QED BY <2>1, <2>2
<1>16. PidsAreExact'
    <2>1. c \notin Registered /\ Registered' = Registered \cup {c}
        <3>1. c \notin Registered BY <1>2 DEF Registered
        <3>2. ASSUME NEW u \in Threads
              PROVE  (thr'[u].live /\ thr'[u].pid # 0) <=> (u = c \/ (thr[u].live /\ thr[u].pid # 0))
            <4>1. CASE u = c BY <4>1, <1>5, <1>p, <1>h, <1>l
            <4>2. CASE u # c BY <4>2, <1>l, <1>e
            <4>3. QED BY <4>1, <4>2
        <3>3. QED BY <3>1, <3>2 DEF Registered
    <2>2. t \in Reserving /\ Reserving' = Reserving \ {t}
        <3>1. t \in Reserving BY DEF Reserving
        <3>2. ASSUME NEW u \in Threads
              PROVE  (Runs(u)' /\ call'[u].pc \in {"create", "attach"})
                     <=> (u # t /\ Runs(u) /\ call[u].pc \in {"create", "attach"})
            <4>1. CASE u = t BY <4>1, <1>c
            <4>2. CASE u = c BY <4>2, <1>2, <1>3, <1>c
            <4>3. CASE u # t /\ u # c BY <4>3, <1>c, <1>l DEF Runs
            <4>4. QED BY <4>1, <4>2, <4>3
        <3>3. QED BY <3>1, <3>2 DEF Reserving
    <2>3. /\ \A a, b \in Registered : a # b => thr[a].pid # thr[b].pid
          /\ allocated_cnt = Cardinality(Registered) + Cardinality(Reserving)
        BY DEF CountInv, Counting, PidsAreExact, Reserving
    <2>r. Registered \in SUBSET Threads /\ Reserving \in SUBSET Threads BY DEF Registered, Reserving
    <2>4. Cardinality(Registered') = Cardinality(Registered) + 1 /\ Cardinality(Registered) \in Nat
        BY <2>1, <2>r, Count
    <2>5. Cardinality(Reserving') = Cardinality(Reserving) - 1 /\ Cardinality(Reserving) \in Nat
        BY <2>2, <2>r, Count
    <2>6. allocated_cnt' = Cardinality(Registered') + Cardinality(Reserving') BY <2>3, <2>4, <2>5
    <2>7. \A a \in Registered : thr'[a].pid = thr[a].pid /\ thr'[a].pid # pid
        <3>1. \A a \in Registered : a \in Threads \ {c} BY <2>1, <2>r
        <3>2. \A a \in Registered : thr[a].pid # pid BY DEF UsedPids
        <3>3. QED BY <3>1, <3>2, <1>e
    <2>8. \A a, b \in Registered' : a # b => thr'[a].pid # thr'[b].pid BY <2>1, <2>3, <2>7, <1>h
    <2>9. QED BY <2>6, <2>8 DEF PidsAreExact, Reserving
<1>17. QED BY <1>7, <1>8, <1>10, <1>11, <1>12, <1>13, <1>14, <1>15, <1>16 DEF CountInv, Places, Families, Counting

\* The records that attach_child, proctab_proc_add and thread_group_add leave.
LEMMA EntryRecord ==
    ASSUME NEW r \in ThreadRecord, NEW pid \in Pids, NEW par \in Threads \cup {None}, NEW G \in Groups \cup {None}
    PROVE  LET q == [r EXCEPT !.parent = par, !.pid = pid, !.tg = G] IN
           q \in ThreadRecord /\ Entry(r, q, pid, par, G)
<1> DEFINE q == [r EXCEPT !.parent = par, !.pid = pid, !.tg = G]
<1>1. pid \in 0 .. MAXPID - 1 BY Consts DEF Pids
<1>2. q \in ThreadRecord BY <1>1 DEF ThreadRecord
<1>3. q.live = r.live /\ q.queued = r.queued BY DEF ThreadRecord
<1>4. /\ q.state = r.state /\ q.kind = r.kind /\ q.kids = r.kids
      /\ q.pid = pid /\ q.parent = par /\ q.tg = G
    BY DEF ThreadRecord
<1> HIDE DEF q
<1>5. q \in ThreadRecord /\ Entry(r, q, pid, par, G) BY <1>2, <1>3, <1>4 DEF Entry
<1>6. QED BY <1>5 DEF q

\* The record of a parent that gets a child.
LEMMA ParentRecord ==
    ASSUME NEW r \in ThreadRecord, r.live, NEW c \in Threads
    PROVE  LET q == [r EXCEPT !.kids = r.kids \cup {c}] IN
           q \in ThreadRecord /\ EntryKeeps(r, q, r.kids \cup {c})
<1> DEFINE q == [r EXCEPT !.kids = r.kids \cup {c}]
<1>1. r.kids \cup {c} \in SUBSET Threads BY DEF ThreadRecord
<1>2. q \in ThreadRecord BY <1>1 DEF ThreadRecord
<1>3. q.live = r.live /\ q.queued = r.queued BY DEF ThreadRecord
<1>4. /\ q.state = r.state /\ q.kind = r.kind /\ q.kids = r.kids \cup {c}
      /\ q.pid = r.pid /\ q.parent = r.parent /\ q.tg = r.tg
    BY DEF ThreadRecord
<1> HIDE DEF q
<1>5. q \in ThreadRecord /\ EntryKeeps(r, q, r.kids \cup {c}) BY <1>2, <1>3, <1>4 DEF EntryKeeps
<1>6. QED BY <1>5 DEF q

\* A thread whose record a step leaves alone.
LEMMA EntryRefl == ASSUME NEW r PROVE EntryKeeps(r, r, r.kids)
BY DEF EntryKeeps

\* attach_child changes two records.
LEMMA AttachedIs ==
    ASSUME thr \in [Threads -> ThreadRecord], NEW p \in Threads, NEW c \in Threads, c # p
    PROVE  Attached(thr, p, c) = [thr EXCEPT ![c] = [thr[c] EXCEPT !.parent = p],
                                             ![p] = [thr[p] EXCEPT !.kids = thr[p].kids \cup {c}]]
BY DEF Attached

\* The child is entered under pid_wlock.
LEMMA CloneAttachKeeps ==
    ASSUME CountInv, NEW t \in Threads, CloneAttach(t)
    PROVE  CountInv'
<1>f. /\ thr[t] \in ThreadRecord /\ call[t] \in CallRecord /\ Sound(t, thr[t], call[t], OwnReaper(t))
      /\ thr \in [Threads -> ThreadRecord] /\ call \in [Threads -> CallRecord]
    BY ThreadFacts
<1> DEFINE c == call[t].child
           kind == call[t].kind
           pid == FirstPid
           x == IF kind = "kthread" THEN "group" ELSE "start"
<1>1. /\ Runs(t) /\ call[t].pc = "attach" /\ nextpid' = IncPid(pid) /\ Then(t, x)
      /\ UNCHANGED <<allocated_cnt, readers, grace>>
    BY DEF CloneAttach, At
<1>2. pid \in Pids \ (UsedPids \cup {1}) BY <1>1, FirstPidIs
<1>3. x \in {"group", "start"} OBVIOUS
<1>4. PICK k \in CallRecord : /\ call' = [call EXCEPT ![t] = k]
                              /\ k.pc = x /\ k.kind = call[t].kind /\ k.child = call[t].child
    <2>1. x \in Pcs BY <1>3 DEF Pcs
    <2> HIDE DEF x
    <2>2. QED BY <2>1, <1>f, <1>1, ThenIs
<1>5. /\ c \in Threads /\ call[c].pc = "new" /\ thr[c].pid = 0 /\ thr[c].tg = None /\ thr[c].parent = None
      /\ (kind = "thread" <=> thr[c].kind = "thread") /\ (kind = "kthread" <=> thr[c].kind = "kthread")
    <2>1. Creates(t) BY <1>1 DEF Creates
    <2>2. QED BY <1>1, <2>1 DEF CountInv, Places, ChildIsNew, Creation
<1>6. c # t /\ thr[t].live /\ thr[t].queued /\ thr[t].pid # 0 /\ call[t].pc \notin Childless
    BY <1>1, <1>5, <1>f DEF Runs, Sound, PidIsBack, Childless
<1>7. thr[c] \in ThreadRecord /\ Sound(c, thr[c], call[c], OwnReaper(c)) BY <1>5, ThreadFacts
<1>8. thr[c].live /\ c # initproc BY <1>5, <1>7 DEF Sound
<1>c. /\ call'[t] = k /\ \A u \in Threads \ {t} : call'[u] = call[u] BY <1>4, <1>f
<1>9. /\ call'[c].pc = "new"
      /\ \A u \in Threads \ {c} : Left(call'[u], OwnReaper(u)) <=> Left(call[u], OwnReaper(u))
    BY <1>1, <1>3, <1>4, <1>5, <1>6, <1>c DEF Left
<1>g. x = "group" <=> kind = "kthread" OBVIOUS
<1>i. /\ initproc \in Threads /\ thr[initproc] \in ThreadRecord /\ thr[initproc].live
      /\ thr[initproc].pid # 0 /\ call[initproc].pc \notin Childless
    <2>1. initproc \in Threads BY Consts
    <2>2. thr[initproc] \in ThreadRecord /\ Sound(initproc, thr[initproc], call[initproc], OwnReaper(initproc))
        BY <2>1, ThreadFacts
    <2>3. QED BY <2>1, <2>2 DEF Sound, Childless, Exiting
<1>o. /\ UNCHANGED <<allocated_cnt, readers, grace>> /\ nextpid' = IncPid(pid) /\ Runs(t)
      /\ call[t].pc = "attach"
    BY <1>1
<1>d. \/ /\ kind = "thread"
         /\ thr' = [thr EXCEPT ![c].parent = thr[t].parent, ![c].pid = pid, ![c].tg = thr[t].tg]
         /\ group' = [group EXCEPT ![thr[t].tg].live = @ + 1, ![thr[t].tg].ref = @ + 1,
                                   ![thr[t].tg].members = @ \cup {c}]
      \/ /\ kind \in {"fork", "vfork"}
         /\ \E g \in Groups :
               /\ ~group[g].used
               /\ group' = [group EXCEPT ![g] = NewGroup(c, pid)]
               /\ thr' = [Attached(thr, t, c) EXCEPT ![c].pid = pid, ![c].tg = g]
      \/ /\ kind = "kthread"
         /\ thr' = [Attached(thr, initproc, c) EXCEPT ![c].pid = pid]
         /\ UNCHANGED group
    BY DEF CloneAttach
<1>p. pid \in Pids /\ pid \in Nat BY <1>2, Consts DEF Pids
<1>e. c = call[t].child /\ k.pc = x /\ k.child = c /\ call' = [call EXCEPT ![t] = k] BY <1>4
<1> HIDE DEF c, kind, pid, x
<1>10. CASE /\ kind = "thread"
            /\ thr' = [thr EXCEPT ![c].parent = thr[t].parent, ![c].pid = pid, ![c].tg = thr[t].tg]
            /\ group' = [group EXCEPT ![thr[t].tg].live = @ + 1, ![thr[t].tg].ref = @ + 1,
                                      ![thr[t].tg].members = @ \cup {c}]
    <2> DEFINE g == thr[t].tg
               par == thr[t].parent
               r == [thr[c] EXCEPT !.parent = par, !.pid = pid, !.tg = g]
    <2>1. thr[t].kind # "kthread" BY <1>f, <1>o, <1>10 DEF Sound, kind
    <2>2. g \in Groups /\ par \in Threads \cup {None} BY <2>1, <1>f, <1>o, <1>6 DEF Sound, ThreadRecord
    <2>3. group[g].used
        <3>1. t \in Refs(g) BY <1>6 DEF Refs
        <3>2. QED BY <2>2, <3>1 DEF CountInv, Counting, GroupsCount
    <2>4. r \in ThreadRecord /\ Entry(thr[c], r, pid, par, g) BY <1>7, <1>p, <2>2, EntryRecord
    <2>5. thr' = [thr EXCEPT ![c] = r] BY <1>10, <1>5, <1>f
    <2> HIDE DEF r
    <2>6. thr'[c] = r /\ thr' \in [Threads -> ThreadRecord] /\ \A u \in Threads \ {c} : thr'[u] = thr[u]
        BY <2>4, <2>5, <1>5, <1>f
    <2>7. thr'[c].tg = g /\ thr'[c].live BY <2>4, <2>6, <1>8 DEF Entry
    <2>8. group' = [group EXCEPT ![g].live = @ + 1, ![g].ref = @ + 1, ![g].members = @ \cup {c}] BY <1>10
    <2> HIDE DEF g, par
    <2>9. /\ group' \in [Groups -> GroupRecord] /\ GroupsCount' /\ UnusedGroups' /\ Members'
          /\ \A u \in Threads \ {c} : OwnReaper(u)' <=> OwnReaper(u)
        BY <2>2, <2>3, <2>6, <2>7, <2>8, <1>5, <1>8, <1>9, JoinGroup
    <2>10. Adopted(c, par, {}) BY <1>5, <1>10 DEF Adopted
    <2>11. \A u \in Threads \ {c} :
               EntryKeeps(thr[u], thr'[u], IF u \in {} THEN thr[u].kids \cup {c} ELSE thr[u].kids)
        BY <2>6, EntryRefl
    <2>12. Entry(thr[c], thr'[c], pid, par, g) BY <2>4, <2>6
    <2>13. k.pc = "start" /\ g # None BY <2>2, <1>e, <1>g, <1>3, <1>10, Consts
    <2>14. {} \in SUBSET Threads OBVIOUS
    <2>15. QED BY <1>e, <1>o, <1>2, <1>5, <2>2, <2>6, <2>9, <2>10, <2>11, <2>12, <2>13, <2>14, Entered
<1>11. CASE /\ kind \in {"fork", "vfork"}
            /\ \E g \in Groups :
                  /\ ~group[g].used
                  /\ group' = [group EXCEPT ![g] = NewGroup(c, pid)]
                  /\ thr' = [Attached(thr, t, c) EXCEPT ![c].pid = pid, ![c].tg = g]
    <2>1. PICK g \in Groups :
                  /\ ~group[g].used
                  /\ group' = [group EXCEPT ![g] = NewGroup(c, pid)]
                  /\ thr' = [Attached(thr, t, c) EXCEPT ![c].pid = pid, ![c].tg = g]
        BY <1>11
    <2> DEFINE r == [thr[c] EXCEPT !.parent = t, !.pid = pid, !.tg = g]
               q == [thr[t] EXCEPT !.kids = thr[t].kids \cup {c}]
    <2>2. r \in ThreadRecord /\ Entry(thr[c], r, pid, t, g) BY <1>7, <1>p, EntryRecord
    <2>3. q \in ThreadRecord /\ EntryKeeps(thr[t], q, thr[t].kids \cup {c}) BY <1>f, <1>5, <1>6, ParentRecord
    <2>4. thr' = [thr EXCEPT ![c] = r, ![t] = q]
        <3> DEFINE a == Attached(thr, t, c)
        <3>1. a = [thr EXCEPT ![c] = [thr[c] EXCEPT !.parent = t], ![t] = q] BY <1>5, <1>6, <1>f, AttachedIs
        <3>2. a[c] = [thr[c] EXCEPT !.parent = t] /\ DOMAIN a = Threads BY <3>1, <1>5, <1>6, <1>f
        <3>3. thr' = [a EXCEPT ![c].pid = pid, ![c].tg = g] BY <2>1
        <3> HIDE DEF a
        <3>4. thr' = [a EXCEPT ![c] = [a[c] EXCEPT !.pid = pid, !.tg = g]] BY <3>2, <3>3, <1>5
        <3>5. [a[c] EXCEPT !.pid = pid, !.tg = g] = r BY <3>2
        <3>6. thr' = [a EXCEPT ![c] = r] BY <3>4, <3>5
        <3> HIDE DEF r, q
        <3>7. QED BY <3>1, <3>6, <1>5, <1>6, <1>f
    <2> HIDE DEF r, q
    <2>5. /\ thr'[c] = r /\ thr'[t] = q /\ thr' \in [Threads -> ThreadRecord]
          /\ \A u \in Threads \ {c, t} : thr'[u] = thr[u]
        BY <2>2, <2>3, <2>4, <1>5, <1>6, <1>f
    <2>6. thr'[c].tg = g /\ thr'[c].live BY <2>2, <2>5, <1>8 DEF Entry
    <2>7. \A u \in Threads \ {c} :
               EntryKeeps(thr[u], thr'[u], IF u \in {t} THEN thr[u].kids \cup {c} ELSE thr[u].kids)
        BY <2>3, <2>5, EntryRefl
    <2>8. \A u \in Threads \ {c} : /\ thr'[u].live = thr[u].live /\ thr'[u].tg = thr[u].tg
                                    /\ thr'[u].kind = thr[u].kind
        BY <2>7 DEF EntryKeeps
    <2>9. /\ group' \in [Groups -> GroupRecord] /\ GroupsCount' /\ UnusedGroups' /\ Members'
          /\ \A u \in Threads \ {c} : OwnReaper(u)' <=> OwnReaper(u)
        BY <2>1, <2>6, <2>8, <1>5, <1>8, <1>9, <1>p, OwnGroup
    <2>10. Adopted(c, t, {t}) BY <1>5, <1>6, <1>11 DEF Adopted
    <2>12. Entry(thr[c], thr'[c], pid, t, g) BY <2>2, <2>5
    <2>13. k.pc = "start" /\ g # None BY <1>e, <1>g, <1>3, <1>11, Consts
    <2>14. {t} \in SUBSET Threads OBVIOUS
    <2>15. QED BY <1>e, <1>o, <1>2, <1>5, <2>5, <2>7, <2>9, <2>10, <2>12, <2>13, <2>14, Entered
<1>12. CASE /\ kind = "kthread"
            /\ thr' = [Attached(thr, initproc, c) EXCEPT ![c].pid = pid]
            /\ UNCHANGED group
    <2> DEFINE r == [thr[c] EXCEPT !.parent = initproc, !.pid = pid, !.tg = None]
               q == [thr[initproc] EXCEPT !.kids = thr[initproc].kids \cup {c}]
    <2>2. r \in ThreadRecord /\ Entry(thr[c], r, pid, initproc, None) BY <1>7, <1>p, <1>i, EntryRecord
    <2>3. q \in ThreadRecord /\ EntryKeeps(thr[initproc], q, thr[initproc].kids \cup {c}) BY <1>5, <1>i, ParentRecord
    <2>4. thr' = [thr EXCEPT ![c] = r, ![initproc] = q]
        <3>1. r = [thr[c] EXCEPT !.parent = initproc, !.pid = pid] BY <1>5, <1>7 DEF ThreadRecord
        <3> DEFINE a == Attached(thr, initproc, c)
        <3>2. a = [thr EXCEPT ![c] = [thr[c] EXCEPT !.parent = initproc], ![initproc] = q]
            BY <1>5, <1>8, <1>i, <1>f, AttachedIs
        <3>3. a[c] = [thr[c] EXCEPT !.parent = initproc] /\ DOMAIN a = Threads BY <3>2, <1>5, <1>8, <1>f
        <3>4. thr' = [a EXCEPT ![c].pid = pid] BY <1>12
        <3> HIDE DEF a
        <3>5. thr' = [a EXCEPT ![c] = [a[c] EXCEPT !.pid = pid]] BY <3>3, <3>4, <1>5
        <3>6. [a[c] EXCEPT !.pid = pid] = r BY <3>1, <3>3
        <3>7. thr' = [a EXCEPT ![c] = r] BY <3>5, <3>6
        <3> HIDE DEF r, q
        <3>8. QED BY <3>2, <3>7, <1>5, <1>8, <1>f
    <2> HIDE DEF r, q
    <2>5. /\ thr'[c] = r /\ thr'[initproc] = q /\ thr' \in [Threads -> ThreadRecord]
          /\ \A u \in Threads \ {c, initproc} : thr'[u] = thr[u]
        BY <2>2, <2>3, <2>4, <1>5, <1>8, <1>i, <1>f
    <2>6. thr'[c].tg = None /\ thr'[c].live = thr[c].live /\ thr'[c].kind = thr[c].kind BY <2>2, <2>5 DEF Entry
    <2>7. \A u \in Threads \ {c} :
               EntryKeeps(thr[u], thr'[u], IF u \in {initproc} THEN thr[u].kids \cup {c} ELSE thr[u].kids)
        BY <2>3, <2>5, EntryRefl
    <2>8. \A u \in Threads \ {c} : /\ thr'[u].live = thr[u].live /\ thr'[u].tg = thr[u].tg
                                    /\ thr'[u].kind = thr[u].kind
        BY <2>7 DEF EntryKeeps
    <2>9. /\ group' \in [Groups -> GroupRecord] /\ GroupsCount' /\ UnusedGroups' /\ Members'
          /\ \A u \in Threads : OwnReaper(u)' <=> OwnReaper(u)
        <3>1. \A u \in Threads : /\ thr'[u].live = thr[u].live /\ thr'[u].tg = thr[u].tg
                                  /\ thr'[u].kind = thr[u].kind
            BY <2>6, <2>8, <1>5
        <3>2. \A u \in Threads : Left(call'[u], OwnReaper(u)) <=> Left(call[u], OwnReaper(u))
            BY <1>5, <1>9 DEF Left
        <3>3. group' \in [Groups -> GroupRecord] BY <1>12 DEF CountInv, ProcTypeOK
        <3>4. QED BY <3>1, <3>2, <3>3, <1>12, GroupsStay
    <2>10. Adopted(c, initproc, {initproc}) BY <1>5, <1>i, <1>12 DEF Adopted
    <2>12. Entry(thr[c], thr'[c], pid, initproc, None) BY <2>2, <2>5
    <2>13. k.pc = "group" /\ thr[c].kind = "kthread" BY <1>e, <1>g, <1>5, <1>12
    <2>14. {initproc} \in SUBSET Threads BY <1>i
    <2>15. QED BY <1>e, <1>o, <1>i, <1>2, <1>5, <2>5, <2>7, <2>9, <2>10, <2>12, <2>13, <2>14, Entered
<1>13. QED BY <1>d, <1>10, <1>11, <1>12

\* A kernel thread gets its group after it was registered, or goes on without one.
LEMMA KthreadGroupKeeps ==
    ASSUME CountInv, NEW t \in Threads, KthreadGroup(t)
    PROVE  CountInv'
<1>f. /\ thr[t] \in ThreadRecord /\ call[t] \in CallRecord /\ Sound(t, thr[t], call[t], OwnReaper(t))
      /\ thr \in [Threads -> ThreadRecord] /\ call \in [Threads -> CallRecord]
    BY ThreadFacts
<1>1. /\ thr[t].live /\ thr[t].queued /\ call[t].pc = "group" /\ Then(t, "start")
      /\ UNCHANGED <<nextpid, allocated_cnt, readers, grace>>
    BY DEF KthreadGroup, At, Runs
<1>2. PICK k \in CallRecord : /\ call' = [call EXCEPT ![t] = k]
                              /\ k.pc = "start" /\ k.kind = call[t].kind /\ k.child = call[t].child
    BY <1>f, <1>1, ThenIs DEF Pcs
<1>0. Creates(t) BY <1>1 DEF Creates
<1>e. PICK c \in Threads : c = call[t].child BY <1>0 DEF CountInv, Places, ChildIsNew
<1>3. /\ c \in Threads /\ call[c].pc = "new" /\ thr[c].pid # 0 /\ thr[c].tg = None
      /\ thr[c].kind = "kthread" /\ Creates(t)
    BY <1>0, <1>1, <1>e DEF CountInv, Places, ChildIsNew, Creation
<1>4. c # t BY <1>1, <1>3
<1>5. thr[c] \in ThreadRecord /\ Sound(c, thr[c], call[c], OwnReaper(c)) BY <1>3, ThreadFacts
<1>6. thr[c].live /\ c # initproc BY <1>3, <1>5 DEF Sound
<1>7. /\ call'[t] = k /\ \A u \in Threads \ {t} : call'[u] = call[u] BY <1>2, <1>f
<1>8. /\ call'[c].pc = "new"
      /\ \A u \in Threads : Left(call'[u], OwnReaper(u)) <=> Left(call[u], OwnReaper(u))
    BY <1>1, <1>2, <1>3, <1>4, <1>7 DEF Left
<1>d. \/ \E g \in Groups : /\ ~group[g].used /\ group' = [group EXCEPT ![g] = NewGroup(c, thr[c].pid)]
                            /\ thr' = [thr EXCEPT ![c].tg = g]
      \/ UNCHANGED <<group, thr>>
    BY <1>e DEF KthreadGroup
<1>9. /\ thr' \in [Threads -> ThreadRecord] /\ \A u \in Threads \ {c} : thr'[u] = thr[u]
      /\ thr'[c].live = thr[c].live /\ thr'[c].state = thr[c].state /\ thr'[c].queued = thr[c].queued
      /\ thr'[c].pid = thr[c].pid /\ thr'[c].parent = thr[c].parent /\ thr'[c].kids = thr[c].kids
      /\ thr'[c].kind = thr[c].kind
      /\ group' \in [Groups -> GroupRecord] /\ GroupsCount' /\ UnusedGroups' /\ Members'
      /\ \A u \in Threads \ {c} : OwnReaper(u)' <=> OwnReaper(u)
    <2>1. CASE UNCHANGED <<group, thr>>
        <3>1. /\ GroupsCount' /\ UnusedGroups' /\ Members' /\ \A u \in Threads : OwnReaper(u)' <=> OwnReaper(u)
            BY <1>8, <2>1, GroupsStay
        <3>2. QED BY <2>1, <3>1, <1>f DEF CountInv, ProcTypeOK
    <2>2. CASE \E g \in Groups : /\ ~group[g].used /\ group' = [group EXCEPT ![g] = NewGroup(c, thr[c].pid)]
                                 /\ thr' = [thr EXCEPT ![c].tg = g]
        <3>1. PICK g \in Groups : /\ ~group[g].used /\ group' = [group EXCEPT ![g] = NewGroup(c, thr[c].pid)]
                                  /\ thr' = [thr EXCEPT ![c].tg = g]
            BY <2>2
        <3> DEFINE r == [thr[c] EXCEPT !.tg = g]
        <3>2. r \in ThreadRecord BY <1>5 DEF ThreadRecord
        <3>3. r.live = thr[c].live /\ r.queued = thr[c].queued BY <1>5 DEF ThreadRecord
        <3>4. /\ r.state = thr[c].state /\ r.pid = thr[c].pid /\ r.parent = thr[c].parent
              /\ r.kids = thr[c].kids /\ r.kind = thr[c].kind /\ r.tg = g
            BY <1>5 DEF ThreadRecord
        <3>5. thr' = [thr EXCEPT ![c] = r] BY <3>1, <1>3, <1>f
        <3> HIDE DEF r
        <3>6. thr'[c] = r /\ thr' \in [Threads -> ThreadRecord] /\ \A u \in Threads \ {c} : thr'[u] = thr[u]
            BY <3>2, <3>5, <1>3, <1>f
        <3>7. thr[c].pid \in Nat BY <1>5, Consts DEF ThreadRecord
        <3>8. /\ group' \in [Groups -> GroupRecord] /\ GroupsCount' /\ UnusedGroups' /\ Members'
              /\ \A u \in Threads \ {c} : OwnReaper(u)' <=> OwnReaper(u)
            BY <3>1, <3>3, <3>4, <3>6, <3>7, <1>3, <1>6, <1>8, OwnGroup
        <3>9. QED BY <3>3, <3>4, <3>6, <3>8
    <2>3. QED BY <1>d, <2>1, <2>2
<1>10. ProcTypeOK' BY <1>1, <1>2, <1>9, <1>f DEF CountInv, ProcTypeOK
<1>11. ThreadsSound'
    <2> SUFFICES ASSUME NEW u \in Threads PROVE Sound(u, thr'[u], call'[u], OwnReaper(u)')
        BY DEF ThreadsSound
    <2>1. CASE u = c
        <3>1. Sound(c, thr'[c], call[c], OwnReaper(c)')
            BY <1>3, <1>5, <1>6, <1>9 DEF Sound, OffCpu, PidIsBack, OwnWay, ZombieWay, Childless, Exiting
        <3>2. QED BY <2>1, <3>1, <1>3, <1>4, <1>7
    <2>2. CASE u = t
        <3>1. Sound(t, thr[t], k, OwnReaper(t))
            BY <1>f, <1>1, <1>2 DEF Sound, OffCpu, PidIsBack, OwnWay, ZombieWay, Childless, Exiting
        <3>2. QED BY <2>2, <3>1, <1>4, <1>7, <1>9 DEF Sound
    <2>3. CASE u # t /\ u # c
        <3>1. Sound(u, thr[u], call[u], OwnReaper(u)) BY ThreadFacts
        <3>2. QED BY <2>3, <3>1, <1>7, <1>9 DEF Sound
    <2>4. QED BY <2>1, <2>2, <2>3
<1>12. \A u \in Threads : Creates(u)' => Creates(u) /\ call'[u].child = call[u].child
    BY <1>2, <1>3, <1>7, <1>e DEF Creates
<1>13. OneCreator' BY <1>12 DEF CountInv, Places, OneCreator
<1>14. ChildIsNew'
    <2> SUFFICES ASSUME NEW u \in Threads, Creates(u)'
                 PROVE  call'[u].child \in Threads
                        /\ Creation(call'[u], thr'[call'[u].child], call'[call'[u].child])
        BY DEF ChildIsNew
    <2>1. CASE u = t
        <3>1. Creation(k, thr'[c], call[c]) BY <1>2, <1>3, <1>9 DEF Creation
        <3>2. QED BY <2>1, <3>1, <1>2, <1>3, <1>4, <1>7, <1>e
    <2>2. CASE u # t
        <3>1. Creates(u) /\ call'[u] = call[u] BY <2>2, <1>7, <1>12
        <3>2. call[u].child \in Threads /\ Creation(call[u], thr[call[u].child], call[call[u].child])
            BY <3>1 DEF CountInv, Places, ChildIsNew
        <3>3. call[u].child # c BY <2>2, <3>1, <1>3, <1>e DEF CountInv, Places, OneCreator
        <3>4. call[u].child # t BY <1>1, <3>2 DEF Creation
        <3>5. QED BY <3>1, <3>2, <3>3, <3>4, <1>7, <1>9
    <2>3. QED BY <2>1, <2>2
<1>15. ZombieIsTaken'
    <2>1. \A u \in Threads : call'[u].pc \in {"reap", "reaplocked"} =>
             /\ call'[u] = call[u]
             /\ \A d \in thr[u].kids : call[d].pc = "dead" => d \in thr'[u].kids /\ call'[d].pc = "dead"
        <3> SUFFICES ASSUME NEW u \in Threads, call'[u].pc \in {"reap", "reaplocked"}
                     PROVE  /\ call'[u] = call[u]
                            /\ \A d \in thr[u].kids :
                                  call[d].pc = "dead" => d \in thr'[u].kids /\ call'[d].pc = "dead"
            OBVIOUS
        <3>1. u # t BY <1>2, <1>7
        <3>2. thr[u].kids \in SUBSET Threads /\ thr'[u].kids = thr[u].kids BY <1>f, <1>9 DEF ThreadRecord
        <3>3. QED BY <3>1, <3>2, <1>1, <1>7
    <2>2. QED BY <2>1, TakenKept
<1>16. LookedUp'
    <2>1. \A u \in Threads : call'[u].pc = "lookup" => u # t /\ call'[u] = call[u] BY <1>2, <1>7
    <2>2. \A p \in Threads : thr'[p].live = thr[p].live /\ thr'[p].kind = thr[p].kind BY <1>9
    <2>3. \A p \in Threads : thr[p].live /\ thr[p].kind # "thread" =>
             /\ thr'[p].live /\ thr'[p].kind # "thread"
             /\ call'[p].pc = "destroyed" => call[p].pc = "destroyed"
        BY <2>2, <1>2, <1>7
    <2>4. QED BY <2>1, <2>3, <1>1, LookedUpKept
<1>17. Families'
    <2>1. thr' = [thr EXCEPT ![c] = thr'[c]]
        BY <1>9, <1>f, <1>3
    <2>2. thr'[c] \in ThreadRecord BY <1>3, <1>9
    <2>3. QED BY <2>1, <2>2, <1>3, <1>9, OwnFamilies
<1>18. PidsAreExact'
    <2>1. \A u \in Threads : /\ thr'[u].live = thr[u].live /\ thr'[u].pid = thr[u].pid
                              /\ thr'[u].queued = thr[u].queued
        BY <1>9
    <2>2. Reserving' = Reserving
        <3>1. ASSUME NEW u \in Threads
              PROVE  (Runs(u) /\ call[u].pc \in {"create", "attach"})
                        <=> (Runs(u)' /\ call'[u].pc \in {"create", "attach"})
            <4>1. CASE u = t BY <4>1, <1>1, <1>2, <1>7
            <4>2. CASE u # t BY <4>2, <1>7, <2>1 DEF Runs
            <4>3. QED BY <4>1, <4>2
        <3>2. QED BY <3>1 DEF Reserving
    <2>3. QED BY <2>1, <2>2, <1>1, PidsKept DEF CountInv, Counting
<1>19. QED BY <1>9, <1>10, <1>11, <1>13, <1>14, <1>15, <1>16, <1>17, <1>18 DEF CountInv, Places, Counting

-----------------------------------------------------------------------------
(* A zombie is reaped                                                       *)

\* detach_child, proctab_proc_remove, __free_pid and thread_destroy of the child
\* that wait() took.
LEMMA ReapKeeps ==
    ASSUME CountInv, NEW t \in Threads, Runs(t), call[t].pc \in {"reap", "reaplocked"},
           Reap(t, call[t].child), readers' \in SUBSET Threads, UNCHANGED nextpid
    PROVE  CountInv'
<1>f. /\ thr[t] \in ThreadRecord /\ call[t] \in CallRecord /\ Sound(t, thr[t], call[t], OwnReaper(t))
      /\ thr \in [Threads -> ThreadRecord] /\ call \in [Threads -> CallRecord]
      /\ grace \in [Threads -> SUBSET Threads]
    BY ThreadFacts
<1>0. call[t].child \in thr[t].kids /\ call[call[t].child].pc = "dead" BY DEF CountInv, Places, ZombieIsTaken
<1>e. PICK c \in Threads : c = call[t].child BY <1>0, <1>f DEF ThreadRecord
<1>1. c \in thr[t].kids /\ call[c].pc = "dead" BY <1>0, <1>e
<1>2. c # t /\ thr[t].live /\ thr[t].queued BY <1>1 DEF Runs
<1>3. thr[c] \in ThreadRecord /\ Sound(c, thr[c], call[c], OwnReaper(c)) BY ThreadFacts
<1>4. thr[c].live /\ thr[c].kind # "thread" /\ thr[c].parent = t BY <1>1 DEF CountInv, Families, KidsAgree
<1>5. thr[c].kids = {} /\ c # initproc /\ thr[c].pid # 0
    BY <1>1, <1>3, <1>4 DEF Sound, Childless, Exiting, PidIsBack
<1> DEFINE r == [thr[c] EXCEPT !.parent = None, !.pid = 0, !.tg = None]
           q == [thr[t] EXCEPT !.kids = thr[t].kids \ {c}]
           kc == [InUser EXCEPT !.pc = "destroyed"]
<1>6. /\ thr' = [thr EXCEPT ![t] = q, ![c] = r]
      /\ group' = GroupPut(group, thr[c].tg) /\ allocated_cnt' = allocated_cnt - 1
      /\ call' = [call EXCEPT ![t] = InUser, ![c] = kc]
    BY <1>2, <1>e, <1>f DEF Reap, FreePid
<1>g. grace' = [grace EXCEPT ![c] = {u \in Threads : Runs(u) /\ call[u].pc # "user"}] BY <1>e DEF Reap, DestroyLater
<1>7. /\ r \in ThreadRecord /\ r.live = thr[c].live /\ r.queued = thr[c].queued /\ r.state = thr[c].state
      /\ r.pid = 0 /\ r.parent = None /\ r.tg = None /\ r.kids = thr[c].kids /\ r.kind = thr[c].kind
    <2>1. 0 \in 0 .. MAXPID - 1 BY Consts
    <2>2. r \in ThreadRecord BY <1>3, <2>1 DEF ThreadRecord
    <2>3. r.live = thr[c].live /\ r.queued = thr[c].queued BY <1>3 DEF ThreadRecord
    <2>4. /\ r.state = thr[c].state /\ r.pid = 0 /\ r.parent = None /\ r.tg = None /\ r.kids = thr[c].kids
          /\ r.kind = thr[c].kind
        BY <1>3 DEF ThreadRecord
    <2>5. QED BY <2>2, <2>3, <2>4
<1>8. /\ q \in ThreadRecord /\ q.live = thr[t].live /\ q.queued = thr[t].queued /\ q.state = thr[t].state
      /\ q.pid = thr[t].pid /\ q.parent = thr[t].parent /\ q.tg = thr[t].tg /\ q.kind = thr[t].kind
      /\ q.kids = thr[t].kids \ {c}
    <2>2. q \in ThreadRecord BY <1>f DEF ThreadRecord
    <2>3. q.live = thr[t].live /\ q.queued = thr[t].queued BY <1>f DEF ThreadRecord
    <2>4. /\ q.state = thr[t].state /\ q.pid = thr[t].pid /\ q.parent = thr[t].parent
          /\ q.tg = thr[t].tg /\ q.kids = thr[t].kids \ {c} /\ q.kind = thr[t].kind
        BY <1>f DEF ThreadRecord
    <2>5. QED BY <2>2, <2>3, <2>4
<1>9. kc \in CallRecord /\ kc.pc = "destroyed" BY DEF InUser, CallRecord, Pcs, CallKindSet
<1> HIDE DEF r, q, kc
<1>10. /\ thr'[c] = r /\ thr'[t] = q /\ call'[c] = kc /\ call'[t] = InUser
       /\ \A u \in Threads \ {t, c} : thr'[u] = thr[u] /\ call'[u] = call[u]
    BY <1>2, <1>6, <1>f
<1>11. \A u \in Threads \ {c} : /\ thr'[u].live = thr[u].live /\ thr'[u].tg = thr[u].tg
                                /\ thr'[u].kind = thr[u].kind /\ thr'[u].parent = thr[u].parent
                                /\ thr'[u].pid = thr[u].pid
    BY <1>8, <1>10
<1>12. /\ group' \in [Groups -> GroupRecord] /\ GroupsCount' /\ UnusedGroups' /\ Members'
       /\ \A u \in Threads \ {c} : OwnReaper(u)' <=> OwnReaper(u)
       /\ ~OwnReaper(c)'
    <2>1. Left(call[c], OwnReaper(c)) BY <1>1 DEF Left
    <2>2. thr'[c].tg = None BY <1>7, <1>10
    <2>3. \A u \in Threads \ {c} : Left(call'[u], OwnReaper(u)) <=> Left(call[u], OwnReaper(u))
        BY <1>10, InUserType DEF Left
    <2>4. QED BY <2>1, <2>2, <2>3, <1>4, <1>6, <1>11, PutGroup
<1>13. grace' \in [Threads -> SUBSET Threads] /\ \A d \in Threads \ {c} : grace'[d] = grace[d]
    BY <1>g, <1>f
<1>14. ProcTypeOK'
    <2>1. allocated_cnt' \in Int /\ allocated_cnt' <= NR_THREAD BY <1>6, Consts DEF CountInv, ProcTypeOK
    <2>2. thr' \in [Threads -> ThreadRecord] /\ call' \in [Threads -> CallRecord]
        BY <1>6, <1>7, <1>8, <1>9, <1>f, InUserType
    <2>3. QED BY <2>1, <2>2, <1>12, <1>13 DEF CountInv, ProcTypeOK
<1>15. ThreadsSound'
    <2> SUFFICES ASSUME NEW u \in Threads PROVE Sound(u, thr'[u], call'[u], OwnReaper(u)')
        BY DEF ThreadsSound
    <2>1. CASE u = c
        <3>1. Sound(c, r, kc, FALSE)
            BY <1>1, <1>3, <1>4, <1>5, <1>7, <1>9
               DEF Sound, OffCpu, PidIsBack, OwnWay, ZombieWay, Childless, Exiting
        <3>2. QED BY <2>1, <3>1, <1>10, <1>12 DEF Sound
    <2>2. CASE u = t
        <3>1. Sound(t, q, InUser, OwnReaper(t))
            BY <1>f, <1>2, <1>8, InUserType
               DEF Sound, OffCpu, PidIsBack, OwnWay, ZombieWay, Childless, Exiting
        <3>2. QED BY <2>2, <3>1, <1>2, <1>10, <1>12 DEF Sound
    <2>3. CASE u # t /\ u # c
        <3>1. Sound(u, thr[u], call[u], OwnReaper(u)) BY ThreadFacts
        <3>2. QED BY <2>3, <3>1, <1>10, <1>12 DEF Sound
    <2>4. QED BY <2>1, <2>2, <2>3
<1>16. ChildIsNew' /\ OneCreator'
    <2>1. {t, c} \in SUBSET Threads OBVIOUS
    <2>2. \A u \in Threads \ {t, c} : call'[u] = call[u] BY <1>10
    <2>3. \A u \in {t, c} : ~Creates(u)' BY <1>9, <1>10, InUserType DEF Creates
    <2>4. \A d \in Threads : call[d].pc = "new" =>
            /\ call'[d].pc = "new" /\ thr'[d].pid = thr[d].pid /\ thr'[d].tg = thr[d].tg
            /\ thr'[d].kind = thr[d].kind /\ (thr[d].parent = None => thr'[d].parent = None)
        BY <1>1, <1>10
    <2>5. QED BY <2>1, <2>2, <2>3, <2>4, ChildKept
<1>k. \A u \in Threads : u # t => c \notin thr[u].kids BY <1>4 DEF CountInv, Families, KidsAgree
<1>17. ZombieIsTaken'
    <2>1. \A u \in Threads : call'[u].pc \in {"reap", "reaplocked"} =>
             /\ call'[u] = call[u]
             /\ \A d \in thr[u].kids : call[d].pc = "dead" => d \in thr'[u].kids /\ call'[d].pc = "dead"
        <3> SUFFICES ASSUME NEW u \in Threads, call'[u].pc \in {"reap", "reaplocked"}
                     PROVE  /\ call'[u] = call[u]
                            /\ \A d \in thr[u].kids :
                                  call[d].pc = "dead" => d \in thr'[u].kids /\ call'[d].pc = "dead"
            OBVIOUS
        <3>1. u # t /\ u # c BY <1>9, <1>10, InUserType
        <3>2. thr[u].kids \in SUBSET Threads /\ thr'[u].kids = thr[u].kids /\ c \notin thr[u].kids
            BY <3>1, <1>f, <1>10, <1>k DEF ThreadRecord
        <3>3. QED BY <3>1, <3>2, <1>10
    <2>2. QED BY <2>1, TakenKept
<1>18. LookedUp'
    <2>1. \A u \in Threads : call'[u].pc = "lookup" => u # t /\ u # c /\ call'[u] = call[u]
        BY <1>9, <1>10, InUserType
    <2>2. ASSUME NEW p \in Threads, thr[p].live, thr[p].kind # "thread",
                 call[p].pc = "destroyed" => grace[p] # {}
          PROVE  /\ thr'[p].live /\ thr'[p].kind # "thread"
                 /\ call'[p].pc = "destroyed" =>
                     \A u \in Threads :
                        (call'[u].pc = "lookup" /\ (call[p].pc = "destroyed" => u \in grace[p]))
                        => u \in grace'[p]
        <3>1. CASE p = c
            <4>1. ASSUME NEW u \in Threads, call'[u].pc = "lookup" PROVE u \in grace'[c]
                <5>1. call[u].pc = "lookup" BY <2>1, <4>1
                <5>2. Sound(u, thr[u], call[u], OwnReaper(u)) BY ThreadFacts
                <5>3. Runs(u) BY <5>1, <5>2 DEF Sound, OffCpu, Runs
                <5>4. QED BY <5>1, <5>3, <1>g, <1>f
            <4>2. QED BY <3>1, <4>1, <1>4, <1>7, <1>10
        <3>2. CASE p # c
            <4>1. call'[p].pc = "destroyed" => call[p].pc = "destroyed" BY <3>2, <1>10, InUserType
            <4>2. QED BY <2>2, <3>2, <4>1, <1>11, <1>13
        <3>3. QED BY <3>1, <3>2
    <2>3. QED BY <2>1, <2>2, LookedUpKept
<1>19. \A u, d \in Threads : d \in thr'[u].kids <=> d \in thr[u].kids /\ d # c
    <2> SUFFICES ASSUME NEW u \in Threads, NEW d \in Threads
                 PROVE  d \in thr'[u].kids <=> d \in thr[u].kids /\ d # c
        OBVIOUS
    <2>1. CASE u = t BY <2>1, <1>8, <1>10
    <2>2. CASE u = c BY <2>2, <1>5, <1>7, <1>10
    <2>3. CASE u # t /\ u # c BY <2>3, <1>10, <1>k
    <2>4. QED BY <2>1, <2>2, <2>3
<1>20. KidsAgree'
    <2> SUFFICES ASSUME NEW u \in Threads, NEW d \in thr'[u].kids
                 PROVE  thr'[d].live /\ thr'[d].kind # "thread" /\ thr'[d].parent = u
        BY DEF KidsAgree
    <2>1. d \in Threads BY <1>14 DEF ProcTypeOK, ThreadRecord
    <2>2. d \in thr[u].kids /\ d # c BY <2>1, <1>19
    <2>3. thr[d].live /\ thr[d].kind # "thread" /\ thr[d].parent = u BY <2>2 DEF CountInv, Families, KidsAgree
    <2>4. QED BY <2>1, <2>2, <2>3, <1>11
<1>21. FamilyAgrees'
    <2> SUFFICES ASSUME NEW d \in Threads, thr'[d].live, thr'[d].kind # "thread"
                 PROVE  /\ \A u \in Threads : d \in thr'[u].kids <=> thr'[d].parent = u
                        /\ thr'[d].parent # None => thr'[thr'[d].parent].live /\ thr'[thr'[d].parent].pid # 0
        BY DEF FamilyAgrees
    <2>1. CASE d = c
        <3>1. thr'[d].parent = None /\ None \notin Threads BY <2>1, <1>7, <1>10, Consts
        <3>2. \A u \in Threads : d \notin thr'[u].kids BY <2>1, <1>19
        <3>3. QED BY <3>1, <3>2
    <2>2. CASE d # c
        <3>0. thr[d].live /\ thr[d].kind # "thread" /\ thr'[d].parent = thr[d].parent BY <2>2, <1>11
        <3>1. /\ \A u \in Threads : d \in thr[u].kids <=> thr[d].parent = u
              /\ thr[d].parent # None => thr[thr[d].parent].live /\ thr[thr[d].parent].pid # 0
            BY <3>0 DEF CountInv, Families, FamilyAgrees
        <3>2. \A u \in Threads : d \in thr'[u].kids <=> d \in thr[u].kids BY <2>2, <1>19
        <3>3. thr[d].parent \in Threads \cup {None} BY <1>f DEF ThreadRecord
        <3>4. thr[d].parent # None => thr[d].parent \in Threads \ {c} BY <3>1, <3>3, <1>5
        <3>5. QED BY <3>0, <3>1, <3>2, <3>4, <1>11
    <2>3. QED BY <2>1, <2>2
<1>22. PidsAreExact'
    <2>1. c \in Registered /\ Registered' = Registered \ {c}
        <3>1. c \in Registered BY <1>4, <1>5 DEF Registered
        <3>2. ASSUME NEW u \in Threads
              PROVE  (thr'[u].live /\ thr'[u].pid # 0) <=> (u # c /\ thr[u].live /\ thr[u].pid # 0)
            <4>1. CASE u = c BY <4>1, <1>7, <1>10
            <4>2. CASE u # c BY <4>2, <1>11
            <4>3. QED BY <4>1, <4>2
        <3>3. QED BY <3>1, <3>2 DEF Registered
    <2>2. \A u \in Registered \ {c} : thr'[u].pid = thr[u].pid BY <1>11 DEF Registered
    <2>3. Reserving' = Reserving
        <3>1. ASSUME NEW u \in Threads
              PROVE  (Runs(u) /\ call[u].pc \in {"create", "attach"})
                        <=> (Runs(u)' /\ call'[u].pc \in {"create", "attach"})
            <4>1. CASE u = t BY <4>1, <1>10, InUserType
            <4>2. CASE u = c BY <4>2, <1>1, <1>9, <1>10
            <4>3. CASE u # t /\ u # c BY <4>3, <1>10 DEF Runs
            <4>4. QED BY <4>1, <4>2, <4>3
        <3>2. QED BY <3>1 DEF Reserving
    <2>4. QED BY <2>1, <2>2, <2>3, <1>6, PidsLeave
<1>23. QED BY <1>12, <1>14, <1>15, <1>16, <1>17, <1>18, <1>20, <1>21, <1>22 DEF CountInv, Places, Families, Counting

\* The two ways into the reaping: the lock upgraded, and taken again.
LEMMA WaitReapKeeps ==
    ASSUME CountInv, NEW t \in Threads, WaitReap(t) \/ WaitReapLocked(t)
    PROVE  CountInv'
<1>1. CASE WaitReap(t) /\ Reap(t, call[t].child)
    <2>1. Runs(t) /\ call[t].pc = "reap" /\ UNCHANGED nextpid /\ readers' = readers \ {t}
        BY <1>1 DEF WaitReap, At
    <2>2. readers' \in SUBSET Threads BY <2>1 DEF CountInv, ProcTypeOK
    <2>3. QED BY <1>1, <2>1, <2>2, ReapKeeps
<1>2. CASE WaitReap(t) /\ ~Reap(t, call[t].child) BY <1>2, WaitRelockKeeps DEF WaitReap
<1>3. CASE WaitReapLocked(t)
    <2>1. Runs(t) /\ call[t].pc = "reaplocked" /\ UNCHANGED <<nextpid, readers>> /\ Reap(t, call[t].child)
        BY <1>3 DEF WaitReapLocked, At
    <2>2. readers' \in SUBSET Threads BY <2>1 DEF CountInv, ProcTypeOK
    <2>3. QED BY <2>1, <2>2, ReapKeeps
<1>4. QED BY <1>1, <1>2, <1>3

-----------------------------------------------------------------------------
(* The invariant                                                            *)

\* userinit establishes it.
LEMMA InitCountInv ==
    ASSUME ProcessInit
    PROVE  CountInv
<1>1. PICK g \in Groups :
        /\ thr = [t \in Threads |-> IF t = initproc
                                    THEN [FreeThread EXCEPT !.live = TRUE, !.state = "RUNNING",
                                                            !.queued = TRUE, !.pid = 1, !.tg = g]
                                    ELSE FreeThread]
        /\ group = [h \in Groups |-> IF h = g THEN NewGroup(initproc, 1) ELSE FreeGroup]
        /\ call = [t \in Threads |-> InUser]
        /\ nextpid = 2 /\ allocated_cnt = 1
        /\ readers = {} /\ grace = [t \in Threads |-> {}]
    BY DEF ProcessInit
<1>i. initproc \in Threads /\ None \notin Threads /\ None \notin Groups BY Consts
<1> DEFINE r == [FreeThread EXCEPT !.live = TRUE, !.state = "RUNNING",
                                   !.queued = TRUE, !.pid = 1, !.tg = g]
<1>2. /\ thr[initproc] = r /\ (\A t \in Threads \ {initproc} : thr[t] = FreeThread)
      /\ group[g] = NewGroup(initproc, 1) /\ (\A h \in Groups \ {g} : group[h] = FreeGroup)
      /\ (\A t \in Threads : call[t] = InUser)
    BY <1>1, <1>i
<1>3. /\ r \in ThreadRecord /\ r.live = TRUE /\ r.state = "RUNNING" /\ r.queued = TRUE /\ r.pid = 1 /\ r.tg = g
      /\ r.kids = {} /\ r.parent = None /\ r.kind = "process"
    <2>0. r = [FreeThread EXCEPT !.live = TRUE, !.state = "RUNNING", !.queued = TRUE, !.pid = 1, !.tg = g] OBVIOUS
    <2> HIDE DEF r
    <2>1. r = [live |-> TRUE, state |-> "RUNNING", queued |-> TRUE, pid |-> 1, parent |-> None,
               kids |-> {}, tg |-> g, vfork |-> None, kind |-> "process", killed |-> FALSE]
        BY <2>0 DEF FreeThread
    <2>2. 1 \in 0 .. MAXPID - 1 BY Consts
    <2>3. r \in ThreadRecord BY <2>1, <2>2 DEF ThreadRecord, States, Kinds
    <2>4. QED BY <2>1, <2>3
<1>4. /\ NewGroup(initproc, 1) \in GroupRecord /\ NewGroup(initproc, 1).used /\ NewGroup(initproc, 1).leader = initproc
      /\ NewGroup(initproc, 1).live = 1 /\ NewGroup(initproc, 1).ref = 1 /\ NewGroup(initproc, 1).members = {initproc}
    BY <1>i DEF NewGroup, GroupRecord
<1>5. /\ FreeGroup \in GroupRecord /\ FreeGroup.used = FALSE /\ FreeGroup.members = {}
      /\ FreeGroup.live = 0
    BY DEF FreeGroup, GroupRecord
<1>t. ProcTypeOK
    <2>1. thr \in [Threads -> ThreadRecord] BY <1>1, <1>3, FreeThreadIs
    <2>2. group \in [Groups -> GroupRecord] BY <1>1, <1>4, <1>5
    <2>3. call \in [Threads -> CallRecord] BY <1>1, InUserType
    <2>4. nextpid \in Nat /\ nextpid >= 2 /\ (nextpid = 2 \/ nextpid < MAXPID) BY <1>1
    <2>5. allocated_cnt \in Int /\ allocated_cnt <= NR_THREAD BY <1>1, Consts
    <2>6. readers \in SUBSET Threads /\ grace \in [Threads -> SUBSET Threads] BY <1>1
    <2>7. QED BY <2>1, <2>2, <2>3, <2>4, <2>5, <2>6 DEF ProcTypeOK
<1> HIDE DEF r
<1>6. ThreadsSound
    <2> SUFFICES ASSUME NEW t \in Threads PROVE Sound(t, thr[t], call[t], OwnReaper(t)) BY DEF ThreadsSound
    <2>1. CASE t = initproc
        BY <1>2, <1>3, <2>1, <1>i, InUserType DEF Sound, OffCpu, PidIsBack, OwnWay, ZombieWay, Childless, Exiting
    <2>2. CASE t # initproc
        BY <1>2, <2>2, FreeThreadIs, InUserType DEF Sound, OffCpu, PidIsBack, OwnWay, ZombieWay, Childless, Exiting
    <2>3. QED BY <2>1, <2>2
<1>7. Places
    <2>1. \A t \in Threads : call[t].pc = "user" BY <1>2, InUserType
    <2>2. \A t \in Threads : ~Creates(t) BY <2>1 DEF Creates
    <2>3. ChildIsNew /\ OneCreator BY <2>2 DEF ChildIsNew, OneCreator
    <2>4. ZombieIsTaken /\ LookedUp BY <2>1 DEF ZombieIsTaken, LookedUp
    <2>5. QED BY <1>6, <2>3, <2>4 DEF Places
<1>8. Families
    <2>1. \A t \in Threads : thr[t].kids = {} /\ thr[t].parent = None BY <1>2, <1>3, FreeThreadIs
    <2>2. QED BY <2>1, <1>i DEF Families, KidsAgree, FamilyAgrees
<1>9. PidsAreExact
    <2>1. Registered = {initproc} BY <1>2, <1>3, <1>i, FreeThreadIs DEF Registered
    <2>2. Reserving = {} BY <1>2, InUserType DEF Reserving
    <2>3. Cardinality(Registered) = 1 /\ Cardinality(Reserving) = 0 BY <2>1, <2>2, FS_Singleton, FS_EmptySet
    <2>4. \A a, b \in Registered : a # b => thr[a].pid # thr[b].pid BY <2>1
    <2>5. allocated_cnt = Cardinality(Registered) + Cardinality(Reserving) BY <2>3, <1>1
    <2>6. QED BY <2>4, <2>5 DEF PidsAreExact, Reserving
<1>10. Members
    <2> SUFFICES ASSUME NEW h \in Groups, NEW u \in Threads
                 PROVE  u \in group[h].members <=> thr[u].live /\ thr[u].tg = h /\ ~Left(call[u], OwnReaper(u))
        BY DEF Members
    <2>0. ~Left(call[u], OwnReaper(u)) BY <1>2, InUserType DEF Left
    <2>1. CASE u = initproc
        <3>1. CASE h = g BY <2>0, <2>1, <3>1, <1>2, <1>3, <1>4
        <3>2. CASE h # g BY <2>1, <3>2, <1>2, <1>3, <1>5
        <3>3. QED BY <3>1, <3>2
    <2>2. CASE u # initproc
        <3>1. ~thr[u].live BY <2>2, <1>2, FreeThreadIs
        <3>2. u \notin group[h].members BY <2>2, <1>2, <1>4, <1>5
        <3>3. QED BY <3>1, <3>2
    <2>3. QED BY <2>1, <2>2
<1>11. UnusedGroups BY <1>2, <1>4, <1>5, <1>i DEF UnusedGroups
<1>12. GroupsCount
    <2> SUFFICES ASSUME NEW h \in Groups
                 PROVE  /\ group[h].used <=> Refs(h) # {}
                        /\ group[h].used => group[h].ref = Cardinality(Refs(h))
                        /\ group[h].live = Cardinality(group[h].members)
        BY DEF GroupsCount
    <2>1. CASE h = g
        <3>1. Refs(h) = {initproc} BY <2>1, <1>2, <1>3, <1>i, FreeThreadIs DEF Refs
        <3>2. Cardinality({initproc}) = 1 BY FS_Singleton
        <3>3. group[h].used /\ group[h].ref = 1 /\ group[h].live = 1 /\ group[h].members = {initproc}
            BY <2>1, <1>2, <1>4
        <3>4. QED BY <3>1, <3>2, <3>3
    <2>2. CASE h # g
        <3>1. Refs(h) = {} BY <2>2, <1>2, <1>3, <1>i, FreeThreadIs DEF Refs
        <3>2. Cardinality({}) = 0 BY FS_EmptySet
        <3>3. ~group[h].used /\ group[h].live = 0 /\ group[h].members = {} BY <2>2, <1>2, <1>5
        <3>4. QED BY <3>1, <3>2, <3>3
    <2>3. QED BY <2>1, <2>2
<1>13. QED BY <1>t, <1>7, <1>8, <1>9, <1>10, <1>11, <1>12 DEF CountInv, Counting

\* Every step of the processes keeps it.
LEMMA ProcessStep ==
    ASSUME CountInv, ProcessNext
    PROVE  CountInv'
<1>1. CASE \E g \in Groups : KillGroup(g) BY <1>1, KillGroupKeeps
<1>2. CASE \E t \in Threads :
            \/ \E kind \in CloneKinds : CloneReserve(t, kind)
            \/ CloneCreate(t) \/ CloneFail(t) \/ CloneAttach(t) \/ KthreadGroup(t) \/ CloneStart(t)
            \/ VforkYield(t) \/ Exec(t)
    BY <1>2, CloneReserveKeeps, CloneCreateKeeps, CloneFailKeeps, CloneAttachKeeps, KthreadGroupKeeps,
       CloneStartKeeps, VforkYieldKeeps, ExecKeeps
<1>3. CASE \E t \in Threads :
            \/ ExitCall(t) \/ ExitLeave(t) \/ ExitReparent(t) \/ ExitWakeInit(t) \/ ExitRemove(t)
            \/ ExitLastOut(t) \/ ExitZombie(t) \/ ExitReadParent(t) \/ ExitNotify(t)
            \/ ExitRelease(t) \/ SelfReap(t) \/ ExitSwitch(t)
    BY <1>3, ExitCallKeeps, ExitLeaveKeeps, ExitReparentKeeps, ExitWakeInitKeeps, ExitRemoveKeeps,
       ExitLastOutKeeps, ExitZombieKeeps, ExitReadParentKeeps, ExitNotifyKeeps, ExitReleaseKeeps,
       SelfReapKeeps, ExitSwitchKeeps
<1>4. CASE \E t \in Threads :
            \/ WaitPrepare(t) \/ WaitNone(t) \/ WaitSleep(t) \/ WaitReap(t)
            \/ WaitReapLocked(t)
            \/ GroupExitCall(t) \/ GroupExitKill(t) \/ LookupDone(t) \/ RcuFree(t)
            \/ \E c \in Threads : WaitFind(t, c) \/ WaitSpin(t, c) \/ Lookup(t, c)
    BY <1>4, WaitPrepareKeeps, WaitNoneKeeps, WaitSleepKeeps, WaitReapKeeps, GroupExitCallKeeps,
       GroupExitKillKeeps, LookupDoneKeeps, RcuFreeKeeps, WaitFindKeeps, WaitSpinKeeps, LookupKeeps
<1>5. QED BY <1>1, <1>2, <1>3, <1>4 DEF ProcessNext

\* The other parts of MCProcess leave the processes alone.
LEMMA ProcessStays ==
    ASSUME CountInv, UNCHANGED procVars
    PROVE  CountInv'
<1>u. UNCHANGED <<thr, group, call, nextpid, allocated_cnt, readers, grace>> BY DEF procVars
<1>1. \A t \in Threads : OwnReaper(t)' <=> OwnReaper(t) BY <1>u DEF OwnReaper
<1>2. ProcTypeOK' BY <1>u DEF CountInv, ProcTypeOK
<1>3. Places'
    <2>1. ThreadsSound' BY <1>u, <1>1 DEF CountInv, Places, ThreadsSound, Sound
    <2>2. ChildIsNew' /\ OneCreator' BY <1>u DEF CountInv, Places, ChildIsNew, OneCreator, Creates
    <2>3. ZombieIsTaken' /\ LookedUp' BY <1>u DEF CountInv, Places, ZombieIsTaken, LookedUp
    <2>4. QED BY <2>1, <2>2, <2>3 DEF Places
<1>4. Families' BY <1>u DEF CountInv, Families, KidsAgree, FamilyAgrees
<1>5. PidsAreExact'
    <2>1. Registered' = Registered /\ Reserving' = Reserving BY <1>u DEF Registered, Reserving, Runs
    <2>2. QED BY <2>1, <1>u, PidsSame
<1>6. GroupsCount' /\ UnusedGroups' /\ Members' BY <1>u, GroupsStay
<1>7. QED BY <1>2, <1>3, <1>4, <1>5, <1>6 DEF CountInv, Counting

\* What the property says follows from the invariant.
LEMMA Counted ==
    ASSUME CountInv
    PROVE  PidsAreExact /\ GroupsAreExact /\ FamilyAgrees /\ LookupIsSafe
<1>1. PidsAreExact /\ FamilyAgrees BY DEF CountInv, Counting, Families
<1>2. LookupIsSafe BY DEF CountInv, Places, LookedUp, LookupIsSafe
<1>3. GroupsAreExact
    <2>1. ASSUME NEW g \in Groups, NEW t \in group[g].members
          PROVE  thr[t].live /\ thr[t].state # "ZOMBIE" /\ thr[t].tg = g
        <3>1. t \in Threads BY DEF CountInv, ProcTypeOK, GroupRecord
        <3>2. thr[t].live /\ thr[t].tg = g /\ ~Left(call[t], OwnReaper(t)) BY <3>1 DEF CountInv, Counting, Members
        <3>3. Sound(t, thr[t], call[t], OwnReaper(t)) BY <3>1, ThreadFacts
        <3>4. call[t].pc # "destroyed" BY <3>2, <3>3, Consts DEF Sound
        <3>5. QED BY <3>2, <3>3, <3>4 DEF Sound, Left
    <2>2. QED BY <2>1 DEF CountInv, Counting, GroupsCount, GroupsAreExact, Refs
<1>4. QED BY <1>1, <1>2, <1>3

\* Pids, slots and groups are given back once, whoever fails, exits or reaps, parents
\* and children agree, and a thread found by its pid lives as long as the reader looks
\* at it: for any number of threads, groups and pids.
THEOREM ThreadsAreCountedAlways == ProcSpec => []ThreadsAreCounted
<1>1. ProcInit => CountInv BY InitCountInv DEF ProcInit
<1>2. CountInv /\ [ProcNext]_all => CountInv'
    <2> SUFFICES ASSUME CountInv, [ProcNext]_all PROVE CountInv' OBVIOUS
    <2>1. ProcessNext \/ UNCHANGED procVars BY DEF ProcNext, all
    <2>2. QED BY <2>1, ProcessStep, ProcessStays
<1>3. CountInv => ThreadsAreCounted BY Counted DEF ThreadsAreCounted
<1>4. QED BY <1>1, <1>2, <1>3, PTL DEF ProcSpec

-----------------------------------------------------------------------------
(* Nobody sleeps past what it waits for.                                    *)

\* Where a thread may say that it sleeps in wait(), and where it has let its creator go.
Waiting == {"scan", "sleep", "wait"}
Gone == Exiting \cup {"destroyed"}
\* Record r and call k of a thread: past its scan of the children and not woken since;
\* a zombie that was the last of its group; the caller of vfork, not released yet.
Asleep(r, k) == r.state = "INTERRUPTIBLE" /\ k.pc \in {"sleep", "wait"}
Fallen(r, k) == r.state = "ZOMBIE" /\ k.last
Owed(r, k) == /\ r.state = "UNINTERRUPTIBLE"
              /\ \/ k.pc \in {"attach", "group", "start"} /\ k.kind = "vfork"
                 \/ k.pc = "vfork"
                 \/ k.pc = "user" /\ ~r.queued

\* Somebody is about to wake t because its child c is a zombie.
Telling(t, c) ==
    \/ call[c].pc = "readparent"
    \/ call[c].pc = "notify" /\ call[c].child = t
    \/ t = initproc /\ \E u \in Threads : call[u].pc = "wakeinit"

Interruptible == \A t \in Threads : thr[t].state = "INTERRUPTIBLE" => call[t].pc \in Waiting
VforkGone == \A t \in Threads : call[t].pc \in Gone => thr[t].vfork = None
Told ==
    \A t \in Threads : Asleep(thr[t], call[t]) =>
        \A c \in thr[t].kids : Fallen(thr[c], call[c]) => Telling(t, c)
VforkOwing ==
    \A t \in Threads : Owed(thr[t], call[t]) => \E c \in Threads : thr[c].live /\ thr[c].vfork = t
SleepInv == Interruptible /\ VforkGone /\ Told /\ VforkOwing

\* A thread whose record and call go from r and k to q and l: by itself, for those who
\* wait for it or tell, and for the callers of vfork.
CalmSelf(q, l) ==
    /\ q.state = "INTERRUPTIBLE" => l.pc \in Waiting
    /\ l.pc \in Gone => q.vfork = None
CalmTold(r, k, q, l) ==
    /\ Asleep(q, l) => Asleep(r, k)
    /\ Fallen(q, l) /\ q.kind # "thread" => Fallen(r, k) \/ l.pc = "readparent"
    /\ k.pc \in {"readparent", "notify", "wakeinit"} => l = k
CalmOwe(r, k, q, l) ==
    /\ Owed(q, l) => Owed(r, k)
    /\ r.live /\ r.vfork # None => q.live /\ q.vfork = r.vfork
Calm(r, k, q, l) == CalmSelf(q, l) /\ CalmTold(r, k, q, l) /\ CalmOwe(r, k, q, l)

\* The invariant at one thread.
LEMMA SleepFacts ==
    ASSUME SleepInv, NEW t \in Threads
    PROVE  CalmSelf(thr[t], call[t])
BY DEF SleepInv, Interruptible, VforkGone, CalmSelf

\* What a thread says of itself.
LEMMA SelfKept ==
    ASSUME \A u \in Threads : CalmSelf(thr'[u], call'[u])
    PROVE  Interruptible' /\ VforkGone'
BY DEF Interruptible, VforkGone, CalmSelf

\* A parent asleep in wait() is still told of its zombies when none is new and nobody who
\* tells it stops.
LEMMA TellKept ==
    ASSUME CountInv', Told, NEW S \in SUBSET Threads,
           \A u \in S : Asleep(thr'[u], call'[u]) => Asleep(thr[u], call[u]),
           \A c \in Threads : Fallen(thr'[c], call'[c]) /\ thr'[c].kind # "thread" =>
               Fallen(thr[c], call[c]) \/ call'[c].pc = "readparent",
           \A u \in S : \A c \in thr'[u].kids : c \in thr[u].kids \/ thr'[c].state # "ZOMBIE",
           \A u \in S : \A c \in Threads :
               /\ Asleep(thr'[u], call'[u]) /\ Fallen(thr'[c], call'[c])
               /\ c \in thr[u].kids /\ Telling(u, c)
               => Telling(u, c)'
    PROVE  \A t \in S : Asleep(thr'[t], call'[t]) =>
                \A c \in thr'[t].kids : Fallen(thr'[c], call'[c]) => Telling(t, c)'
<1> SUFFICES ASSUME NEW t \in S, Asleep(thr'[t], call'[t]), NEW c \in thr'[t].kids,
                    Fallen(thr'[c], call'[c])
             PROVE  Telling(t, c)'
    OBVIOUS
<1>1. c \in Threads /\ thr'[c].kind # "thread"
    BY DEF CountInv, ProcTypeOK, ThreadRecord, Families, KidsAgree
<1>2. c \in thr[t].kids BY DEF Fallen
<1>3. Asleep(thr[t], call[t]) OBVIOUS
<1>4. Fallen(thr[c], call[c]) \/ call'[c].pc = "readparent" BY <1>1
<1>5. CASE call'[c].pc = "readparent" BY <1>5 DEF Telling
<1>6. CASE Fallen(thr[c], call[c])
    <2>1. Telling(t, c) BY <1>2, <1>3, <1>6 DEF Told
    <2>2. QED BY <1>1, <1>2, <2>1
<1>7. QED BY <1>4, <1>5, <1>6

\* The same when the step is calm for everybody.
LEMMA ToldKept ==
    ASSUME CountInv', Told,
           \A u \in Threads : CalmTold(thr[u], call[u], thr'[u], call'[u]),
           \A u \in Threads : \A c \in thr'[u].kids : c \in thr[u].kids \/ thr'[c].state # "ZOMBIE"
    PROVE  Told'
<1>1. ASSUME NEW t \in Threads, NEW c \in Threads, Telling(t, c) PROVE Telling(t, c)'
    <2>1. CASE call[c].pc = "readparent" \/ (call[c].pc = "notify" /\ call[c].child = t)
        <3>1. call'[c] = call[c] BY <2>1 DEF CalmTold
        <3>2. QED BY <2>1, <3>1 DEF Telling
    <2>2. CASE t = initproc /\ \E u \in Threads : call[u].pc = "wakeinit"
        <3>1. \E u \in Threads : call'[u].pc = "wakeinit" BY <2>2 DEF CalmTold
        <3>2. QED BY <2>2, <3>1 DEF Telling
    <2>3. QED BY <1>1, <2>1, <2>2 DEF Telling
<1>2. \A t \in Threads : Asleep(thr'[t], call'[t]) =>
                \A c \in thr'[t].kids : Fallen(thr'[c], call'[c]) => Telling(t, c)'
    <2>1. \A u \in Threads : Asleep(thr'[u], call'[u]) => Asleep(thr[u], call[u]) BY DEF CalmTold
    <2>2. \A c \in Threads : Fallen(thr'[c], call'[c]) /\ thr'[c].kind # "thread" =>
               Fallen(thr[c], call[c]) \/ call'[c].pc = "readparent"
        BY DEF CalmTold
    <2>3. QED BY <1>1, <2>1, <2>2, TellKept
<1>3. QED BY <1>2 DEF Told

\* The caller of vfork still has the child that owes it the wakeup.
LEMMA OweKept ==
    ASSUME VforkOwing, \A u \in Threads : CalmOwe(thr[u], call[u], thr'[u], call'[u])
    PROVE  VforkOwing'
<1> SUFFICES ASSUME NEW t \in Threads, Owed(thr'[t], call'[t])
             PROVE  \E c \in Threads : thr'[c].live /\ thr'[c].vfork = t
    BY DEF VforkOwing
<1>1. Owed(thr[t], call[t]) BY DEF CalmOwe
<1>2. PICK c \in Threads : thr[c].live /\ thr[c].vfork = t BY <1>1 DEF VforkOwing
<1>3. thr[c].vfork # None BY <1>2, Consts
<1>4. QED BY <1>2, <1>3 DEF CalmOwe

\* A step that is calm for every thread.
LEMMA CalmStep ==
    ASSUME CountInv', SleepInv,
           \A u \in Threads : Calm(thr[u], call[u], thr'[u], call'[u]),
           \A u \in Threads : \A c \in thr'[u].kids : c \in thr[u].kids \/ thr'[c].state # "ZOMBIE"
    PROVE  SleepInv'
<1>1. Interruptible' /\ VforkGone' BY SelfKept DEF Calm
<1>2. Told' BY ToldKept DEF Calm, SleepInv
<1>3. VforkOwing' BY OweKept DEF Calm, SleepInv
<1>4. QED BY <1>1, <1>2, <1>3 DEF SleepInv

\* The records of threads that do not run: at most woken.
Wakes(r, q) == /\ q.live = r.live /\ q.kids = r.kids /\ q.kind = r.kind /\ q.vfork = r.vfork
               /\ q.state = r.state \/ q.state = "RUNNING"
               /\ r.queued => q.queued

\* Nothing changes, or others wake the thread: calm.
LEMMA CalmWakes ==
    ASSUME SleepInv, NEW u \in Threads, NEW q, Wakes(thr[u], q)
    PROVE  Calm(thr[u], call[u], q, call[u])
<1>1. CalmSelf(thr[u], call[u]) BY SleepFacts
<1>2. CalmSelf(q, call[u]) BY <1>1 DEF CalmSelf, Wakes
<1>3. CalmTold(thr[u], call[u], q, call[u]) BY DEF CalmTold, Wakes, Asleep, Fallen
<1>4. CalmOwe(thr[u], call[u], q, call[u]) BY DEF CalmOwe, Wakes, Owed
<1>5. QED BY <1>2, <1>3, <1>4 DEF Calm

\* A record that is not changed.
LEMMA WakesRefl == ASSUME NEW r PROVE Wakes(r, r)
BY DEF Wakes

\* Only t's record and call change.
LEMMA OwnCalm ==
    ASSUME CountInv, CountInv', SleepInv, NEW t \in Threads, NEW r, NEW k,
           thr' = [thr EXCEPT ![t] = r], call' = [call EXCEPT ![t] = k],
           Calm(thr[t], call[t], r, k), r.kids \subseteq thr[t].kids
    PROVE  SleepInv'
<1>f. thr \in [Threads -> ThreadRecord] /\ call \in [Threads -> CallRecord] BY ThreadFacts
<1>1. thr'[t] = r /\ call'[t] = k /\ \A u \in Threads \ {t} : thr'[u] = thr[u] /\ call'[u] = call[u]
    BY <1>f
<1>2. \A u \in Threads : Calm(thr[u], call[u], thr'[u], call'[u]) BY <1>1, CalmWakes, WakesRefl
<1>3. \A u \in Threads : \A c \in thr'[u].kids : c \in thr[u].kids BY <1>1
<1>4. QED BY <1>2, <1>3, CalmStep

\* t moves, and others are woken.
LEMMA WakeCalm ==
    ASSUME CountInv, CountInv', SleepInv, NEW t \in Threads, NEW k,
           \A u \in Threads : Wakes(thr[u], thr'[u]), call' = [call EXCEPT ![t] = k],
           Calm(thr[t], call[t], thr'[t], k)
    PROVE  SleepInv'
<1>f. call \in [Threads -> CallRecord] BY ThreadFacts
<1>1. call'[t] = k /\ \A u \in Threads \ {t} : call'[u] = call[u] BY <1>f
<1>2. \A u \in Threads : Calm(thr[u], call[u], thr'[u], call'[u]) BY <1>1, CalmWakes
<1>3. \A u \in Threads : \A c \in thr'[u].kids : c \in thr[u].kids BY DEF Wakes
<1>4. QED BY <1>2, <1>3, CalmStep

-----------------------------------------------------------------------------
(* The actions that are calm                                                *)

\* clone: a slot is reserved.
LEMMA CloneReserveCalm ==
    ASSUME CountInv, CountInv', SleepInv, NEW t \in Threads, NEW kind \in CloneKinds, CloneReserve(t, kind)
    PROVE  SleepInv'
<1> DEFINE k == [call[t] EXCEPT !.pc = "create", !.kind = kind]
<1>f. /\ thr[t] \in ThreadRecord /\ call[t] \in CallRecord /\ Sound(t, thr[t], call[t], OwnReaper(t))
      /\ thr \in [Threads -> ThreadRecord] /\ CalmSelf(thr[t], call[t])
    BY ThreadFacts, SleepFacts
<1>1. /\ call[t].pc = "user" /\ thr' = [thr EXCEPT ![t] = thr[t]] /\ call' = [call EXCEPT ![t] = k]
    BY <1>f DEF CloneReserve, MayCall, At
<1>2. k.pc = "create" BY <1>f DEF CallRecord
<1> HIDE DEF k
<1>3. Calm(thr[t], call[t], thr[t], k)
    BY <1>f, <1>1, <1>2 DEF Calm, CalmSelf, CalmTold, CalmOwe, Waiting, Gone, Exiting, Asleep, Fallen, Owed, Sound
<1>4. QED BY <1>1, <1>3, OwnCalm

\* A look-up by pid, and its end.
LEMMA LookupCalm ==
    ASSUME CountInv, CountInv', SleepInv, NEW t \in Threads,
           LookupDone(t) \/ \E p \in Threads : Lookup(t, p)
    PROVE  SleepInv'
<1>f. /\ thr[t] \in ThreadRecord /\ call[t] \in CallRecord /\ Sound(t, thr[t], call[t], OwnReaper(t))
      /\ thr \in [Threads -> ThreadRecord] /\ CalmSelf(thr[t], call[t])
    BY ThreadFacts, SleepFacts
<1>0. thr' = [thr EXCEPT ![t] = thr[t]] BY <1>f DEF Lookup, LookupDone
<1>1. CASE LookupDone(t)
    <2>1. thr[t].queued /\ call[t].pc = "lookup" /\ call' = [call EXCEPT ![t] = InUser] BY <1>1 DEF LookupDone, At, Runs
    <2>2. Calm(thr[t], call[t], thr[t], InUser)
        BY <1>f, <2>1, InUserType DEF Calm, CalmSelf, CalmTold, CalmOwe, Waiting, Gone, Exiting, Asleep, Fallen, Owed, Sound
    <2>3. QED BY <1>0, <2>1, <2>2, OwnCalm
<1>2. CASE \E p \in Threads : Lookup(t, p)
    <2>1. PICK p \in Threads : Lookup(t, p) BY <1>2
    <2> DEFINE k == [call[t] EXCEPT !.pc = "lookup", !.child = p, !.kind = thr[p].kind]
    <2>2. call[t].pc = "user" /\ call' = [call EXCEPT ![t] = k] BY <2>1 DEF Lookup, MayCall, At
    <2>3. k.pc = "lookup" BY <1>f DEF CallRecord
    <2> HIDE DEF k
    <2>4. Calm(thr[t], call[t], thr[t], k)
        BY <1>f, <2>2, <2>3 DEF Calm, CalmSelf, CalmTold, CalmOwe, Waiting, Gone, Exiting, Asleep, Fallen, Owed, Sound
    <2>5. QED BY <1>0, <2>2, <2>4, OwnCalm
<1>3. QED BY <1>1, <1>2

\* The caller of vfork yields.
LEMMA VforkYieldCalm ==
    ASSUME CountInv, CountInv', SleepInv, NEW t \in Threads, VforkYield(t)
    PROVE  SleepInv'
<1> DEFINE r == [thr[t] EXCEPT !.queued = ~Sleeping(thr[t].state)]
<1>f. /\ thr[t] \in ThreadRecord /\ call[t] \in CallRecord /\ Sound(t, thr[t], call[t], OwnReaper(t))
      /\ CalmSelf(thr[t], call[t])
    BY ThreadFacts, SleepFacts
<1>1. /\ thr[t].queued /\ call[t].pc = "vfork"
      /\ thr' = [thr EXCEPT ![t] = r] /\ call' = [call EXCEPT ![t] = InUser]
    BY DEF VforkYield, At, Runs, Yield
<1>2. (~Sleeping(thr[t].state)) \in BOOLEAN BY DEF Sleeping
<1>3. Same(thr[t], r) /\ r.state = thr[t].state /\ r.vfork = thr[t].vfork BY <1>f, <1>2, QueuedField
<1> HIDE DEF r
<1>4. Calm(thr[t], call[t], r, InUser)
    BY <1>f, <1>1, <1>3, InUserType
       DEF Calm, CalmSelf, CalmTold, CalmOwe, Waiting, Gone, Exiting, Asleep, Fallen, Owed, Sound, Same
<1>5. r.kids \subseteq thr[t].kids BY <1>3 DEF Same
<1>6. QED BY <1>1, <1>4, <1>5, OwnCalm

\* exit: the thread leaves its group.
LEMMA ExitLeaveCalm ==
    ASSUME CountInv, CountInv', SleepInv, NEW t \in Threads, ExitLeave(t)
    PROVE  SleepInv'
<1>f. /\ thr[t] \in ThreadRecord /\ call[t] \in CallRecord /\ Sound(t, thr[t], call[t], OwnReaper(t))
      /\ thr \in [Threads -> ThreadRecord] /\ CalmSelf(thr[t], call[t])
    BY ThreadFacts, SleepFacts
<1> DEFINE x == IF thr[t].tg = None THEN TRUE ELSE group[thr[t].tg].live <= 1
           k == [call[t] EXCEPT !.pc = "reparent", !.last = x]
<1>1. call[t].pc = "leave" /\ thr' = [thr EXCEPT ![t] = thr[t]] /\ call' = [call EXCEPT ![t] = k]
    BY <1>f DEF ExitLeave, At
<1>2. k.pc = "reparent" BY <1>f DEF CallRecord
<1> HIDE DEF k
<1>3. Calm(thr[t], call[t], thr[t], k)
    BY <1>f, <1>1, <1>2 DEF Calm, CalmSelf, CalmTold, CalmOwe, Waiting, Gone, Exiting, Asleep, Fallen, Owed, Sound
<1>4. QED BY <1>1, <1>3, OwnCalm

\* exit: a thread that reaps itself gives back its pid.
LEMMA ExitRemoveCalm ==
    ASSUME CountInv, CountInv', SleepInv, NEW t \in Threads, ExitRemove(t)
    PROVE  SleepInv'
<1>f. /\ thr[t] \in ThreadRecord /\ call[t] \in CallRecord /\ Sound(t, thr[t], call[t], OwnReaper(t))
      /\ call \in [Threads -> CallRecord] /\ CalmSelf(thr[t], call[t])
    BY ThreadFacts, SleepFacts
<1> DEFINE x == IF group[thr[t].tg].live <= 1 THEN "lastout" ELSE "release"
           r == [thr[t] EXCEPT !.pid = 0]
<1>1. call[t].pc = "remove" /\ thr' = [thr EXCEPT ![t] = r] /\ Then(t, x) BY DEF ExitRemove, At
<1>2. PICK k \in CallRecord : call' = [call EXCEPT ![t] = k] /\ k.pc = x BY <1>f, <1>1, ThenIs DEF Pcs
<1>3. k.pc \in {"lastout", "release"} BY <1>2
<1>4. r.live = thr[t].live BY <1>f DEF ThreadRecord
<1>5. r.state = thr[t].state /\ r.vfork = thr[t].vfork /\ r.kids = thr[t].kids /\ r.kind = thr[t].kind
    BY <1>f DEF ThreadRecord
<1> HIDE DEF r
<1>6. Calm(thr[t], call[t], r, k)
    BY <1>f, <1>1, <1>3, <1>4, <1>5 DEF Calm, CalmSelf, CalmTold, CalmOwe, Waiting, Gone, Exiting, Asleep, Fallen, Owed, Sound
<1>7. QED BY <1>1, <1>2, <1>5, <1>6, OwnCalm

\* exit: the last thread reads its leader's parent.
LEMMA ExitLastOutCalm ==
    ASSUME CountInv, CountInv', SleepInv, NEW t \in Threads, ExitLastOut(t)
    PROVE  SleepInv'
<1>f. /\ thr[t] \in ThreadRecord /\ call[t] \in CallRecord /\ Sound(t, thr[t], call[t], OwnReaper(t))
      /\ thr \in [Threads -> ThreadRecord] /\ CalmSelf(thr[t], call[t])
    BY ThreadFacts, SleepFacts
<1>1. call[t].pc = "lastout" /\ thr' = [thr EXCEPT ![t] = thr[t]] BY <1>f DEF ExitLastOut, At
<1>2. \E p : call' = [call EXCEPT ![t].pc = "notify", ![t].child = p, ![t].kind = "release"]
    BY DEF ExitLastOut
<1>3. PICK p : call' = [call EXCEPT ![t].pc = "notify", ![t].child = p, ![t].kind = "release"] BY <1>2
<1> DEFINE k == [call[t] EXCEPT !.pc = "notify", !.child = p, !.kind = "release"]
<1>4. call' = [call EXCEPT ![t] = k] BY <1>3, ThreadFacts
<1>5. k.pc = "notify" BY <1>f DEF CallRecord
<1> HIDE DEF k
<1>6. Calm(thr[t], call[t], thr[t], k)
    BY <1>f, <1>1, <1>5 DEF Calm, CalmSelf, CalmTold, CalmOwe, Waiting, Gone, Exiting, Asleep, Fallen, Owed, Sound
<1>7. QED BY <1>1, <1>4, <1>6, OwnCalm

\* exit: the state becomes ZOMBIE, and the thread is about to read its parent.
LEMMA ExitZombieCalm ==
    ASSUME CountInv, CountInv', SleepInv, NEW t \in Threads, ExitZombie(t)
    PROVE  SleepInv'
<1> DEFINE r == [thr[t] EXCEPT !.state = "ZOMBIE"]
<1>f. /\ thr[t] \in ThreadRecord /\ call \in [Threads -> CallRecord] /\ CalmSelf(thr[t], call[t])
    BY ThreadFacts, SleepFacts
<1>1. call[t].pc = "zombie" /\ thr' = [thr EXCEPT ![t] = r] /\ Then(t, "readparent") BY DEF ExitZombie, At
<1>2. PICK k \in CallRecord : call' = [call EXCEPT ![t] = k] /\ k.pc = "readparent" BY <1>f, <1>1, ThenIs DEF Pcs
<1>3. Same(thr[t], r) /\ r.state = "ZOMBIE" /\ r.vfork = thr[t].vfork BY <1>f, StateField DEF States
<1> HIDE DEF r
<1>4. Calm(thr[t], call[t], r, k)
    BY <1>f, <1>1, <1>2, <1>3 DEF Calm, CalmSelf, CalmTold, CalmOwe, Waiting, Gone, Exiting, Asleep, Fallen, Owed, Same
<1>5. r.kids \subseteq thr[t].kids BY <1>3 DEF Same
<1>6. QED BY <1>1, <1>2, <1>4, <1>5, OwnCalm

\* exit: a thread that reaps itself, which is on nobody's list of children, becomes a zombie.
LEMMA ExitReleaseCalm ==
    ASSUME CountInv, CountInv', SleepInv, NEW t \in Threads, ExitRelease(t)
    PROVE  SleepInv'
<1> DEFINE r == [thr[t] EXCEPT !.tg = None, !.state = "ZOMBIE"]
<1>f. /\ thr[t] \in ThreadRecord /\ call \in [Threads -> CallRecord] /\ CalmSelf(thr[t], call[t])
      /\ Sound(t, thr[t], call[t], OwnReaper(t)) /\ thr \in [Threads -> ThreadRecord]
    BY ThreadFacts, SleepFacts
<1>1. call[t].pc = "release" /\ thr' = [thr EXCEPT ![t] = r] /\ Then(t, "selfreap")
    BY <1>f DEF ExitRelease, At
<1>2. PICK k \in CallRecord : call' = [call EXCEPT ![t] = k] /\ k.pc = "selfreap" BY <1>f, <1>1, ThenIs DEF Pcs
<1>3. r.live = thr[t].live BY <1>f DEF ThreadRecord
<1>4. r.state = "ZOMBIE" /\ r.vfork = thr[t].vfork /\ r.kids = thr[t].kids /\ r.kind = thr[t].kind
    BY <1>f DEF ThreadRecord
<1> HIDE DEF r
<1>5. thr[t].kind = "thread" BY <1>f, <1>1 DEF Sound, OwnWay, OwnReaper
<1>6. Calm(thr[t], call[t], r, k)
    BY <1>f, <1>1, <1>2, <1>3, <1>4, <1>5 DEF Calm, CalmSelf, CalmTold, CalmOwe, Waiting, Gone, Exiting, Asleep, Fallen, Owed
<1>7. QED BY <1>1, <1>2, <1>4, <1>6, OwnCalm

\* A page is freed, by the thread itself or by the RCU callback.
LEMMA FreedCalm ==
    ASSUME CountInv, CountInv', SleepInv, NEW t \in Threads, SelfReap(t) \/ RcuFree(t)
    PROVE  SleepInv'
<1>f. CalmSelf(thr[t], call[t]) BY SleepFacts
<1>1. /\ call[t].pc \in {"selfreap", "destroyed"}
      /\ thr' = [thr EXCEPT ![t] = FreeThread] /\ call' = [call EXCEPT ![t] = InUser]
    BY DEF SelfReap, RcuFree, At
<1>2. Calm(thr[t], call[t], FreeThread, InUser)
    BY <1>f, <1>1, FreeThreadIs, InUserType
       DEF Calm, CalmSelf, CalmTold, CalmOwe, Waiting, Gone, Exiting, Asleep, Fallen, Owed
<1>3. QED BY <1>1, <1>2, FreeThreadIs, OwnCalm

\* exit: the zombie leaves its CPU.
LEMMA ExitSwitchCalm ==
    ASSUME CountInv, CountInv', SleepInv, NEW t \in Threads, ExitSwitch(t)
    PROVE  SleepInv'
<1> DEFINE r == [thr[t] EXCEPT !.queued = FALSE]
<1>f. /\ thr[t] \in ThreadRecord /\ call \in [Threads -> CallRecord] /\ CalmSelf(thr[t], call[t])
    BY ThreadFacts, SleepFacts
<1>1. call[t].pc = "switch" /\ thr' = [thr EXCEPT ![t] = r] /\ Then(t, "dead") BY DEF ExitSwitch, At
<1>2. PICK k \in CallRecord : call' = [call EXCEPT ![t] = k] /\ k.pc = "dead" /\ k.last = call[t].last
    BY <1>f, <1>1, ThenIs DEF Pcs
<1>3. Same(thr[t], r) /\ r.state = thr[t].state /\ r.vfork = thr[t].vfork BY <1>f, QueuedField
<1> HIDE DEF r
<1>4. Calm(thr[t], call[t], r, k)
    BY <1>f, <1>1, <1>2, <1>3 DEF Calm, CalmSelf, CalmTold, CalmOwe, Waiting, Gone, Exiting, Asleep, Fallen, Owed, Same
<1>5. r.kids \subseteq thr[t].kids BY <1>3 DEF Same
<1>6. QED BY <1>1, <1>2, <1>4, <1>5, OwnCalm

\* wait: before and after the scan t's state changes, but it does not sleep yet.
LEMMA WaitCalm ==
    ASSUME CountInv, CountInv', SleepInv, NEW t \in Threads, NEW x \in {"INTERRUPTIBLE", "RUNNING"},
           NEW k \in CallRecord, call[t].pc \in {"user", "wait", "scan"},
           thr' = [thr EXCEPT ![t].state = x], call' = [call EXCEPT ![t] = k],
           k.pc \in {"scan", "reap", "wait"}, x = "INTERRUPTIBLE" => k.pc = "scan"
    PROVE  SleepInv'
<1> DEFINE r == [thr[t] EXCEPT !.state = x]
<1>f. thr[t] \in ThreadRecord /\ CalmSelf(thr[t], call[t]) /\ thr \in [Threads -> ThreadRecord]
    BY ThreadFacts, SleepFacts
<1>1. thr' = [thr EXCEPT ![t] = r] BY <1>f
<1>2. x \in States BY DEF States
<1>3. Same(thr[t], r) /\ r.state = x /\ r.vfork = thr[t].vfork BY <1>f, <1>2, StateField
<1> HIDE DEF r
<1>4. Calm(thr[t], call[t], r, k)
    BY <1>f, <1>3 DEF Calm, CalmSelf, CalmTold, CalmOwe, Waiting, Gone, Exiting, Asleep, Fallen, Owed, Same
<1>5. r.kids \subseteq thr[t].kids BY <1>3 DEF Same
<1>6. QED BY <1>1, <1>4, <1>5, OwnCalm

\* wait: the caller is about to scan.
LEMMA WaitPrepareCalm ==
    ASSUME CountInv, CountInv', SleepInv, NEW t \in Threads, WaitPrepare(t)
    PROVE  SleepInv'
<1>f. call \in [Threads -> CallRecord] BY ThreadFacts
<1>1. /\ call[t].pc \in {"user", "wait"} /\ thr' = [thr EXCEPT ![t].state = "INTERRUPTIBLE"] /\ Then(t, "scan")
    BY DEF WaitPrepare, MayCall, At
<1>2. PICK k \in CallRecord : call' = [call EXCEPT ![t] = k] /\ k.pc = "scan" BY <1>f, <1>1, ThenIs DEF Pcs
<1>3. QED BY <1>1, <1>2, WaitCalm

\* wait: a zombie is taken, or is still on its CPU.
LEMMA WaitFindCalm ==
    ASSUME CountInv, CountInv', SleepInv, NEW t \in Threads, NEW c \in Threads,
           WaitFind(t, c) \/ WaitSpin(t, c)
    PROVE  SleepInv'
<1>f. call \in [Threads -> CallRecord] /\ call[t] \in CallRecord BY ThreadFacts
<1>1. call[t].pc = "scan" /\ thr' = [thr EXCEPT ![t].state = "RUNNING"] BY DEF WaitFind, WaitSpin, At
<1>2. CASE WaitFind(t, c)
    <2> DEFINE k == [call[t] EXCEPT !.pc = "reap", !.child = c]
    <2>1. call' = [call EXCEPT ![t] = k] BY <1>2 DEF WaitFind
    <2>2. k \in CallRecord /\ k.pc = "reap" BY <1>f DEF CallRecord, Pcs
    <2>3. QED BY <1>1, <2>1, <2>2, WaitCalm
<1>3. CASE WaitSpin(t, c)
    <2>1. PICK k \in CallRecord : call' = [call EXCEPT ![t] = k] /\ k.pc = "wait"
        BY <1>f, <1>3, ThenIs DEF Pcs, WaitSpin
    <2>2. QED BY <1>1, <2>1, WaitCalm
<1>4. QED BY <1>2, <1>3

\* wait: the caller yields; its state has said so since before the scan.
LEMMA WaitSleepCalm ==
    ASSUME CountInv, CountInv', SleepInv, NEW t \in Threads, WaitSleep(t)
    PROVE  SleepInv'
<1> DEFINE r == [thr[t] EXCEPT !.queued = ~Sleeping(thr[t].state)]
<1>f. /\ thr[t] \in ThreadRecord /\ call \in [Threads -> CallRecord]
      /\ CalmSelf(thr[t], call[t]) /\ Sound(t, thr[t], call[t], OwnReaper(t))
    BY ThreadFacts, SleepFacts
<1>1. call[t].pc = "sleep" /\ thr' = [thr EXCEPT ![t] = r] /\ Then(t, "wait") BY DEF WaitSleep, At, Yield
<1>2. PICK k \in CallRecord : call' = [call EXCEPT ![t] = k] /\ k.pc = "wait" BY <1>f, <1>1, ThenIs DEF Pcs
<1>3. (~Sleeping(thr[t].state)) \in BOOLEAN BY DEF Sleeping
<1>4. Same(thr[t], r) /\ r.state = thr[t].state /\ r.vfork = thr[t].vfork BY <1>f, <1>3, QueuedField
<1> HIDE DEF r
<1>5. Calm(thr[t], call[t], r, k)
    BY <1>f, <1>1, <1>2, <1>4
       DEF Calm, CalmSelf, CalmTold, CalmOwe, Waiting, Gone, Exiting, Asleep, Fallen, Owed, Same, Sound
<1>6. r.kids \subseteq thr[t].kids BY <1>4 DEF Same
<1>7. QED BY <1>1, <1>2, <1>5, <1>6, OwnCalm

\* wait: the lock is dropped and taken again for writing.
LEMMA WaitRelockCalm ==
    ASSUME CountInv, CountInv', SleepInv, NEW t \in Threads, At(t, "reap"), Then(t, "reaplocked"), UNCHANGED thr
    PROVE  SleepInv'
<1>f. /\ thr[t] \in ThreadRecord /\ thr \in [Threads -> ThreadRecord] /\ call \in [Threads -> CallRecord]
      /\ CalmSelf(thr[t], call[t]) /\ Sound(t, thr[t], call[t], OwnReaper(t))
    BY ThreadFacts, SleepFacts
<1>1. call[t].pc = "reap" /\ thr' = [thr EXCEPT ![t] = thr[t]] BY <1>f DEF At
<1>2. PICK k \in CallRecord : call' = [call EXCEPT ![t] = k] /\ k.pc = "reaplocked" BY <1>f, ThenIs DEF Pcs
<1>3. Calm(thr[t], call[t], thr[t], k)
    BY <1>f, <1>1, <1>2 DEF Calm, CalmSelf, CalmTold, CalmOwe, Waiting, Gone, Exiting, Asleep, Fallen, Owed, Sound
<1>4. QED BY <1>1, <1>2, <1>3, OwnCalm

\* A killed thread is at most made RUNNING.
LEMMA KilledWakes ==
    ASSUME NEW r \in ThreadRecord
    PROVE  Wakes(r, [r EXCEPT !.killed = TRUE, !.state = IF Sleeping(@) THEN "RUNNING" ELSE @])
<1> DEFINE x == IF Sleeping(r.state) THEN "RUNNING" ELSE r.state
           q == [r EXCEPT !.killed = TRUE, !.state = x]
<1>1. q.live = r.live /\ q.queued = r.queued BY DEF ThreadRecord
<1>2. q.kids = r.kids /\ q.kind = r.kind /\ q.vfork = r.vfork /\ q.state = x BY DEF ThreadRecord
<1>3. x = r.state \/ x = "RUNNING" OBVIOUS
<1> HIDE DEF q, x
<1>4. Wakes(r, q) BY <1>1, <1>2, <1>3 DEF Wakes
<1>5. QED BY <1>4 DEF q, x

\* exit_group: the others are killed.
LEMMA GroupExitKillCalm ==
    ASSUME CountInv, CountInv', SleepInv, NEW t \in Threads, GroupExitKill(t)
    PROVE  SleepInv'
<1>f. /\ thr[t] \in ThreadRecord /\ call[t] \in CallRecord /\ Sound(t, thr[t], call[t], OwnReaper(t))
      /\ thr \in [Threads -> ThreadRecord] /\ CalmSelf(thr[t], call[t])
    BY ThreadFacts, SleepFacts
<1> DEFINE k == [call[t] EXCEPT !.pc = "user"]
           others == group[thr[t].tg].members \ {t}
           R(o) == [thr[o] EXCEPT !.killed = TRUE,
                                  !.state = IF Sleeping(@) THEN "RUNNING" ELSE @]
<1>1. /\ thr[t].queued /\ call[t].pc = "killothers" /\ call' = [call EXCEPT ![t] = k]
      /\ thr' = [o \in Threads |-> IF o \notin others THEN thr[o] ELSE R(o)]
    BY DEF GroupExitKill, At, Runs
<1>2. k.pc = "user" BY <1>f DEF CallRecord
<1> HIDE DEF k
<1>3. ASSUME NEW o \in Threads PROVE Wakes(thr[o], thr'[o])
    <2>1. Wakes(thr[o], R(o)) BY <1>f, KilledWakes
    <2>2. QED BY <1>1, <2>1, WakesRefl
<1>4. thr'[t] = thr[t] BY <1>1
<1>5. Calm(thr[t], call[t], thr[t], k)
    BY <1>f, <1>1, <1>2 DEF Calm, CalmSelf, CalmTold, CalmOwe, Waiting, Gone, Exiting, Asleep, Fallen, Owed, Sound
<1>6. QED BY <1>1, <1>3, <1>4, <1>5, WakeCalm

\* A thread that is woken, and nothing else: a wakeup finds the state it wants or does nothing.
LEMMA WokenWakes ==
    ASSUME NEW th \in [Threads -> ThreadRecord], NEW p \in Threads \cup {None}, NEW states,
           "ZOMBIE" \notin states, NEW u \in Threads
    PROVE  /\ Wakes(th[u], Woken(th, p, states)[u])
           /\ u = p /\ th[u].live => Woken(th, p, states)[u].state \notin states \ {"RUNNING"}
<1>1. CASE p = None \/ ~th[p].live \/ th[p].state \notin states
    <2>1. Woken(th, p, states) = th BY <1>1 DEF Woken
    <2>2. QED BY <1>1, <2>1, WakesRefl, Consts
<1>2. CASE ~(p = None \/ ~th[p].live \/ th[p].state \notin states)
    <2>1. Woken(th, p, states) = [th EXCEPT ![p].state = "RUNNING", ![p].queued = TRUE]
        BY <1>2 DEF Woken
    <2>2. p \in Threads BY <1>2
    <2> DEFINE w == [th[p] EXCEPT !.state = "RUNNING", !.queued = TRUE]
    <2>3. Wakes(th[p], w) /\ w.state = "RUNNING"
        <3>1. th[p] \in ThreadRecord BY <2>2
        <3>2. w.live = th[p].live /\ w.queued = TRUE BY <3>1 DEF ThreadRecord
        <3>3. w.state = "RUNNING" /\ w.kids = th[p].kids /\ w.kind = th[p].kind /\ w.vfork = th[p].vfork
            BY <3>1 DEF ThreadRecord
        <3> HIDE DEF w
        <3>4. QED BY <3>2, <3>3 DEF Wakes
    <2>4. Woken(th, p, states) = [th EXCEPT ![p] = w] BY <2>1, <2>2
    <2> HIDE DEF w
    <2>5. QED BY <2>2, <2>3, <2>4, WakesRefl
<1>3. QED BY <1>1, <1>2

\* SIGKILL to a group.
LEMMA KillGroupCalm ==
    ASSUME CountInv, CountInv', SleepInv, NEW g \in Groups, KillGroup(g)
    PROVE  SleepInv'
<1>f. /\ thr \in [Threads -> ThreadRecord] /\ call \in [Threads -> CallRecord]
    BY Consts, ThreadFacts
<1> DEFINE R(o) == [WakeInterruptible(thr, o)[o] EXCEPT !.killed = TRUE]
<1>1. /\ thr' = [o \in Threads |-> IF o \notin group[g].members THEN thr[o] ELSE R(o)]
      /\ UNCHANGED call
    BY DEF KillGroup
<1>2. ASSUME NEW o \in Threads PROVE Wakes(thr[o], thr'[o])
    <2>1. CASE o \notin group[g].members BY <1>1, <2>1, WakesRefl
    <2>2. CASE o \in group[g].members
        <3> DEFINE w == WakeInterruptible(thr, o)[o]
        <3>1. thr'[o] = [w EXCEPT !.killed = TRUE] BY <1>1, <2>2
        <3>2. w \in ThreadRecord BY <1>f, WokenKeeps DEF WakeInterruptible
        <3>3. Wakes(thr[o], w) BY <1>f, WokenWakes DEF WakeInterruptible
        <3> HIDE DEF w
        <3>4. thr'[o].live = w.live /\ thr'[o].queued = w.queued BY <3>1, <3>2 DEF ThreadRecord
        <3>5. thr'[o].kids = w.kids /\ thr'[o].kind = w.kind /\ thr'[o].vfork = w.vfork /\ thr'[o].state = w.state
            BY <3>1, <3>2 DEF ThreadRecord
        <3>6. QED BY <3>3, <3>4, <3>5 DEF Wakes
    <2>3. QED BY <2>1, <2>2
<1>3. call' = [call EXCEPT ![initproc] = call[initproc]] BY <1>1, <1>f
<1>4. Calm(thr[initproc], call[initproc], thr'[initproc], call[initproc]) BY <1>2, CalmWakes, Consts
<1>5. QED BY <1>2, <1>3, <1>4, WakeCalm, Consts

\* wait: the zombie is detached and destroyed.
LEMMA ReapCalm ==
    ASSUME CountInv, CountInv', SleepInv, NEW t \in Threads, Runs(t), call[t].pc \in {"reap", "reaplocked"},
           Reap(t, call[t].child)
    PROVE  SleepInv'
<1>f. /\ thr[t] \in ThreadRecord /\ call[t] \in CallRecord /\ Sound(t, thr[t], call[t], OwnReaper(t))
      /\ thr \in [Threads -> ThreadRecord] /\ call \in [Threads -> CallRecord]
      /\ CalmSelf(thr[t], call[t])
    BY ThreadFacts, SleepFacts
<1>0. call[t].child \in thr[t].kids /\ call[call[t].child].pc = "dead" BY DEF CountInv, Places, ZombieIsTaken
<1>e. PICK c \in Threads : c = call[t].child BY <1>0, <1>f DEF ThreadRecord
<1>1. c \in thr[t].kids /\ call[c].pc = "dead" BY <1>0, <1>e
<1>2. c # t /\ thr[t].queued BY <1>1 DEF Runs
<1>3. /\ thr[c] \in ThreadRecord /\ Sound(c, thr[c], call[c], OwnReaper(c)) /\ CalmSelf(thr[c], call[c])
    BY ThreadFacts, SleepFacts
<1> DEFINE r == [thr[c] EXCEPT !.parent = None, !.pid = 0, !.tg = None]
           q == [thr[t] EXCEPT !.kids = thr[t].kids \ {c}]
           kc == [InUser EXCEPT !.pc = "destroyed"]
<1>4. thr' = [thr EXCEPT ![t] = q, ![c] = r] /\ call' = [call EXCEPT ![t] = InUser, ![c] = kc]
    BY <1>2, <1>e, <1>f DEF Reap
<1>5. r.live = thr[c].live BY <1>3 DEF ThreadRecord
<1>6. r.state = thr[c].state /\ r.kids = thr[c].kids /\ r.kind = thr[c].kind /\ r.vfork = thr[c].vfork
    BY <1>3 DEF ThreadRecord
<1>7. q.live = thr[t].live /\ q.queued = thr[t].queued BY <1>f DEF ThreadRecord
<1>8. /\ q.state = thr[t].state /\ q.kids = thr[t].kids \ {c} /\ q.kind = thr[t].kind /\ q.vfork = thr[t].vfork
    BY <1>f DEF ThreadRecord
<1>9. kc.pc = "destroyed" /\ kc.last = FALSE BY DEF InUser
<1> HIDE DEF r, q, kc
<1>10. /\ thr'[c] = r /\ thr'[t] = q /\ call'[c] = kc /\ call'[t] = InUser
       /\ \A u \in Threads \ {t, c} : thr'[u] = thr[u] /\ call'[u] = call[u]
    BY <1>2, <1>4, <1>f
<1>11. Calm(thr[c], call[c], r, kc)
    BY <1>1, <1>3, <1>5, <1>6, <1>9
       DEF Calm, CalmSelf, CalmTold, CalmOwe, Waiting, Gone, Exiting, Asleep, Fallen, Owed
<1>12. Calm(thr[t], call[t], q, InUser)
    BY <1>f, <1>2, <1>7, <1>8, InUserType
       DEF Calm, CalmSelf, CalmTold, CalmOwe, Waiting, Gone, Exiting, Asleep, Fallen, Owed, Sound
<1>13. \A u \in Threads : Calm(thr[u], call[u], thr'[u], call'[u])
    BY <1>10, <1>11, <1>12, CalmWakes, WakesRefl
<1>14. \A u \in Threads : \A d \in thr'[u].kids : d \in thr[u].kids BY <1>6, <1>8, <1>10
<1>15. QED BY <1>13, <1>14, CalmStep

\* wait: both ways to the write lock.
LEMMA WaitReapCalm ==
    ASSUME CountInv, CountInv', SleepInv, NEW t \in Threads, WaitReap(t) \/ WaitReapLocked(t)
    PROVE  SleepInv'
<1>1. CASE WaitReap(t) /\ Reap(t, call[t].child) BY <1>1, ReapCalm DEF WaitReap, At
<1>2. CASE WaitReap(t) /\ ~Reap(t, call[t].child) BY <1>2, WaitRelockCalm DEF WaitReap
<1>3. CASE WaitReapLocked(t) BY <1>3, ReapCalm DEF WaitReapLocked, At
<1>4. QED BY <1>1, <1>2, <1>3

\* clone: a failure is undone.
LEMMA CloneFailCalm ==
    ASSUME CountInv, CountInv', SleepInv, NEW t \in Threads, CloneFail(t)
    PROVE  SleepInv'
<1>f. /\ thr[t] \in ThreadRecord /\ call[t] \in CallRecord /\ Sound(t, thr[t], call[t], OwnReaper(t))
      /\ thr \in [Threads -> ThreadRecord] /\ call \in [Threads -> CallRecord]
      /\ CalmSelf(thr[t], call[t])
    BY ThreadFacts, SleepFacts
<1>0. thr[t].live /\ thr[t].queued /\ call[t].pc = "create" BY DEF CloneFail, At, Runs
<1>s. Calm(thr[t], call[t], thr[t], InUser)
    BY <1>f, <1>0, InUserType
       DEF Calm, CalmSelf, CalmTold, CalmOwe, Waiting, Gone, Exiting, Asleep, Fallen, Owed, Sound
<1>1. CASE UNCHANGED thr /\ call' = [call EXCEPT ![t] = InUser]
    <2>1. thr' = [thr EXCEPT ![t] = thr[t]] BY <1>1, <1>f
    <2>2. QED BY <1>1, <1>s, <2>1, OwnCalm
<1>2. CASE \E c \in Threads :
            /\ ~thr[c].live
            /\ thr' = [thr EXCEPT ![c] = [FreeThread EXCEPT !.live = TRUE]]
            /\ call' = [call EXCEPT ![t] = InUser, ![c] = [InUser EXCEPT !.pc = "destroyed"]]
    <2>1. PICK c \in Threads :
            /\ ~thr[c].live
            /\ thr' = [thr EXCEPT ![c] = [FreeThread EXCEPT !.live = TRUE]]
            /\ call' = [call EXCEPT ![t] = InUser, ![c] = [InUser EXCEPT !.pc = "destroyed"]]
        BY <1>2
    <2> DEFINE r == [FreeThread EXCEPT !.live = TRUE]
               kc == [InUser EXCEPT !.pc = "destroyed"]
    <2>2. c # t BY <1>0, <2>1
    <2>3. r.kids = {} /\ r.state = "UNUSED" /\ r.vfork = None BY DEF FreeThread
    <2>4. kc.pc = "destroyed" BY DEF InUser
    <2>5. thr' = [thr EXCEPT ![c] = r] /\ call' = [call EXCEPT ![t] = InUser, ![c] = kc] BY <2>1
    <2> HIDE DEF r, kc
    <2>6. /\ thr'[c] = r /\ call'[t] = InUser /\ call'[c] = kc /\ thr'[t] = thr[t]
          /\ \A u \in Threads \ {t, c} : thr'[u] = thr[u] /\ call'[u] = call[u]
        BY <2>2, <2>5, <1>f
    <2>8. call[c].pc = "user" BY <2>1, FreePage
    <2>9. Calm(thr[c], call[c], r, kc)
        BY <2>1, <2>3, <2>4, <2>8 DEF Calm, CalmSelf, CalmTold, CalmOwe, Waiting, Gone, Exiting, Asleep, Fallen, Owed
    <2>10. \A u \in Threads : Calm(thr[u], call[u], thr'[u], call'[u])
        BY <2>6, <2>9, <1>s, CalmWakes, WakesRefl
    <2>11. \A u \in Threads : \A d \in thr'[u].kids : d \in thr[u].kids BY <2>3, <2>6
    <2>12. QED BY <2>10, <2>11, CalmStep
<1>3. QED BY <1>1, <1>2 DEF CloneFail

\* clone: the creator goes on with its new thread, which gets its place in the table.
LEMMA AttachCalm ==
    ASSUME CountInv, CountInv', SleepInv, NEW t \in Threads, NEW c \in Threads, call[c].pc = "new",
           NEW k, call' = [call EXCEPT ![t] = k], call[t].pc \in {"attach", "group"},
           k.pc \in {"group", "start"}, k.kind = call[t].kind,
           \A u \in Threads : /\ thr'[u].live = thr[u].live /\ thr'[u].kind = thr[u].kind
                              /\ thr'[u].vfork = thr[u].vfork /\ thr'[u].state = thr[u].state
                              /\ thr'[u].queued = thr[u].queued,
           \A u \in Threads : \A d \in thr'[u].kids : d \in thr[u].kids \/ d = c
    PROVE  SleepInv'
<1>f. /\ call \in [Threads -> CallRecord] /\ Sound(c, thr[c], call[c], OwnReaper(c))
      /\ CalmSelf(thr[t], call[t])
    BY ThreadFacts, SleepFacts
<1>1. call'[t] = k /\ \A u \in Threads \ {t} : call'[u] = call[u] BY <1>f
<1>2. ASSUME NEW u \in Threads PROVE Calm(thr[u], call[u], thr'[u], call'[u])
    <2>1. CASE u = t
        <3>1. Sound(t, thr[t], call[t], OwnReaper(t)) BY ThreadFacts
        <3>2. CalmSelf(thr'[t], k) BY <1>f DEF CalmSelf, Waiting, Gone, Exiting
        <3>3. CalmTold(thr[t], call[t], thr'[t], k) BY <3>1 DEF CalmTold, Asleep, Fallen, Sound
        <3>4. CalmOwe(thr[t], call[t], thr'[t], k) BY DEF CalmOwe, Owed
        <3>5. QED BY <2>1, <1>1, <3>2, <3>3, <3>4 DEF Calm
    <2>2. CASE u # t
        <3>1. CalmSelf(thr[u], call[u]) BY SleepFacts
        <3>2. CalmSelf(thr'[u], call[u]) BY <3>1 DEF CalmSelf
        <3>3. CalmTold(thr[u], call[u], thr'[u], call[u]) BY DEF CalmTold, Asleep, Fallen
        <3>4. CalmOwe(thr[u], call[u], thr'[u], call[u]) BY DEF CalmOwe, Owed
        <3>5. QED BY <2>2, <1>1, <3>2, <3>3, <3>4 DEF Calm
    <2>3. QED BY <2>1, <2>2
<1>3. thr'[c].state # "ZOMBIE" BY <1>f DEF Sound
<1>4. \A u \in Threads : \A d \in thr'[u].kids : d \in thr[u].kids \/ thr'[d].state # "ZOMBIE" BY <1>3
<1>5. QED BY <1>2, <1>4, CalmStep

\* kthread_create: the group, or none.
LEMMA KthreadGroupCalm ==
    ASSUME CountInv, CountInv', SleepInv, NEW t \in Threads, KthreadGroup(t)
    PROVE  SleepInv'
<1>f. /\ call[t] \in CallRecord /\ thr \in [Threads -> ThreadRecord] /\ call \in [Threads -> CallRecord]
    BY ThreadFacts
<1>1. call[t].pc = "group" /\ Then(t, "start") BY DEF KthreadGroup, At
<1>2. PICK k \in CallRecord : call' = [call EXCEPT ![t] = k] /\ k.pc = "start" /\ k.kind = call[t].kind
    BY <1>f, <1>1, ThenIs DEF Pcs
<1>3. Creates(t) BY <1>1 DEF Creates
<1>e. PICK c \in Threads : c = call[t].child BY <1>3 DEF CountInv, Places, ChildIsNew
<1>4. call[c].pc = "new" BY <1>3, <1>e DEF CountInv, Places, ChildIsNew, Creation
<1>5. ASSUME NEW u \in Threads
      PROVE  /\ thr'[u].live = thr[u].live /\ thr'[u].kind = thr[u].kind
             /\ thr'[u].vfork = thr[u].vfork /\ thr'[u].state = thr[u].state
             /\ thr'[u].queued = thr[u].queued /\ thr'[u].kids = thr[u].kids
    <2>1. CASE UNCHANGED thr BY <2>1
    <2>2. CASE \E g \in Groups : thr' = [thr EXCEPT ![c].tg = g]
        <3>1. PICK g \in Groups : thr' = [thr EXCEPT ![c].tg = g] BY <2>2
        <3>2. thr'[u] = thr[u] \/ thr'[u] = [thr[u] EXCEPT !.tg = g] BY <1>f, <3>1
        <3>3. thr[u] \in ThreadRecord BY <1>f
        <3>4. thr'[u].live = thr[u].live /\ thr'[u].queued = thr[u].queued BY <3>2, <3>3 DEF ThreadRecord
        <3>5. QED BY <3>2, <3>3, <3>4 DEF ThreadRecord
    <2>3. QED BY <2>1, <2>2, <1>e DEF KthreadGroup
<1>6. QED BY <1>1, <1>2, <1>4, <1>5, AttachCalm

\* The fields that attach_child leaves alone.
LEMMA AttachedKeeps ==
    ASSUME NEW th \in [Threads -> ThreadRecord], NEW p \in Threads, NEW c \in Threads, p # c, NEW u \in Threads
    PROVE  /\ Attached(th, p, c)[u] \in ThreadRecord
           /\ Attached(th, p, c)[u].live = th[u].live /\ Attached(th, p, c)[u].queued = th[u].queued
           /\ Attached(th, p, c)[u].kind = th[u].kind /\ Attached(th, p, c)[u].vfork = th[u].vfork
           /\ Attached(th, p, c)[u].state = th[u].state
           /\ \A d \in Attached(th, p, c)[u].kids : d \in th[u].kids \/ d = c
<1> DEFINE q == Attached(th, p, c)[u]
<1>0. th[u] \in ThreadRecord OBVIOUS
<1>1. \/ u \notin {p, c} /\ q = th[u]
      \/ u = c /\ q = [th[u] EXCEPT !.parent = p]
      \/ u = p /\ q = [th[u] EXCEPT !.kids = th[u].kids \cup {c}]
    BY DEF Attached
<1> HIDE DEF q
<1>2. q \in ThreadRecord BY <1>0, <1>1 DEF ThreadRecord
<1>3. q.live = th[u].live /\ q.queued = th[u].queued BY <1>0, <1>1 DEF ThreadRecord
<1>4. q.kind = th[u].kind /\ q.vfork = th[u].vfork /\ q.state = th[u].state BY <1>0, <1>1 DEF ThreadRecord
<1>5. \A d \in q.kids : d \in th[u].kids \/ d = c BY <1>0, <1>1 DEF ThreadRecord
<1>6. QED BY <1>2, <1>3, <1>4, <1>5 DEF q

\* clone: the parent, the pid and the group of the new thread.
LEMMA CloneAttachCalm ==
    ASSUME CountInv, CountInv', SleepInv, NEW t \in Threads, CloneAttach(t)
    PROVE  SleepInv'
<1>f. /\ call[t] \in CallRecord /\ thr \in [Threads -> ThreadRecord] /\ call \in [Threads -> CallRecord]
    BY ThreadFacts
<1> DEFINE x == IF call[t].kind = "kthread" THEN "group" ELSE "start"
<1>1. call[t].pc = "attach" /\ Then(t, x) BY DEF CloneAttach, At
<1>2. PICK k \in CallRecord : call' = [call EXCEPT ![t] = k] /\ k.pc = x /\ k.kind = call[t].kind
    <2>1. x \in Pcs BY DEF Pcs
    <2> HIDE DEF x
    <2>2. QED BY <2>1, <1>f, <1>1, ThenIs
<1>3. k.pc \in {"group", "start"} BY <1>2
<1>4. Creates(t) BY <1>1 DEF Creates
<1>e. PICK c \in Threads : c = call[t].child BY <1>4 DEF CountInv, Places, ChildIsNew
<1>5. call[c].pc = "new" BY <1>4, <1>e DEF CountInv, Places, ChildIsNew, Creation
<1>6. c # t /\ c # initproc /\ initproc \in Threads
    <2>1. initproc \in Threads BY Consts
    <2>2. Sound(initproc, thr[initproc], call[initproc], OwnReaper(initproc)) BY <2>1, ThreadFacts
    <2>3. QED BY <2>1, <2>2, <1>1, <1>5 DEF Sound
<1>7. \E a, pid, g, p :
        /\ a = thr \/ a = Attached(thr, t, c) \/ a = Attached(thr, initproc, c)
        /\ \/ thr' = [a EXCEPT ![c].parent = p, ![c].pid = pid, ![c].tg = g]
           \/ thr' = [a EXCEPT ![c].pid = pid, ![c].tg = g]
           \/ thr' = [a EXCEPT ![c].pid = pid]
    <2>1. CASE thr' = [thr EXCEPT ![c].parent = thr[t].parent, ![c].pid = FirstPid, ![c].tg = thr[t].tg]
        BY <2>1
    <2>2. CASE \E g \in Groups : thr' = [Attached(thr, t, c) EXCEPT ![c].pid = FirstPid, ![c].tg = g]
        <3>1. PICK g \in Groups : thr' = [Attached(thr, t, c) EXCEPT ![c].pid = FirstPid, ![c].tg = g]
            BY <2>2
        <3>2. QED BY <3>1, Zenon
    <2>3. CASE thr' = [Attached(thr, initproc, c) EXCEPT ![c].pid = FirstPid] BY <2>3
    <2>4. QED BY <2>1, <2>2, <2>3, <1>e DEF CloneAttach
<1>8. PICK a, pid, g, p :
        /\ a = thr \/ a = Attached(thr, t, c) \/ a = Attached(thr, initproc, c)
        /\ \/ thr' = [a EXCEPT ![c].parent = p, ![c].pid = pid, ![c].tg = g]
           \/ thr' = [a EXCEPT ![c].pid = pid, ![c].tg = g]
           \/ thr' = [a EXCEPT ![c].pid = pid]
    BY <1>7
<1>9. DOMAIN a = Threads BY <1>8, <1>f DEF Attached
<1>10. ASSUME NEW u \in Threads
       PROVE  /\ thr'[u].live = thr[u].live /\ thr'[u].kind = thr[u].kind
              /\ thr'[u].vfork = thr[u].vfork /\ thr'[u].state = thr[u].state
              /\ thr'[u].queued = thr[u].queued
              /\ \A d \in thr'[u].kids : d \in thr[u].kids \/ d = c
    <2>1. /\ a[u] \in ThreadRecord /\ a[u].live = thr[u].live /\ a[u].queued = thr[u].queued
          /\ a[u].kind = thr[u].kind /\ a[u].vfork = thr[u].vfork /\ a[u].state = thr[u].state
          /\ \A d \in a[u].kids : d \in thr[u].kids \/ d = c
        BY <1>8, <1>6, <1>f, AttachedKeeps
    <2>2. \/ thr'[u] = a[u]
          \/ thr'[u] = [a[u] EXCEPT !.parent = p, !.pid = pid, !.tg = g]
          \/ thr'[u] = [a[u] EXCEPT !.pid = pid, !.tg = g]
          \/ thr'[u] = [a[u] EXCEPT !.pid = pid]
        BY <1>8, <1>9
    <2>3. thr'[u].live = a[u].live /\ thr'[u].queued = a[u].queued BY <2>1, <2>2 DEF ThreadRecord
    <2>4. /\ thr'[u].kind = a[u].kind /\ thr'[u].vfork = a[u].vfork /\ thr'[u].state = a[u].state
          /\ thr'[u].kids = a[u].kids
        BY <2>1, <2>2 DEF ThreadRecord
    <2>5. QED BY <2>1, <2>3, <2>4
<1> HIDE DEF x
<1>11. /\ \A u \in Threads : /\ thr'[u].live = thr[u].live /\ thr'[u].kind = thr[u].kind
                              /\ thr'[u].vfork = thr[u].vfork /\ thr'[u].state = thr[u].state
                              /\ thr'[u].queued = thr[u].queued
       /\ \A u \in Threads : \A d \in thr'[u].kids : d \in thr[u].kids \/ d = c
    BY <1>10
<1>12. QED BY <1>1, <1>2, <1>3, <1>5, <1>11, AttachCalm

\* clone: the new thread is woken and starts.
LEMMA CloneStartCalm ==
    ASSUME CountInv, CountInv', SleepInv, NEW t \in Threads, CloneStart(t)
    PROVE  SleepInv'
<1> DEFINE k == IF call[t].kind = "vfork" THEN [call[t] EXCEPT !.pc = "vfork"] ELSE InUser
           W == {"INTERRUPTIBLE", "UNINTERRUPTIBLE"}
<1>f. /\ thr[t] \in ThreadRecord /\ call[t] \in CallRecord /\ Sound(t, thr[t], call[t], OwnReaper(t))
      /\ thr \in [Threads -> ThreadRecord] /\ call \in [Threads -> CallRecord]
      /\ CalmSelf(thr[t], call[t])
    BY ThreadFacts, SleepFacts
<1>0. Creates(t) /\ call[t].pc = "start" /\ thr[t].queued BY DEF CloneStart, At, Runs, Creates
<1>e. PICK c \in Threads : c = call[t].child BY <1>0 DEF CountInv, Places, ChildIsNew
<1>1. call[c].pc = "new" BY <1>0, <1>e DEF CountInv, Places, ChildIsNew, Creation
<1>2. c # t BY <1>0, <1>1
<1>3. thr' = Woken(thr, c, W) BY <1>e DEF CloneStart, WakeAny
<1>4. call' = [call EXCEPT ![c] = InUser, ![t] = k] BY <1>0, <1>e, <1>2, <1>f DEF CloneStart
<1>5. k.pc = "user" \/ (k.pc = "vfork" /\ call[t].kind = "vfork") BY <1>f, InUserType DEF CallRecord
<1> HIDE DEF k
<1>6. /\ call'[t] = k /\ call'[c] = InUser /\ \A u \in Threads \ {t, c} : call'[u] = call[u]
    BY <1>2, <1>4, <1>f
<1>7. \A u \in Threads : Wakes(thr[u], thr'[u]) BY <1>3, <1>f, WokenWakes
<1>8. thr'[t] = thr[t] BY <1>2, <1>3, <1>f, WokenKeeps
<1>9. Calm(thr[t], call[t], thr[t], k)
    BY <1>f, <1>0, <1>5
       DEF Calm, CalmSelf, CalmTold, CalmOwe, Waiting, Gone, Exiting, Asleep, Fallen, Owed, Sound
<1>10. Calm(thr[c], call[c], thr'[c], InUser)
    <2>1. Sound(c, thr[c], call[c], OwnReaper(c)) BY ThreadFacts
    <2>2. thr[c].live /\ thr[c].state # "ZOMBIE" BY <1>1, <2>1 DEF Sound
    <2>3. thr'[c].state \notin W BY <1>3, <1>f, <2>2, WokenWakes
    <2>4. thr'[c].state # "ZOMBIE" BY <1>7, <2>2 DEF Wakes
    <2>5. Wakes(thr[c], thr'[c]) BY <1>7
    <2>6. QED BY <1>1, <2>3, <2>4, <2>5, InUserType
               DEF Calm, CalmSelf, CalmTold, CalmOwe, Waiting, Gone, Exiting, Asleep, Fallen, Owed, Wakes
<1>11. \A u \in Threads : Calm(thr[u], call[u], thr'[u], call'[u])
    BY <1>6, <1>7, <1>8, <1>9, <1>10, CalmWakes
<1>12. \A u \in Threads : \A d \in thr'[u].kids : d \in thr[u].kids BY <1>7 DEF Wakes
<1>13. QED BY <1>11, <1>12, CalmStep

-----------------------------------------------------------------------------
(* The actions that put somebody to sleep, or pay what they owe             *)

\* clone: the caller of vfork says that it sleeps once it has the child that will wake it.
LEMMA CloneCreateCalm ==
    ASSUME CountInv, CountInv', SleepInv, NEW t \in Threads, CloneCreate(t)
    PROVE  SleepInv'
<1>f. /\ thr[t] \in ThreadRecord /\ call[t] \in CallRecord /\ Sound(t, thr[t], call[t], OwnReaper(t))
      /\ thr \in [Threads -> ThreadRecord] /\ call \in [Threads -> CallRecord]
      /\ CalmSelf(thr[t], call[t])
    BY ThreadFacts, SleepFacts
<1>0. thr[t].live /\ thr[t].queued /\ call[t].pc = "create" BY DEF CloneCreate, At, Runs
<1> DEFINE x == IF call[t].kind = "vfork" THEN "UNINTERRUPTIBLE" ELSE thr[t].state
           r == [thr[t] EXCEPT !.state = x]
<1>1. PICK c \in Threads :
        /\ ~thr[c].live
        /\ thr' = [thr EXCEPT ![c] = NewThread(t),
                      ![t].state = IF call[t].kind = "vfork" THEN "UNINTERRUPTIBLE" ELSE @]
        /\ call' = [call EXCEPT ![t].pc = "attach", ![t].child = c, ![c] = [InUser EXCEPT !.pc = "new"]]
    BY DEF CloneCreate, NewThread
<1>2. c # t BY <1>0, <1>1
<1> DEFINE k == [call[t] EXCEPT !.pc = "attach", !.child = c]
           kc == [InUser EXCEPT !.pc = "new"]
<1>3. thr' = [thr EXCEPT ![c] = NewThread(t), ![t] = r] /\ call' = [call EXCEPT ![t] = k, ![c] = kc]
    BY <1>1, <1>2, <1>f
<1>x. x \in States BY <1>f DEF ThreadRecord, States
<1>4. Same(thr[t], r) /\ r.state = x /\ r.vfork = thr[t].vfork BY <1>f, <1>x, StateField
<1>5. k.pc = "attach" /\ k.kind = call[t].kind /\ kc.pc = "new" /\ kc.last = FALSE
    BY <1>f DEF CallRecord, InUser
<1>6. thr[t].state # "INTERRUPTIBLE" /\ thr[t].state # "ZOMBIE"
    BY <1>f, <1>0 DEF CalmSelf, Waiting, Sound
<1>7. x # "INTERRUPTIBLE" /\ x # "ZOMBIE" BY <1>6
<1> HIDE DEF r, k, kc, x
<1>8. /\ thr'[c] = NewThread(t) /\ thr'[t] = r /\ call'[t] = k /\ call'[c] = kc
      /\ \A u \in Threads \ {t, c} : thr'[u] = thr[u] /\ call'[u] = call[u]
    BY <1>2, <1>3, <1>f
<1>9. /\ NewThread(t).live /\ NewThread(t).state = "UNINTERRUPTIBLE" /\ NewThread(t).kids = {}
      /\ call[t].kind = "vfork" => NewThread(t).vfork = t
    BY NewThreadIs
<1>10. call[c].pc = "user" BY <1>1, FreePage
<1>11. \A u \in Threads \ {t, c} : Calm(thr[u], call[u], thr'[u], call'[u]) BY <1>8, CalmWakes, WakesRefl
<1>12. \A u \in Threads : CalmSelf(thr'[u], call'[u])
    <2>1. CalmSelf(NewThread(t), kc) BY <1>5, <1>9 DEF CalmSelf, Gone, Exiting
    <2>2. CalmSelf(r, k) BY <1>4, <1>5, <1>7 DEF CalmSelf, Gone, Exiting
    <2>3. QED BY <1>8, <1>11, <2>1, <2>2 DEF Calm
<1>13. Told'
    <2>1. CalmTold(thr[c], call[c], NewThread(t), kc) BY <1>5, <1>9, <1>10 DEF CalmTold, Asleep, Fallen
    <2>2. CalmTold(thr[t], call[t], r, k) BY <1>0, <1>4, <1>5, <1>7 DEF CalmTold, Asleep, Fallen
    <2>3. \A u \in Threads : CalmTold(thr[u], call[u], thr'[u], call'[u]) BY <1>8, <1>11, <2>1, <2>2 DEF Calm
    <2>4. \A u \in Threads : \A d \in thr'[u].kids : d \in thr[u].kids BY <1>4, <1>8, <1>9 DEF Same
    <2>5. QED BY <2>3, <2>4, ToldKept DEF SleepInv
<1>14. VforkOwing'
    <2> SUFFICES ASSUME NEW u \in Threads, Owed(thr'[u], call'[u])
                 PROVE  \E d \in Threads : thr'[d].live /\ thr'[d].vfork = u
        BY DEF VforkOwing
    <2>1. CASE u = t
        <3>1. call[t].kind = "vfork" BY <2>1, <1>5, <1>8 DEF Owed
        <3>2. QED BY <2>1, <3>1, <1>8, <1>9
    <2>2. CASE u = c BY <2>2, <1>5, <1>8 DEF Owed
    <2>3. CASE u # t /\ u # c
        <3>1. Owed(thr[u], call[u]) BY <2>3, <1>8
        <3>2. PICK d \in Threads : thr[d].live /\ thr[d].vfork = u BY <3>1 DEF SleepInv, VforkOwing
        <3>3. thr'[d].live /\ thr'[d].vfork = u BY <3>2, <1>1, <1>4, <1>8 DEF Same
        <3>4. QED BY <3>3
    <2>4. QED BY <2>1, <2>2, <2>3
<1>15. QED BY <1>12, <1>13, <1>14, SelfKept DEF SleepInv

\* vfork_done: what it changes in the record of u.
Releases(t, r, q, u) ==
    /\ q.live = r.live /\ q.kids = r.kids /\ q.kind = r.kind
    /\ q.vfork = IF u = t THEN None ELSE r.vfork
    /\ q.state = r.state \/ q.state = "RUNNING"
    /\ r.queued => q.queued
    /\ r.live /\ u = thr[t].vfork => ~Sleeping(q.state)

\* vfork_done lets the creator go.
LEMMA VforkReleases ==
    ASSUME CountInv, NEW t \in Threads, thr[t].live, NEW u \in Threads
    PROVE  Releases(t, thr[u], VforkDone(t)[u], u)
<1> DEFINE r == [thr[t] EXCEPT !.vfork = None]
           th == [thr EXCEPT ![t] = r]
           W == {"INTERRUPTIBLE", "UNINTERRUPTIBLE"}
<1>f. thr[t] \in ThreadRecord /\ thr \in [Threads -> ThreadRecord] BY ThreadFacts
<1>1. r \in ThreadRecord /\ Same(thr[t], r) /\ r.state = thr[t].state /\ r.queued = thr[t].queued /\ r.vfork = None
    BY <1>f, VforkField
<1>2. VforkDone(t) = Woken(th, thr[t].vfork, W) BY DEF VforkDone, WakeAny
<1>3. thr[t].vfork \in Threads \cup {None} BY <1>f DEF ThreadRecord
<1> HIDE DEF r
<1>4. th \in [Threads -> ThreadRecord] BY <1>f, <1>1
<1>5. /\ th[u].live = thr[u].live /\ th[u].kids = thr[u].kids /\ th[u].kind = thr[u].kind
      /\ th[u].state = thr[u].state /\ th[u].queued = thr[u].queued
      /\ th[u].vfork = IF u = t THEN None ELSE thr[u].vfork
    <2>1. CASE u = t BY <2>1, <1>1, <1>f DEF Same
    <2>2. CASE u # t BY <2>2, <1>f
    <2>3. QED BY <2>1, <2>2
<1> HIDE DEF th
<1>6. /\ Wakes(th[u], Woken(th, thr[t].vfork, W)[u])
      /\ u = thr[t].vfork /\ th[u].live => Woken(th, thr[t].vfork, W)[u].state \notin W \ {"RUNNING"}
    BY <1>3, <1>4, WokenWakes
<1>7. QED BY <1>2, <1>5, <1>6 DEF Wakes, Releases, Sleeping

\* A thread in user space lets its creator go, and exits or goes on.
LEMMA ReleaseCalm ==
    ASSUME CountInv, CountInv', SleepInv, NEW t \in Threads, NEW k, At(t, "user"),
           \A u \in Threads : Releases(t, thr[u], thr'[u], u),
           call' = [call EXCEPT ![t] = k], k.pc \in {"user", "leave", "reparent"}
    PROVE  SleepInv'
<1>f. /\ call \in [Threads -> CallRecord] /\ Sound(t, thr[t], call[t], OwnReaper(t))
      /\ CalmSelf(thr[t], call[t])
    BY ThreadFacts, SleepFacts
<1>0. thr[t].live /\ thr[t].queued /\ call[t].pc = "user" BY DEF At, Runs
<1>1. call'[t] = k /\ \A u \in Threads \ {t} : call'[u] = call[u] BY <1>f
<1>2. /\ thr'[t].vfork = None /\ thr'[t].queued /\ thr'[t].state # "INTERRUPTIBLE"
      /\ thr'[t].state # "ZOMBIE"
    BY <1>f, <1>0 DEF Releases, CalmSelf, Waiting, Sound
<1>3. ASSUME NEW u \in Threads PROVE CalmSelf(thr'[u], call'[u]) /\ CalmTold(thr[u], call[u], thr'[u], call'[u])
    <2>1. CASE u = t BY <2>1, <1>0, <1>1, <1>2 DEF CalmSelf, CalmTold, Asleep, Fallen, Waiting, Gone, Exiting
    <2>2. CASE u # t
        <3>1. CalmSelf(thr[u], call[u]) BY SleepFacts
        <3>2. Releases(t, thr[u], thr'[u], u) /\ call'[u] = call[u] BY <2>2, <1>1
        <3>3. CalmSelf(thr'[u], call'[u]) BY <2>2, <3>1, <3>2 DEF CalmSelf, Releases
        <3>4. CalmTold(thr[u], call[u], thr'[u], call'[u]) BY <3>2 DEF CalmTold, Asleep, Fallen, Releases
        <3>5. QED BY <3>3, <3>4
    <2>3. QED BY <2>1, <2>2
<1>4. \A u \in Threads : \A c \in thr'[u].kids : c \in thr[u].kids BY DEF Releases
<1>5. Told' BY <1>3, <1>4, ToldKept DEF SleepInv
<1>6. VforkOwing'
    <2> SUFFICES ASSUME NEW u \in Threads, Owed(thr'[u], call'[u])
                 PROVE  \E c \in Threads : thr'[c].live /\ thr'[c].vfork = u
        BY DEF VforkOwing
    <2>1. u # t BY <1>1, <1>2 DEF Owed
    <2>2. Releases(t, thr[u], thr'[u], u) /\ call'[u] = call[u] BY <2>1, <1>1
    <2>3. Owed(thr[u], call[u]) BY <2>2 DEF Owed, Releases
    <2>4. PICK c \in Threads : thr[c].live /\ thr[c].vfork = u BY <2>3 DEF SleepInv, VforkOwing
    <2>5. thr[u].live
        <3>1. Sound(u, thr[u], call[u], OwnReaper(u)) BY ThreadFacts
        <3>2. QED BY <2>3, <3>1, FreeThreadIs DEF Sound, Owed
    <2>6. thr[t].vfork # u BY <2>2, <2>5 DEF Releases, Owed, Sleeping
    <2>7. c # t BY <2>4, <2>6
    <2>8. Releases(t, thr[c], thr'[c], c) OBVIOUS
    <2>9. QED BY <2>4, <2>7, <2>8 DEF Releases
<1>7. QED BY <1>3, <1>5, <1>6, SelfKept DEF SleepInv

\* exec.
LEMMA ExecCalm ==
    ASSUME CountInv, CountInv', SleepInv, NEW t \in Threads, Exec(t)
    PROVE  SleepInv'
<1>f. call \in [Threads -> CallRecord] BY ThreadFacts
<1>1. At(t, "user") /\ thr[t].live /\ call[t].pc = "user" /\ thr' = VforkDone(t) /\ call' = [call EXCEPT ![t] = call[t]]
    BY <1>f DEF Exec, MayCall, At, Runs
<1>2. \A u \in Threads : Releases(t, thr[u], thr'[u], u) BY <1>1, VforkReleases
<1>3. QED BY <1>1, <1>2, ReleaseCalm

\* exit() begins.
LEMMA ExitStartsCalm ==
    ASSUME CountInv, CountInv', SleepInv, NEW t \in Threads, At(t, "user"),
           thr' = [VforkDone(t) EXCEPT ![t].killed = TRUE],
           Then(t, IF SelfReaps(t) THEN "reparent" ELSE "leave")
    PROVE  SleepInv'
<1>f. call \in [Threads -> CallRecord] BY ThreadFacts
<1>1. thr[t].live BY DEF At, Runs
<1>2. PICK k \in CallRecord : call' = [call EXCEPT ![t] = k] /\ k.pc = IF SelfReaps(t) THEN "reparent" ELSE "leave"
    BY <1>f, ThenIs DEF Pcs
<1> DEFINE th == VforkDone(t)
           r == [th[t] EXCEPT !.killed = TRUE]
<1>3. th \in [Threads -> ThreadRecord] BY <1>1, VforkDoneKeeps
<1>4. r \in ThreadRecord /\ Same(th[t], r) /\ r.state = th[t].state /\ r.queued = th[t].queued /\ r.vfork = th[t].vfork
    BY <1>3, KilledField
<1>5. thr' = [th EXCEPT ![t] = r] OBVIOUS
<1>6. \A u \in Threads : Releases(t, thr[u], th[u], u) BY <1>1, VforkReleases
<1> HIDE DEF th, r
<1>7. thr'[t] = r /\ \A u \in Threads \ {t} : thr'[u] = th[u] BY <1>3, <1>5
<1>8. Releases(t, thr[t], r, t)
    <2>1. Releases(t, thr[t], th[t], t) BY <1>6
    <2>2. QED BY <2>1, <1>4 DEF Releases, Same
<1>9. \A u \in Threads : Releases(t, thr[u], thr'[u], u) BY <1>6, <1>7, <1>8
<1>10. k.pc \in {"user", "leave", "reparent"} BY <1>2
<1>11. QED BY <1>2, <1>9, <1>10, ReleaseCalm

\* exit_group is called, by the first thread or by a later one.
LEMMA GroupExitCallCalm ==
    ASSUME CountInv, CountInv', SleepInv, NEW t \in Threads, GroupExitCall(t)
    PROVE  SleepInv'
<1>f. /\ thr[t] \in ThreadRecord /\ thr \in [Threads -> ThreadRecord] /\ call \in [Threads -> CallRecord]
      /\ CalmSelf(thr[t], call[t]) /\ Sound(t, thr[t], call[t], OwnReaper(t))
    BY ThreadFacts, SleepFacts
<1>1. At(t, "user") /\ call[t].pc = "user" BY DEF GroupExitCall, MayCall, At
<1>2. CASE group[thr[t].tg].exiting BY <1>1, <1>2, ExitStartsCalm DEF GroupExitCall
<1>3. CASE ~group[thr[t].tg].exiting
    <2>1. Then(t, "killothers") /\ thr' = [thr EXCEPT ![t] = thr[t]] BY <1>3, <1>f DEF GroupExitCall
    <2>2. PICK k \in CallRecord : call' = [call EXCEPT ![t] = k] /\ k.pc = "killothers"
        BY <1>f, <2>1, ThenIs DEF Pcs
    <2>3. Calm(thr[t], call[t], thr[t], k)
        BY <1>f, <1>1, <2>2 DEF Calm, CalmSelf, CalmTold, CalmOwe, Waiting, Gone, Exiting, Asleep, Fallen, Owed, Sound
    <2>4. QED BY <2>1, <2>2, <2>3, OwnCalm
<1>4. QED BY <1>2, <1>3

\* exit: the zombie reads its parent, which it is about to wake if it was the last.
LEMMA ExitReadParentCalm ==
    ASSUME CountInv, CountInv', SleepInv, NEW t \in Threads, ExitReadParent(t)
    PROVE  SleepInv'
<1>f. /\ thr[t] \in ThreadRecord /\ call[t] \in CallRecord /\ call \in [Threads -> CallRecord]
      /\ CalmSelf(thr[t], call[t])
    BY ThreadFacts, SleepFacts
<1> DEFINE k == IF call[t].last
                THEN [call[t] EXCEPT !.pc = "notify", !.child = thr[t].parent, !.kind = "switch"]
                ELSE [call[t] EXCEPT !.pc = "switch"]
<1>1. call[t].pc = "readparent" /\ call' = [call EXCEPT ![t] = k] /\ UNCHANGED thr
    BY <1>f DEF ExitReadParent, At
<1>2. /\ k.pc \in {"notify", "switch"} /\ k.last = call[t].last
      /\ call[t].last => k.pc = "notify" /\ k.child = thr[t].parent
    BY <1>f DEF CallRecord
<1> HIDE DEF k
<1>3. call'[t] = k /\ \A u \in Threads \ {t} : call'[u] = call[u] BY <1>1, <1>f
<1>4. \A u \in Threads : CalmSelf(thr'[u], call'[u]) /\ CalmOwe(thr[u], call[u], thr'[u], call'[u])
    <2>1. CalmSelf(thr[t], k) /\ CalmOwe(thr[t], call[t], thr[t], k)
        BY <1>f, <1>1, <1>2 DEF CalmSelf, CalmOwe, Owed, Gone, Exiting, Waiting
    <2>2. \A u \in Threads \ {t} : Calm(thr[u], call[u], thr[u], call[u]) BY CalmWakes, WakesRefl
    <2>3. QED BY <1>1, <1>3, <2>1, <2>2 DEF Calm
<1>5. Told'
    <2>1. \A u \in Threads : Asleep(thr'[u], call'[u]) => Asleep(thr[u], call[u])
        BY <1>1, <1>2, <1>3 DEF Asleep
    <2>2. \A c \in Threads : Fallen(thr'[c], call'[c]) => Fallen(thr[c], call[c])
        BY <1>1, <1>2, <1>3 DEF Fallen
    <2>3. \A u \in Threads : \A c \in thr'[u].kids : c \in thr[u].kids BY <1>1
    <2>4. ASSUME NEW u \in Threads, NEW c \in Threads, Fallen(thr'[c], call'[c]), c \in thr[u].kids, Telling(u, c)
          PROVE  Telling(u, c)'
        <3>1. CASE c = t
            <4>1. thr[t].parent = u BY <2>4, <3>1 DEF CountInv, Families, KidsAgree
            <4>2. call[t].last BY <2>4, <3>1, <1>2, <1>3 DEF Fallen
            <4>3. QED BY <3>1, <4>1, <4>2, <1>2, <1>3 DEF Telling
        <3>2. CASE c # t
            <4>1. call'[c] = call[c] BY <3>2, <1>3
            <4>2. \A v \in Threads : call[v].pc = "wakeinit" => call'[v].pc = "wakeinit" BY <1>1, <1>3
            <4>3. QED BY <2>4, <4>1, <4>2 DEF Telling
        <3>3. QED BY <3>1, <3>2
    <2>5. \A u \in Threads : Asleep(thr'[u], call'[u]) =>
                \A c \in thr'[u].kids : Fallen(thr'[c], call'[c]) => Telling(u, c)'
        BY <2>1, <2>2, <2>3, <2>4, TellKept DEF SleepInv
    <2>6. QED BY <2>5 DEF Told
<1>6. QED BY <1>4, <1>5, SelfKept, OweKept DEF SleepInv

\* exit: whoever is told is awake.  p is the parent, or init.
LEMMA TellerCalm ==
    ASSUME CountInv, CountInv', SleepInv, NEW t \in Threads, NEW k, NEW p \in Threads \cup {None},
           call[t].pc \in {"notify", "wakeinit"}, thr' = WakeInterruptible(thr, p),
           call' = [call EXCEPT ![t] = k], k.pc \in {"remove", "zombie", "release", "switch"},
           k.last = call[t].last,
           call[t].pc = "notify" => p = call[t].child, call[t].pc = "wakeinit" => p = initproc
    PROVE  SleepInv'
<1>f. /\ thr[t] \in ThreadRecord /\ thr \in [Threads -> ThreadRecord] /\ call \in [Threads -> CallRecord]
      /\ CalmSelf(thr[t], call[t])
    BY ThreadFacts, SleepFacts
<1>1. call'[t] = k /\ \A u \in Threads \ {t} : call'[u] = call[u] BY <1>f
<1>2. \A u \in Threads : /\ Wakes(thr[u], thr'[u])
                         /\ u = p /\ thr[u].live => thr'[u].state # "INTERRUPTIBLE"
    <2>1. \A u \in Threads :
             /\ Wakes(thr[u], Woken(thr, p, {"INTERRUPTIBLE"})[u])
             /\ u = p /\ thr[u].live => Woken(thr, p, {"INTERRUPTIBLE"})[u].state \notin {"INTERRUPTIBLE"} \ {"RUNNING"}
        BY <1>f, WokenWakes
    <2>2. QED BY <2>1 DEF WakeInterruptible
<1>3. ASSUME NEW u \in Threads, Asleep(thr'[u], call'[u]) PROVE u # p /\ Asleep(thr[u], call[u])
    <2>1. u # t BY <1>3, <1>1 DEF Asleep
    <2>2. Asleep(thr[u], call[u]) BY <1>1, <1>2, <1>3, <2>1 DEF Asleep, Wakes
    <2>3. Sound(u, thr[u], call[u], OwnReaper(u)) BY ThreadFacts
    <2>4. thr[u].live BY <2>2, <2>3 DEF Sound, Asleep
    <2>5. QED BY <1>2, <1>3, <2>2, <2>4 DEF Asleep
<1>4. \A u \in Threads : CalmSelf(thr'[u], call'[u]) /\ CalmOwe(thr[u], call[u], thr'[u], call'[u])
    <2>0. Wakes(thr[t], thr'[t]) BY <1>2
    <2>1. CalmSelf(thr'[t], k) /\ CalmOwe(thr[t], call[t], thr'[t], k)
        BY <1>f, <2>0 DEF CalmSelf, CalmOwe, Owed, Gone, Exiting, Waiting, Wakes
    <2>2. \A u \in Threads \ {t} : Calm(thr[u], call[u], thr'[u], call[u]) BY <1>2, CalmWakes
    <2>3. QED BY <1>1, <2>1, <2>2 DEF Calm
<1>5. Told'
    <2>2. \A c \in Threads : Fallen(thr'[c], call'[c]) => Fallen(thr[c], call[c])
        BY <1>1, <1>2 DEF Fallen, Wakes
    <2>3. \A u \in Threads : \A c \in thr'[u].kids : c \in thr[u].kids BY <1>2 DEF Wakes
    <2>4. ASSUME NEW u \in Threads, NEW c \in Threads, Asleep(thr'[u], call'[u]), Telling(u, c)
          PROVE  Telling(u, c)'
        <3>1. u # p BY <1>3, <2>4
        <3>2. CASE call[c].pc = "readparent" \/ (call[c].pc = "notify" /\ call[c].child = u)
            <4>1. c # t BY <3>1, <3>2
            <4>2. QED BY <3>2, <4>1, <1>1 DEF Telling
        <3>3. CASE u = initproc /\ \E v \in Threads : call[v].pc = "wakeinit"
            <4>1. PICK v \in Threads : call[v].pc = "wakeinit" BY <3>3
            <4>2. v # t BY <3>1, <3>3, <4>1
            <4>3. QED BY <3>3, <4>1, <4>2, <1>1 DEF Telling
        <3>4. QED BY <2>4, <3>2, <3>3 DEF Telling
    <2>5. \A u \in Threads : Asleep(thr'[u], call'[u]) =>
                \A c \in thr'[u].kids : Fallen(thr'[c], call'[c]) => Telling(u, c)'
        BY <1>3, <2>2, <2>3, <2>4, TellKept DEF SleepInv
    <2>6. QED BY <2>5 DEF Told
<1>6. QED BY <1>4, <1>5, SelfKept, OweKept DEF SleepInv

\* exit: init is woken.
LEMMA ExitWakeInitCalm ==
    ASSUME CountInv, CountInv', SleepInv, NEW t \in Threads, ExitWakeInit(t)
    PROVE  SleepInv'
<1>f. call[t] \in CallRecord /\ Sound(t, thr[t], call[t], OwnReaper(t)) BY ThreadFacts
<1> DEFINE k == [call[t] EXCEPT !.pc = call[t].kind, !.kind = None]
<1>1. call[t].pc = "wakeinit" /\ call' = [call EXCEPT ![t] = k] /\ thr' = WakeInterruptible(thr, initproc)
    BY DEF ExitWakeInit, At
<1>2. k.pc = call[t].kind /\ k.last = call[t].last BY <1>f DEF CallRecord
<1>3. call[t].kind \in {"remove", "zombie"} BY <1>f, <1>1 DEF Sound
<1> HIDE DEF k
<1>4. QED BY <1>1, <1>2, <1>3, Consts, TellerCalm

\* exit: the parent is woken.
LEMMA ExitNotifyCalm ==
    ASSUME CountInv, CountInv', SleepInv, NEW t \in Threads, ExitNotify(t)
    PROVE  SleepInv'
<1>f. call[t] \in CallRecord /\ Sound(t, thr[t], call[t], OwnReaper(t)) BY ThreadFacts
<1> DEFINE k == [call[t] EXCEPT !.pc = call[t].kind, !.child = None, !.kind = None]
<1>1. call[t].pc = "notify" /\ call' = [call EXCEPT ![t] = k] /\ thr' = WakeInterruptible(thr, call[t].child)
    BY DEF ExitNotify, At
<1>2. k.pc = call[t].kind /\ k.last = call[t].last BY <1>f DEF CallRecord
<1>3. call[t].kind \in {"release", "switch"} /\ call[t].child \in Threads \cup {None}
    BY <1>f, <1>1 DEF Sound, CallRecord
<1> HIDE DEF k
<1>4. QED BY <1>1, <1>2, <1>3, TellerCalm

\* exit: the children go to init, which is about to be woken if one is a zombie.
LEMMA ExitReparentCalm ==
    ASSUME CountInv, CountInv', SleepInv, NEW t \in Threads, ExitReparent(t)
    PROVE  SleepInv'
<1>f. /\ thr[t] \in ThreadRecord /\ call[t] \in CallRecord /\ Sound(t, thr[t], call[t], OwnReaper(t))
      /\ thr \in [Threads -> ThreadRecord] /\ call \in [Threads -> CallRecord]
      /\ CalmSelf(thr[t], call[t])
    BY ThreadFacts, SleepFacts
<1> DEFINE next == IF SelfReaps(t) THEN "remove" ELSE "zombie"
           z == \E c \in thr[t].kids : thr[c].state = "ZOMBIE"
           k == [call[t] EXCEPT !.pc = IF z THEN "wakeinit" ELSE next, !.kind = IF z THEN next ELSE None]
<1>1. call[t].pc = "reparent" /\ call' = [call EXCEPT ![t] = k]
    BY DEF ExitReparent, Reparent, At
<1>2. k.pc = (IF z THEN "wakeinit" ELSE next) BY <1>f DEF CallRecord
<1>3. k.pc \in {"wakeinit", "remove", "zombie"} /\ (z => k.pc = "wakeinit") BY <1>2
<1> HIDE DEF k
<1>4. call'[t] = k /\ \A u \in Threads \ {t} : call'[u] = call[u] BY <1>1, <1>f
<1>5. ASSUME NEW u \in Threads
      PROVE  /\ thr'[u].live = thr[u].live /\ thr'[u].queued = thr[u].queued
             /\ thr'[u].state = thr[u].state /\ thr'[u].kind = thr[u].kind /\ thr'[u].vfork = thr[u].vfork
             /\ \A c \in thr'[u].kids : c \in thr[u].kids \/ (u = initproc /\ c \in thr[t].kids)
    <2>0. thr[u] \in ThreadRecord BY <1>f
    <2>1. \/ u = t /\ thr'[u] = [thr[u] EXCEPT !.kids = {}]
          \/ u = initproc /\ thr'[u] = [thr[u] EXCEPT !.kids = thr[u].kids \cup thr[t].kids]
          \/ thr'[u] = [thr[u] EXCEPT !.parent = initproc]
          \/ thr'[u] = thr[u]
        BY DEF ExitReparent, Reparent
    <2>2. thr'[u].live = thr[u].live /\ thr'[u].queued = thr[u].queued BY <2>0, <2>1 DEF ThreadRecord
    <2>3. thr'[u].state = thr[u].state /\ thr'[u].kind = thr[u].kind /\ thr'[u].vfork = thr[u].vfork
        BY <2>0, <2>1 DEF ThreadRecord
    <2>4. \A c \in thr'[u].kids : c \in thr[u].kids \/ (u = initproc /\ c \in thr[t].kids)
        BY <2>0, <2>1 DEF ThreadRecord
    <2>5. QED BY <2>2, <2>3, <2>4
<1>6. ASSUME NEW u \in Threads PROVE Calm(thr[u], call[u], thr'[u], call'[u])
    <2>0. /\ thr'[u].live = thr[u].live /\ thr'[u].queued = thr[u].queued /\ CalmSelf(thr[u], call[u])
          /\ thr'[u].state = thr[u].state /\ thr'[u].kind = thr[u].kind /\ thr'[u].vfork = thr[u].vfork
        BY <1>5, SleepFacts
    <2>1. CASE u = t
        <3>1. Calm(thr[t], call[t], thr'[t], k)
            BY <1>f, <1>1, <1>3, <2>0, <2>1
               DEF Calm, CalmSelf, CalmTold, CalmOwe, Waiting, Gone, Exiting, Asleep, Fallen, Owed, Sound
        <3>2. QED BY <2>1, <3>1, <1>4
    <2>2. CASE u # t
        <3>1. Calm(thr[u], call[u], thr'[u], call[u])
            BY <2>0 DEF Calm, CalmSelf, CalmTold, CalmOwe, Waiting, Gone, Exiting, Asleep, Fallen, Owed
        <3>2. QED BY <2>2, <3>1, <1>4
    <2>3. QED BY <2>1, <2>2
<1>7. Told'
    <2>1. CASE z
        <3>1. call'[t].pc = "wakeinit" BY <2>1, <1>3, <1>4
        <3>2. \A c : Telling(initproc, c)' BY <3>1 DEF Telling
        <3>3. \A u \in Threads : Asleep(thr'[u], call'[u]) => Asleep(thr[u], call[u]) BY <1>6 DEF Calm, CalmTold
        <3>4. \A c \in Threads : Fallen(thr'[c], call'[c]) /\ thr'[c].kind # "thread" =>
                   Fallen(thr[c], call[c]) \/ call'[c].pc = "readparent"
            BY <1>6 DEF Calm, CalmTold
        <3>5. \A u \in Threads \ {initproc} : \A c \in thr'[u].kids : c \in thr[u].kids BY <1>5
        <3>6. \A u \in Threads \ {initproc} : \A c \in Threads : Telling(u, c) => Telling(u, c)'
            BY <1>1, <1>4 DEF Telling
        <3>7. \A u \in Threads \ {initproc} : Asleep(thr'[u], call'[u]) =>
                \A c \in thr'[u].kids : Fallen(thr'[c], call'[c]) => Telling(u, c)'
            BY <3>3, <3>4, <3>5, <3>6, TellKept DEF SleepInv
        <3>8. QED BY <3>2, <3>7 DEF Told
    <2>2. CASE ~z
        <3>1. \A c \in thr[t].kids : thr'[c].state # "ZOMBIE"
            <4>1. \A c \in thr[t].kids : c \in Threads BY <1>f DEF ThreadRecord
            <4>2. QED BY <2>2, <4>1, <1>5
        <3>2. \A u \in Threads : \A c \in thr'[u].kids : c \in thr[u].kids \/ thr'[c].state # "ZOMBIE"
            BY <3>1, <1>5
        <3>3. QED BY <3>2, <1>6, ToldKept DEF Calm, SleepInv
    <2>3. QED BY <2>1, <2>2
<1>8. QED BY <1>6, <1>7, SelfKept, OweKept DEF SleepInv, Calm

\* wait: the scan found no zombie.
LEMMA WaitNoneCalm ==
    ASSUME CountInv, CountInv', SleepInv, NEW t \in Threads, WaitNone(t)
    PROVE  SleepInv'
<1>f. /\ thr[t] \in ThreadRecord /\ thr \in [Threads -> ThreadRecord] /\ call \in [Threads -> CallRecord]
      /\ CalmSelf(thr[t], call[t])
    BY ThreadFacts, SleepFacts
<1>1. thr[t].queued /\ call[t].pc = "scan" /\ Zombies(t) = {} BY DEF WaitNone, At, Runs
<1>2. CASE thr[t].kids = {}
    <2> DEFINE r == [thr[t] EXCEPT !.state = "RUNNING"]
    <2>1. thr' = [thr EXCEPT ![t] = r] /\ call' = [call EXCEPT ![t] = InUser]
        BY <1>2 DEF WaitNone
    <2>2. Same(thr[t], r) /\ r.state = "RUNNING" /\ r.vfork = thr[t].vfork BY <1>f, StateField DEF States
    <2> HIDE DEF r
    <2>3. Calm(thr[t], call[t], r, InUser)
        BY <1>f, <1>1, <2>2, InUserType
           DEF Calm, CalmSelf, CalmTold, CalmOwe, Waiting, Gone, Exiting, Asleep, Fallen, Owed, Same
    <2>4. r.kids \subseteq thr[t].kids BY <2>2 DEF Same
    <2>5. QED BY <2>1, <2>3, <2>4, OwnCalm
<1>3. CASE thr[t].kids # {}
    <2>1. Then(t, "sleep") /\ UNCHANGED thr BY <1>3 DEF WaitNone
    <2>2. PICK k \in CallRecord : call' = [call EXCEPT ![t] = k] /\ k.pc = "sleep" /\ k.last = call[t].last
        BY <1>f, <2>1, ThenIs DEF Pcs
    <2>3. call'[t] = k /\ \A u \in Threads \ {t} : call'[u] = call[u] BY <2>2, <1>f
    <2>4. \A u \in Threads : CalmSelf(thr'[u], call'[u]) /\ CalmOwe(thr[u], call[u], thr'[u], call'[u])
        <3>1. CalmSelf(thr[t], k) /\ CalmOwe(thr[t], call[t], thr[t], k)
            BY <1>f, <1>1, <2>2 DEF CalmSelf, CalmOwe, Owed, Gone, Exiting, Waiting
        <3>2. \A u \in Threads \ {t} : Calm(thr[u], call[u], thr[u], call[u]) BY CalmWakes, WakesRefl
        <3>3. QED BY <2>1, <2>3, <3>1, <3>2 DEF Calm
    <2>5. Told'
        <3>1. \A u \in Threads \ {t} : Asleep(thr'[u], call'[u]) => Asleep(thr[u], call[u]) BY <2>1, <2>3
        <3>2. \A c \in Threads : Fallen(thr'[c], call'[c]) => Fallen(thr[c], call[c])
            BY <2>1, <2>2, <2>3 DEF Fallen
        <3>3. \A u \in Threads \ {t} : \A c \in thr'[u].kids : c \in thr[u].kids BY <2>1
        <3>4. \A u \in Threads \ {t} : \A c \in Threads : Telling(u, c) => Telling(u, c)'
            <4>1. ASSUME NEW u \in Threads, NEW c \in Threads, Telling(u, c) PROVE Telling(u, c)'
                <5>1. \A v \in Threads : call[v].pc \in {"readparent", "notify", "wakeinit"} => call'[v] = call[v]
                    BY <1>1, <2>3
                <5>2. QED BY <4>1, <5>1 DEF Telling
            <4>2. QED BY <4>1
        <3>5. \A u \in Threads \ {t} : Asleep(thr'[u], call'[u]) =>
                \A c \in thr'[u].kids : Fallen(thr'[c], call'[c]) => Telling(u, c)'
            BY <3>1, <3>2, <3>3, <3>4, TellKept DEF SleepInv
        <3>6. \A c \in thr'[t].kids : ~Fallen(thr'[c], call'[c]) BY <1>1, <2>1 DEF Zombies, Fallen
        <3>7. QED BY <3>5, <3>6 DEF Told
    <2>6. QED BY <2>4, <2>5, SelfKept, OweKept DEF SleepInv
<1>4. QED BY <1>2, <1>3

-----------------------------------------------------------------------------
\* Initially nobody sleeps.
LEMMA InitSleepInv ==
    ASSUME ProcessInit
    PROVE  SleepInv
<1>1. PICK g \in Groups :
        thr = [t \in Threads |-> IF t = initproc
                                 THEN [FreeThread EXCEPT !.live = TRUE, !.state = "RUNNING",
                                                         !.queued = TRUE, !.pid = 1, !.tg = g]
                                 ELSE FreeThread]
    BY DEF ProcessInit
<1>2. \A t \in Threads : call[t].pc = "user" BY DEF ProcessInit, InUser
<1>3. \A t \in Threads : thr[t].state \in {"RUNNING", "UNUSED"}
    BY <1>1 DEF FreeThread
<1>4. Interruptible BY <1>3 DEF Interruptible
<1>5. VforkGone BY <1>2 DEF VforkGone, Gone, Exiting
<1>6. Told BY <1>3 DEF Told, Asleep
<1>7. VforkOwing BY <1>3 DEF VforkOwing, Owed
<1>8. QED BY <1>4, <1>5, <1>6, <1>7 DEF SleepInv

\* Every step of the processes keeps it.
LEMMA SleepStep ==
    ASSUME CountInv, SleepInv, ProcessNext
    PROVE  SleepInv'
<1>0. CountInv' BY ProcessStep
<1>1. CASE \E g \in Groups : KillGroup(g) BY <1>0, <1>1, KillGroupCalm
<1>2. CASE \E t \in Threads :
            \/ \E kind \in CloneKinds : CloneReserve(t, kind)
            \/ CloneCreate(t) \/ CloneFail(t) \/ CloneAttach(t) \/ KthreadGroup(t) \/ CloneStart(t)
            \/ VforkYield(t) \/ Exec(t)
    BY <1>0, <1>2, CloneReserveCalm, CloneCreateCalm, CloneFailCalm, CloneAttachCalm, KthreadGroupCalm,
       CloneStartCalm, VforkYieldCalm, ExecCalm
<1>3. CASE \E t \in Threads :
            \/ ExitCall(t) \/ ExitLeave(t) \/ ExitReparent(t) \/ ExitWakeInit(t) \/ ExitRemove(t)
            \/ ExitLastOut(t) \/ ExitZombie(t) \/ ExitReadParent(t) \/ ExitNotify(t)
            \/ ExitRelease(t) \/ SelfReap(t) \/ ExitSwitch(t)
    <2>1. \A t \in Threads : ExitCall(t) => SleepInv' BY <1>0, ExitStartsCalm DEF ExitCall
    <2>2. QED BY <1>0, <1>3, <2>1, ExitLeaveCalm, ExitReparentCalm, ExitWakeInitCalm, ExitRemoveCalm,
              ExitLastOutCalm, ExitZombieCalm, ExitReadParentCalm, ExitNotifyCalm, ExitReleaseCalm,
              FreedCalm, ExitSwitchCalm
<1>4. CASE \E t \in Threads :
            \/ WaitPrepare(t) \/ WaitNone(t) \/ WaitSleep(t) \/ WaitReap(t)
            \/ WaitReapLocked(t)
            \/ GroupExitCall(t) \/ GroupExitKill(t) \/ LookupDone(t) \/ RcuFree(t)
            \/ \E c \in Threads : WaitFind(t, c) \/ WaitSpin(t, c) \/ Lookup(t, c)
    BY <1>0, <1>4, WaitPrepareCalm, WaitNoneCalm, WaitSleepCalm, WaitReapCalm, GroupExitCallCalm,
       GroupExitKillCalm, LookupCalm, FreedCalm, WaitFindCalm
<1>5. QED BY <1>1, <1>2, <1>3, <1>4 DEF ProcessNext

\* The other parts of MCProcess leave the sleepers alone.
LEMMA SleepStays ==
    ASSUME SleepInv, UNCHANGED procVars
    PROVE  SleepInv'
<1>u. thr' = thr /\ call' = call BY DEF procVars
<1>1. \A t, c : Telling(t, c)' <=> Telling(t, c) BY <1>u DEF Telling
<1>2. QED BY <1>u, <1>1 DEF SleepInv, Interruptible, VforkGone, Told, VforkOwing

\* What the property says follows from the two invariants.
LEMMA NobodyOversleeps ==
    ASSUME CountInv, SleepInv
    PROVE  WaiterIsTold /\ VforkIsReleased
<1>1. WaiterIsTold
    <2> SUFFICES ASSUME NEW t \in Threads, NEW c \in Threads, call[c].last, Forgotten(t, c) PROVE FALSE
        BY DEF WaiterIsTold
    <2>1. /\ ~thr[t].queued /\ thr[t].state = "INTERRUPTIBLE" /\ c \in thr[t].kids
          /\ thr[c].state = "ZOMBIE" /\ ~thr[c].queued
          /\ \A u \in Threads : Runs(u) => call[u].pc # "wakeinit"
        BY DEF Forgotten
    <2>2. Sound(t, thr[t], call[t], OwnReaper(t)) /\ Sound(c, thr[c], call[c], OwnReaper(c)) /\ CalmSelf(thr[t], call[t])
        BY ThreadFacts, SleepFacts
    <2>3. call[t].pc = "wait" BY <2>1, <2>2 DEF Sound, OffCpu, CalmSelf, Waiting
    <2>4. Telling(t, c) BY <2>1, <2>3 DEF SleepInv, Told, Asleep, Fallen
    <2>5. call[c].pc \notin {"readparent", "notify"} BY <2>1, <2>2 DEF Sound, OffCpu
    <2>6. PICK u \in Threads : call[u].pc = "wakeinit" BY <2>4, <2>5 DEF Telling
    <2>7. Sound(u, thr[u], call[u], OwnReaper(u)) BY ThreadFacts
    <2>8. Runs(u) BY <2>6, <2>7 DEF Sound, OffCpu, Runs
    <2>9. QED BY <2>1, <2>6, <2>8
<1>2. VforkIsReleased BY DEF SleepInv, VforkOwing, Owed, VforkIsReleased
<1>3. QED BY <1>1, <1>2

\* A thread asleep in wait() has no zombie child that was the last of its group, unless
\* somebody is about to wake it, and the caller of vfork asleep has a child that still
\* owes it the wakeup: for any number of threads and groups.
THEOREM SleepersAreToldAlways == ProcSpec => []SleepersAreTold
<1> DEFINE Inv == CountInv /\ SleepInv
<1>1. ProcInit => Inv BY InitCountInv, InitSleepInv DEF ProcInit
<1>2. Inv /\ [ProcNext]_all => Inv'
    <2> SUFFICES ASSUME CountInv, SleepInv, [ProcNext]_all PROVE CountInv' /\ SleepInv' OBVIOUS
    <2>1. ProcessNext \/ UNCHANGED procVars BY DEF ProcNext, all
    <2>2. QED BY <2>1, ProcessStep, ProcessStays, SleepStep, SleepStays
<1>3. Inv => SleepersAreTold BY NobodyOversleeps DEF SleepersAreTold
<1>4. QED BY <1>1, <1>2, <1>3, PTL DEF ProcSpec
=============================================================================
