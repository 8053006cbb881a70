---------------------------- MODULE SchedProofs ----------------------------
(***************************************************************************)
(* The scheduler, for any number of CPUs and threads and any priorities    *)
(* and affinities: no thread has two places, and a runnable one is where   *)
(* its CPU looks.                                                          *)
(*                                                                         *)
(* Neither is inductive.  Between a thread's decision to sleep and the end *)
(* of the switch away from it the thread belongs to its run queue without  *)
(* being on a list: OnCpu and OnRq say where it is then, by se->on_cpu and *)
(* se->on_rq, and Lists the converse.  A waker acts on a cpu_id it read    *)
(* before it had the run queue locks: LocksHeld and CpuIdIsCurrent say     *)
(* why those are the right locks all the same.  Ready bits are cleared by  *)
(* count: Counts says what is counted, and Masks that no bit goes that     *)
(* leads to a list.                                                        *)
(***************************************************************************)
EXTENDS MCSched, Sequences, FiniteSetTheorems, WellFoundedInduction, TLAPS

-----------------------------------------------------------------------------
(* The invariant *)

\* The entry t is linked into the list.
InList(q, t) == \E i \in 1..Len(q) : q[i] = t

\* No entry is linked twice.
Distinct(q) == \A i, j \in 1..Len(q) : q[i] = q[j] => i = j

FifoClasses == S!Classes \ {S!IDLE_MAJOR_PRIORITY}

RqType ==
  [list : [Priorities -> Seq(SchedThreads)], count : [Priorities -> Int],
   ready : SUBSET Priorities, task_count : [FifoClasses -> Int],
   secondary : SUBSET S!Classes, top : SUBSET Int]

HartOrNone == Harts \cup {NoThread}

WakeType ==
  [p : SchedThreads \cup {NoThread}, from : {"SLEEPING", "STOPPED"},
   origin : HartOrNone, target : HartOrNone]

SchedTypeOK ==
  /\ state \in [SchedThreads -> S!States]
  /\ cpu_id \in [SchedThreads -> HartOrNone]
  /\ se_rq \in [SchedThreads -> HartOrNone]
  /\ on_cpu \in [SchedThreads -> BOOLEAN]
  /\ pi_lock \in [SchedThreads -> HartOrNone]
  /\ rq \in [Harts -> RqType]
  /\ rq_lock \in [Harts -> HartOrNone]
  /\ current \in [Harts -> SchedThreads \cup {Idle}]
  /\ prev \in [Harts -> SchedThreads \cup {Idle}]
  /\ doing \in [Harts -> S!PCs]
  /\ wake \in [Harts -> WakeType]

\* Who is past a lock operation holds the lock, and a waker knows its arguments.
LocksHeld ==
  \A c \in Harts :
    /\ doing[c] \in {"wpi", "wsel", "wtry", "wset"} => wake[c].p \in SchedThreads
    /\ doing[c] \in {"wsel", "wtry", "wset"} => pi_lock[wake[c].p] = c
    /\ doing[c] \in {"wtry", "wset"} => wake[c].origin \in Harts /\ wake[c].target \in Harts
    /\ doing[c] = "wset" => rq_lock[wake[c].origin] = c /\ rq_lock[wake[c].target] = c
    /\ doing[c] = "switch" => rq_lock[c] = c

\* cpu_id moves only under pi_lock: what a waker read of it still holds.
CpuIdIsCurrent ==
  \A c \in Harts : doing[c] \in {"wtry", "wset"} =>
    cpu_id[wake[c].p] \in {NoThread, wake[c].origin}

SwitchesFrom(c, t) == doing[c] = "switch" /\ prev[c] = t

\* A thread on a CPU is on its run queue too, except for a zombie being left.
OnCpu ==
  /\ \A t \in SchedThreads, c \in Harts : current[c] = t =>
       on_cpu[t] /\ cpu_id[t] = c /\ se_rq[t] = c /\ state[t] # "WAKENING"
  /\ \A t \in SchedThreads, c \in Harts : SwitchesFrom(c, t) =>
       /\ on_cpu[t] /\ cpu_id[t] = c /\ current[c] # t /\ state[t] # "WAKENING"
       /\ se_rq[t] = IF state[t] = "ZOMBIE" THEN NoThread ELSE c
  /\ \A t \in SchedThreads : on_cpu[t] =>
       \E c \in Harts : current[c] = t \/ SwitchesFrom(c, t)

\* A thread of a run queue that no CPU runs is in its list; others sleep.
OnRq ==
  \A t \in SchedThreads :
    /\ se_rq[t] # NoThread => cpu_id[t] = se_rq[t]
    /\ se_rq[t] # NoThread /\ ~on_cpu[t] => InList(rq[se_rq[t]].list[Priority[t]], t)
    /\ se_rq[t] = NoThread /\ ~on_cpu[t] => state[t] \in {"SLEEPING", "STOPPED", "ZOMBIE"}

\* A list holds once each some runnable threads of its run queue no CPU runs.
Lists ==
  \A c \in Harts, p \in Priorities :
    /\ Distinct(rq[c].list[p])
    /\ \A t \in SchedThreads : InList(rq[c].list[p], t) =>
         /\ se_rq[t] = c /\ Priority[t] = p /\ ~on_cpu[t]
         /\ state[t] \in {"RUNNING", "WAKENING"}

\* The bits lead to every list that is not empty.
MasksLead(r) ==
  \A p \in Priorities : r.list[p] # <<>> =>
    /\ p \in r.ready
    /\ S!MAJOR_PRIORITY(p) \in r.secondary
    /\ S!Group(S!MAJOR_PRIORITY(p)) \in r.top

Masks == \A c \in Harts : MasksLead(rq[c])

\* The threads the counts of c's run queue are about.
OfPriority(c, p) == {t \in SchedThreads : se_rq[t] = c /\ Priority[t] = p}

OfClass(c, cls) == {t \in SchedThreads : se_rq[t] = c /\ S!MAJOR_PRIORITY(Priority[t]) = cls}

Counts ==
  \A c \in Harts :
    /\ \A p \in Priorities : rq[c].count[p] = Cardinality(OfPriority(c, p))
    /\ \A cls \in FifoClasses : rq[c].task_count[cls] = Cardinality(OfClass(c, cls))

SchedInv ==
  /\ SchedTypeOK /\ LocksHeld /\ CpuIdIsCurrent
  /\ OnCpu /\ OnRq /\ Lists /\ Masks /\ Counts

-----------------------------------------------------------------------------
(* Lists, minima and classes *)

Less == {ss \in Nat \X Nat : ss[1] < ss[2]}

\* The least element the bit scans find exists.
LEMMA HasLeast ==
  ASSUME NEW A \in SUBSET Nat, A # {}
  PROVE  \E x \in A : \A y \in A : x <= y
  <1>1. IsWellFoundedOn(Less, Nat)
    BY NatLessThanWellFounded DEF OpToRel, Less
  <1>2. PICK x \in A : \A y \in A : ~(<<y, x>> \in Less)
    BY <1>1, WFMin
  <1>3. ASSUME NEW y \in A PROVE x <= y
    <2>1. x \in Nat /\ y \in Nat
      OBVIOUS
    <2>2. ~(y < x)
      BY <1>2, <2>1 DEF Less
    <2>3. QED
      BY <2>1, <2>2
  <1>4. QED
    BY <1>3

\* S!Least picks it.
LEMMA LeastIn ==
  ASSUME NEW A \in SUBSET Nat, A # {}
  PROVE  S!Least(A) \in A
  BY HasLeast DEF S!Least

\* list_node_push adds exactly its entry.
LEMMA PushList ==
  ASSUME NEW T, NEW q \in Seq(T), NEW t \in T
  PROVE  /\ Append(q, t) \in Seq(T)
         /\ \A u \in T : InList(Append(q, t), u) <=> InList(q, u) \/ u = t
         /\ Distinct(q) /\ ~InList(q, t) => Distinct(Append(q, t))
  <1>1. /\ Append(q, t) \in Seq(T)
        /\ Len(Append(q, t)) = Len(q) + 1 /\ Len(q) \in Nat
        /\ \A i \in 1..Len(q) : Append(q, t)[i] = q[i]
        /\ Append(q, t)[Len(q) + 1] = t
    OBVIOUS
  <1>2. ASSUME NEW u \in T, InList(Append(q, t), u)
        PROVE  InList(q, u) \/ u = t
    <2>1. PICK i \in 1..(Len(q) + 1) : Append(q, t)[i] = u
      BY <1>1, <1>2 DEF InList
    <2>2. CASE i = Len(q) + 1
      BY <1>1, <2>1, <2>2
    <2>3. CASE i \in 1..Len(q)
      BY <1>1, <2>1, <2>3 DEF InList
    <2>4. QED
      BY <1>1, <2>2, <2>3
  <1>3. ASSUME NEW u \in T, InList(q, u) PROVE InList(Append(q, t), u)
    <2>1. PICK i \in 1..Len(q) : q[i] = u
      BY <1>3 DEF InList
    <2>2. i \in 1..Len(Append(q, t)) /\ Append(q, t)[i] = u
      BY <1>1, <2>1
    <2>3. QED
      BY <2>2 DEF InList
  <1>4. InList(Append(q, t), t)
    <2>1. Len(q) + 1 \in 1..Len(Append(q, t))
      BY <1>1
    <2>2. QED
      BY <1>1, <2>1 DEF InList
  <1>5. ASSUME Distinct(q), ~InList(q, t) PROVE Distinct(Append(q, t))
    <2>1. \A i \in 1..Len(q) : q[i] # t
      BY <1>5 DEF InList
    <2>2. QED
      BY <1>1, <1>5, <2>1 DEF Distinct
  <1>6. QED
    BY <1>1, <1>2, <1>3, <1>4, <1>5

\* list_node_detach removes exactly its entry.
LEMMA DetachList ==
  ASSUME NEW T, NEW q \in Seq(T), NEW t, Distinct(q)
  PROVE  /\ S!list_detach(q, t) \in Seq(T)
         /\ Distinct(S!list_detach(q, t))
         /\ \A u \in T : InList(S!list_detach(q, t), u) <=> InList(q, u) /\ u # t
         /\ ~InList(q, t) => S!list_detach(q, t) = q
  <1>1. CASE ~InList(q, t)
    <2>1. S!list_detach(q, t) = q
      BY <1>1 DEF S!list_detach, InList
    <2>2. QED
      BY <1>1, <2>1
  <1>2. CASE InList(q, t)
    <2> DEFINE at == CHOOSE i \in 1..Len(q) : q[i] = t
               r == S!list_detach(q, t)
    <2>1. at \in 1..Len(q) /\ q[at] = t
      BY <1>2 DEF InList
    <2>2. r = [i \in 1..(Len(q) - 1) |-> IF i < at THEN q[i] ELSE q[i + 1]]
      BY <1>2 DEF S!list_detach, InList
    <2> HIDE DEF at, r
    <2>3. Len(q) \in Nat /\ Len(q) >= 1 /\ Len(q) - 1 \in Nat
      BY <2>1
    <2>4. \A i \in 1..(Len(q) - 1) : (IF i < at THEN q[i] ELSE q[i + 1]) \in T
      BY <2>1, <2>3
    <2>5. r \in Seq(T) /\ Len(r) = Len(q) - 1
      BY <2>2, <2>3, <2>4
    <2>6. \A i \in 1..Len(r) : r[i] = IF i < at THEN q[i] ELSE q[i + 1]
      BY <2>2, <2>5
    <2>7. Distinct(r)
      BY <2>1, <2>3, <2>5, <2>6 DEF Distinct
    <2>8. ASSUME NEW u \in T, InList(r, u) PROVE InList(q, u) /\ u # t
      <3>1. PICK i \in 1..Len(r) : r[i] = u
        BY <2>8 DEF InList
      <3>2. PICK j \in 1..Len(q) : q[j] = u /\ j # at
        <4>1. CASE i < at
          BY <2>1, <2>3, <2>5, <2>6, <3>1, <4>1
        <4>2. CASE ~(i < at)
          <5>1. i + 1 \in 1..Len(q) /\ i + 1 # at /\ q[i + 1] = u
            BY <2>1, <2>3, <2>5, <2>6, <3>1, <4>2
          <5>2. QED
            BY <5>1
        <4>3. QED
          BY <4>1, <4>2
      <3>3. QED
        BY <2>1, <3>2 DEF InList, Distinct
    <2>9. ASSUME NEW u \in T, InList(q, u), u # t PROVE InList(r, u)
      <3>1. PICK i \in 1..Len(q) : q[i] = u
        BY <2>9 DEF InList
      <3>2. i # at
        BY <2>1, <2>9, <3>1
      <3>3. CASE i < at
        <4>1. i \in 1..Len(r) /\ r[i] = u
          BY <2>1, <2>3, <2>5, <2>6, <3>1, <3>3
        <4>2. QED
          BY <4>1 DEF InList
      <3>4. CASE i > at
        <4>1. i - 1 \in 1..Len(r) /\ r[i - 1] = u
          BY <2>1, <2>3, <2>5, <2>6, <3>1, <3>4
        <4>2. QED
          BY <4>1 DEF InList
      <3>5. QED
        BY <2>1, <3>2, <3>3, <3>4
    <2>10. QED
      BY <1>2, <2>5, <2>7, <2>8, <2>9 DEF r
  <1>3. QED
    BY <1>1, <1>2

\* A list with no member is empty.
LEMMA EmptyList ==
  ASSUME NEW T, NEW q \in Seq(T), \A t \in T : ~InList(q, t)
  PROVE  q = <<>>
  <1>1. SUFFICES ASSUME q # <<>> PROVE FALSE
    OBVIOUS
  <1>2. 1 \in 1..Len(q) /\ q[1] \in T
    BY <1>1
  <1>3. QED
    BY <1>2 DEF InList

\* The class of a priority is one of the FIFO classes.
LEMMA MajorType == \A p \in Priorities : S!MAJOR_PRIORITY(p) \in FifoClasses
  <1> SUFFICES ASSUME NEW p \in Priorities PROVE S!MAJOR_PRIORITY(p) \in FifoClasses
    OBVIOUS
  <1>1. p \in 4..251
    BY PrioritiesAssumption
  <1>2. p \div 4 # 63
    BY <1>1
  <1>3. QED
    BY <1>2 DEF FifoClasses, S!Classes, S!MAJOR_PRIORITY, S!IDLE_MAJOR_PRIORITY

-----------------------------------------------------------------------------
(* What the operations do to one run queue *)

\* The group of a class is a number.
LEMMA GroupType == \A k \in S!Classes : S!Group(k) \in Int
  <1> SUFFICES ASSUME NEW k \in S!Classes PROVE S!Group(k) \in Int
    OBVIOUS
  <1>1. k \in Int
    BY PrioritiesAssumption DEF S!Classes, S!MAJOR_PRIORITY, S!IDLE_MAJOR_PRIORITY
  <1>2. QED
    BY <1>1 DEF S!Group

\* rq_set_ready sets bits and clears none.
LEMMA SetReady ==
  ASSUME NEW r \in RqType, NEW cls \in FifoClasses
  PROVE  LET q == S!rq_set_ready(r, cls) IN
         /\ q \in RqType
         /\ q.list = r.list /\ q.count = r.count /\ q.ready = r.ready
         /\ q.task_count = r.task_count
         /\ q.secondary = r.secondary \cup {cls}
         /\ q.top = r.top \cup {S!Group(cls)}
  <1>1. cls \in S!Classes /\ S!Group(cls) \in Int
    BY GroupType DEF FifoClasses
  <1>2. QED
    BY <1>1 DEF S!rq_set_ready, RqType

\* rq_clear_ready clears the class, and its group with the last class of it.
LEMMA ClearReady ==
  ASSUME NEW r \in RqType, NEW cls \in FifoClasses
  PROVE  LET q == S!rq_clear_ready(r, cls) IN
         /\ q \in RqType
         /\ q.list = r.list /\ q.count = r.count /\ q.ready = r.ready
         /\ q.task_count = r.task_count
         /\ q.secondary = r.secondary \ {cls}
         /\ \A k \in r.secondary \ {cls} : S!Group(k) \in r.top => S!Group(k) \in q.top
  <1> DEFINE top == IF \E k \in r.secondary \ {cls} : S!Group(k) = S!Group(cls)
                    THEN r.top ELSE r.top \ {S!Group(cls)}
             q == [r EXCEPT !.secondary = r.secondary \ {cls}, !.top = top]
  <1>1. S!rq_clear_ready(r, cls) = q
    BY DEF S!rq_clear_ready
  <1>2. top \in SUBSET Int
    BY DEF RqType
  <1>3. \A k \in r.secondary \ {cls} : S!Group(k) \in r.top => S!Group(k) \in top
    OBVIOUS
  <1> HIDE DEF top
  <1>4. /\ q \in RqType /\ q.top = top
        /\ q.list = r.list /\ q.count = r.count /\ q.ready = r.ready
        /\ q.task_count = r.task_count /\ q.secondary = r.secondary \ {cls}
    BY <1>2 DEF RqType
  <1> HIDE DEF q
  <1>5. QED
    BY <1>1, <1>3, <1>4

\* rq_enqueue_task: one more in the list, counted, the bits set.
LEMMA Enqueue ==
  ASSUME NEW r \in RqType, NEW t \in SchedThreads, NEW p \in Priorities
  PROVE  LET q == S!EnqueueTask(r, t, p)
             cls == S!MAJOR_PRIORITY(p) IN
         /\ q \in RqType
         /\ q.list = [r.list EXCEPT ![p] = Append(@, t)]
         /\ q.count = [r.count EXCEPT ![p] = @ + 1]
         /\ q.task_count = [r.task_count EXCEPT ![cls] = @ + 1]
         /\ MasksLead(r) => MasksLead(q)
  <1> DEFINE cls == S!MAJOR_PRIORITY(p)
             e == [r EXCEPT !.list[p] = Append(@, t), !.count[p] = @ + 1,
                            !.ready = @ \cup {p}, !.task_count[cls] = @ + 1]
             q == S!EnqueueTask(r, t, p)
  <1>1. cls \in FifoClasses
    BY MajorType
  <1>2. q = S!rq_set_ready(e, cls)
    BY DEF S!EnqueueTask
  <1> HIDE DEF cls, q
  <1>3. Append(r.list[p], t) \in Seq(SchedThreads)
    BY DEF RqType
  <1>4. /\ e \in RqType
        /\ e.list = [r.list EXCEPT ![p] = Append(@, t)]
        /\ e.count = [r.count EXCEPT ![p] = @ + 1]
        /\ e.ready = r.ready \cup {p}
        /\ e.task_count = [r.task_count EXCEPT ![cls] = @ + 1]
        /\ e.secondary = r.secondary /\ e.top = r.top
    <2> DEFINE L == [r.list EXCEPT ![p] = Append(@, t)]
               N == [r.count EXCEPT ![p] = @ + 1]
               M == [r.task_count EXCEPT ![cls] = @ + 1]
    <2>1. /\ L \in [Priorities -> Seq(SchedThreads)] /\ N \in [Priorities -> Int]
          /\ M \in [FifoClasses -> Int] /\ r.ready \cup {p} \in SUBSET Priorities
      BY <1>1, <1>3 DEF RqType
    <2>2. e = [r EXCEPT !.list = L, !.count = N, !.ready = @ \cup {p}, !.task_count = M]
      OBVIOUS
    <2> HIDE DEF L, N, M, e
    <2>3. QED
      BY <2>1, <2>2 DEF RqType, L, N, M
  <1> HIDE DEF e
  <1>5. /\ q \in RqType
        /\ q.list = e.list /\ q.count = e.count /\ q.ready = e.ready
        /\ q.task_count = e.task_count
        /\ q.secondary = e.secondary \cup {cls}
        /\ q.top = e.top \cup {S!Group(cls)}
    BY <1>1, <1>2, <1>4, SetReady
  <1>6. ASSUME MasksLead(r) PROVE MasksLead(q)
    <2>1. r.list \in [Priorities -> Seq(SchedThreads)]
      BY DEF RqType
    <2>2. SUFFICES ASSUME NEW k \in Priorities, q.list[k] # <<>>
                   PROVE  /\ k \in q.ready /\ S!MAJOR_PRIORITY(k) \in q.secondary
                          /\ S!Group(S!MAJOR_PRIORITY(k)) \in q.top
      BY DEF MasksLead
    <2>3. CASE k = p
      BY <1>4, <1>5, <2>3 DEF cls
    <2>4. CASE k # p
      <3>1. r.list[k] # <<>>
        BY <1>4, <1>5, <2>1, <2>2, <2>4
      <3>2. QED
        BY <1>4, <1>5, <1>6, <3>1 DEF MasksLead
    <2>5. QED
      BY <2>3, <2>4
  <1>7. QED
    BY <1>4, <1>5, <1>6 DEF q, cls

\* rq_put_prev_task: back in the list, counted already.
LEMMA PutPrev ==
  ASSUME NEW r \in RqType, NEW t \in SchedThreads, NEW p \in Priorities
  PROVE  LET q == S!PutPrevTask(r, t, p) IN
         /\ q \in RqType
         /\ q.list = [r.list EXCEPT ![p] = Append(@, t)]
         /\ q.count = r.count /\ q.task_count = r.task_count
         /\ MasksLead(r) => MasksLead(q)
  <1> DEFINE cls == S!MAJOR_PRIORITY(p)
             e == [r EXCEPT !.list[p] = Append(@, t), !.ready = @ \cup {p}]
             q == S!PutPrevTask(r, t, p)
  <1>1. cls \in FifoClasses
    BY MajorType
  <1>2. q = S!rq_set_ready(e, cls)
    BY DEF S!PutPrevTask
  <1> HIDE DEF cls, q
  <1>3. Append(r.list[p], t) \in Seq(SchedThreads)
    BY DEF RqType
  <1>4. /\ e \in RqType
        /\ e.list = [r.list EXCEPT ![p] = Append(@, t)]
        /\ e.count = r.count /\ e.task_count = r.task_count
        /\ e.ready = r.ready \cup {p}
        /\ e.secondary = r.secondary /\ e.top = r.top
    BY <1>1, <1>3 DEF RqType
  <1> HIDE DEF e
  <1>5. /\ q \in RqType
        /\ q.list = e.list /\ q.count = e.count /\ q.ready = e.ready
        /\ q.task_count = e.task_count
        /\ q.secondary = e.secondary \cup {cls}
        /\ q.top = e.top \cup {S!Group(cls)}
    BY <1>1, <1>2, <1>4, SetReady
  <1>6. ASSUME MasksLead(r) PROVE MasksLead(q)
    <2>1. r.list \in [Priorities -> Seq(SchedThreads)]
      BY DEF RqType
    <2>2. SUFFICES ASSUME NEW k \in Priorities, q.list[k] # <<>>
                   PROVE  /\ k \in q.ready /\ S!MAJOR_PRIORITY(k) \in q.secondary
                          /\ S!Group(S!MAJOR_PRIORITY(k)) \in q.top
      BY DEF MasksLead
    <2>3. CASE k = p
      BY <1>4, <1>5, <2>3 DEF cls
    <2>4. CASE k # p
      <3>1. r.list[k] # <<>>
        BY <1>4, <1>5, <2>1, <2>2, <2>4
      <3>2. QED
        BY <1>4, <1>5, <1>6, <3>1 DEF MasksLead
    <2>5. QED
      BY <2>3, <2>4
  <1>7. QED
    BY <1>4, <1>5, <1>6 DEF q, cls

\* What clearing the bits of a subqueue and of a class needs to be right.
LEMMA ClearedMasks ==
  ASSUME NEW r \in RqType, NEW e \in RqType, NEW p \in Priorities, MasksLead(r),
         \A k \in Priorities \ {p} : e.list[k] = r.list[k],
         e.list[p] # <<>> => r.list[p] # <<>>,
         e.ready \in {r.ready, r.ready \ {p}},
         p \notin e.ready => e.list[p] = <<>>,
         e.secondary = r.secondary, e.top = r.top,
         NEW q \in {e, S!rq_clear_ready(e, S!MAJOR_PRIORITY(p))},
         q # e => \A k \in Priorities :
                    S!MAJOR_PRIORITY(k) = S!MAJOR_PRIORITY(p) => e.list[k] = <<>>
  PROVE  q \in RqType /\ MasksLead(q)
  <1> DEFINE cls == S!MAJOR_PRIORITY(p)
  <1>1. cls \in FifoClasses
    BY MajorType
  <1>2. MasksLead(e)
    <2>1. SUFFICES ASSUME NEW k \in Priorities, e.list[k] # <<>>
                   PROVE  /\ k \in e.ready /\ S!MAJOR_PRIORITY(k) \in e.secondary
                          /\ S!Group(S!MAJOR_PRIORITY(k)) \in e.top
      BY DEF MasksLead
    <2>2. r.list[k] # <<>>
      BY <2>1
    <2>3. k \in r.ready /\ S!MAJOR_PRIORITY(k) \in r.secondary
          /\ S!Group(S!MAJOR_PRIORITY(k)) \in r.top
      BY <2>2 DEF MasksLead
    <2>4. k \in e.ready
      BY <2>1, <2>3
    <2>5. QED
      BY <2>3, <2>4
  <1>3. CASE q = e
    BY <1>2, <1>3
  <1>4. CASE q # e
    <2>1. /\ q \in RqType /\ q.list = e.list /\ q.ready = e.ready
          /\ q.secondary = e.secondary \ {cls}
          /\ \A k \in e.secondary \ {cls} : S!Group(k) \in e.top => S!Group(k) \in q.top
      <3>1. q = S!rq_clear_ready(e, cls)
        BY <1>4
      <3>2. QED
        BY <1>1, <3>1, ClearReady
    <2>2. SUFFICES ASSUME NEW k \in Priorities, q.list[k] # <<>>
                   PROVE  /\ k \in q.ready /\ S!MAJOR_PRIORITY(k) \in q.secondary
                          /\ S!Group(S!MAJOR_PRIORITY(k)) \in q.top
      BY <2>1 DEF MasksLead
    <2>3. S!MAJOR_PRIORITY(k) # cls
      BY <1>4, <2>1, <2>2
    <2>4. QED
      BY <1>2, <2>1, <2>2, <2>3 DEF MasksLead
  <1>5. QED
    BY <1>3, <1>4

\* rq_dequeue_task: off the list and off the counts.
LEMMA Dequeue ==
  ASSUME NEW r \in RqType, NEW t \in SchedThreads, NEW p \in Priorities,
         NEW cls, cls = S!MAJOR_PRIORITY(p),
         Distinct(r.list[p]), MasksLead(r),
         r.count[p] = 1 => S!list_detach(r.list[p], t) = <<>>,
         r.task_count[cls] = 1 =>
           \A k \in Priorities : S!MAJOR_PRIORITY(k) = cls =>
             (IF k = p THEN S!list_detach(r.list[p], t) ELSE r.list[k]) = <<>>
  PROVE  LET q == S!DequeueTask(r, t, p) IN
         /\ q \in RqType
         /\ q.list = [r.list EXCEPT ![p] = S!list_detach(@, t)]
         /\ q.count = [r.count EXCEPT ![p] = @ - 1]
         /\ q.task_count = [r.task_count EXCEPT ![cls] = @ - 1]
         /\ MasksLead(q)
  <1> DEFINE d == S!list_detach(r.list[p], t)
             bits == IF r.count[p] = 1 THEN r.ready \ {p} ELSE r.ready
             e == [r EXCEPT !.list[p] = d, !.count[p] = @ - 1,
                            !.ready = bits, !.task_count[cls] = @ - 1]
             q == S!DequeueTask(r, t, p)
  <1>1. cls \in FifoClasses
    BY MajorType
  <1>2. q = IF e.task_count[cls] = 0 THEN S!rq_clear_ready(e, cls) ELSE e
    BY DEF S!DequeueTask
  <1>3. /\ d \in Seq(SchedThreads)
        /\ \A u \in SchedThreads : InList(d, u) => InList(r.list[p], u)
        /\ r.list[p] \in Seq(SchedThreads)
    <2>1. r.list[p] \in Seq(SchedThreads)
      BY DEF RqType
    <2>2. QED
      BY <2>1, DetachList
  <1>4. d # <<>> => r.list[p] # <<>>
    <2>1. SUFFICES ASSUME r.list[p] = <<>> PROVE d = <<>>
      OBVIOUS
    <2>2. \A u \in SchedThreads : ~InList(r.list[p], u)
      BY <2>1 DEF InList
    <2>3. QED
      BY <1>3, <2>2, EmptyList
  <1>5. r.count[p] = 1 => d = <<>>
    OBVIOUS
  <1>6. r.task_count[cls] = 1 =>
           \A k \in Priorities : S!MAJOR_PRIORITY(k) = cls =>
             (IF k = p THEN d ELSE r.list[k]) = <<>>
    OBVIOUS
  <1>7. bits \in SUBSET Priorities /\ bits \in {r.ready, r.ready \ {p}}
        /\ (p \notin bits => p \notin r.ready \/ r.count[p] = 1)
    BY DEF RqType
  <1> HIDE DEF d, bits, q
  <1>8. /\ e \in RqType
        /\ e.list = [r.list EXCEPT ![p] = d]
        /\ e.count = [r.count EXCEPT ![p] = @ - 1]
        /\ e.ready = bits
        /\ e.task_count = [r.task_count EXCEPT ![cls] = @ - 1]
        /\ e.secondary = r.secondary /\ e.top = r.top
    <2> DEFINE L == [r.list EXCEPT ![p] = d]
               N == [r.count EXCEPT ![p] = @ - 1]
               M == [r.task_count EXCEPT ![cls] = @ - 1]
    <2>1. /\ L \in [Priorities -> Seq(SchedThreads)] /\ N \in [Priorities -> Int]
          /\ M \in [FifoClasses -> Int]
      BY <1>1, <1>3 DEF RqType
    <2>2. e = [r EXCEPT !.list = L, !.count = N, !.ready = bits, !.task_count = M]
      OBVIOUS
    <2> HIDE DEF L, N, M, e
    <2>3. QED
      BY <1>7, <2>1, <2>2 DEF RqType, L, N, M
  <1> HIDE DEF e
  <1>9. r.list \in [Priorities -> Seq(SchedThreads)] /\ r.task_count \in [FifoClasses -> Int]
    BY DEF RqType
  <1>10. e.list[p] = d /\ \A k \in Priorities \ {p} : e.list[k] = r.list[k]
    BY <1>8, <1>9
  <1>11. p \notin e.ready => e.list[p] = <<>>
    <2>1. p \notin r.ready => r.list[p] = <<>>
      BY DEF MasksLead
    <2>2. QED
      BY <1>4, <1>5, <1>7, <1>8, <1>10, <2>1
  <1>12. e.task_count[cls] = 0 => r.task_count[cls] = 1
    <2>1. e.task_count[cls] = r.task_count[cls] - 1 /\ r.task_count[cls] \in Int
      BY <1>1, <1>8, <1>9
    <2>2. QED
      BY <2>1
  <1>13. e.task_count[cls] = 0 => \A k \in Priorities :
                    S!MAJOR_PRIORITY(k) = S!MAJOR_PRIORITY(p) => e.list[k] = <<>>
    BY <1>6, <1>10, <1>12
  <1>14. q \in {e, S!rq_clear_ready(e, S!MAJOR_PRIORITY(p))}
         /\ (q # e => e.task_count[cls] = 0)
    BY <1>2
  <1>15. e.list[p] # <<>> => r.list[p] # <<>>
    BY <1>4, <1>10
  <1>16. e.ready \in {r.ready, r.ready \ {p}}
    BY <1>7, <1>8
  <1>17. q # e => \A k \in Priorities :
                    S!MAJOR_PRIORITY(k) = S!MAJOR_PRIORITY(p) => e.list[k] = <<>>
    BY <1>13, <1>14
  <1>18. q \in RqType /\ MasksLead(q)
    <2>1. \A k \in Priorities \ {p} : e.list[k] = r.list[k]
      BY <1>10
    <2>2. e.secondary = r.secondary /\ e.top = r.top /\ e \in RqType
      BY <1>8
    <2>3. q \in {e, S!rq_clear_ready(e, S!MAJOR_PRIORITY(p))}
      BY <1>14
    <2>4. QED
      BY <1>11, <1>15, <1>16, <1>17, <2>1, <2>2, <2>3, ClearedMasks
  <1>19. q.list = e.list /\ q.count = e.count /\ q.task_count = e.task_count
    BY <1>1, <1>8, <1>14, ClearReady
  <1>20. QED
    BY <1>8, <1>18, <1>19 DEF q, d

\* rq_set_next_task: off the list, but still counted.
LEMMA SetNext ==
  ASSUME NEW r \in RqType, NEW t \in SchedThreads, NEW p \in Priorities,
         NEW cls, cls = S!MAJOR_PRIORITY(p),
         Distinct(r.list[p]), MasksLead(r),
         r.count[p] = 1 => S!list_detach(r.list[p], t) = <<>>,
         r.task_count[cls] = 1 =>
           \A k \in Priorities : S!MAJOR_PRIORITY(k) = cls =>
             (IF k = p THEN S!list_detach(r.list[p], t) ELSE r.list[k]) = <<>>
  PROVE  LET q == S!SetNextTask(r, t, p) IN
         /\ q \in RqType
         /\ q.list = [r.list EXCEPT ![p] = S!list_detach(@, t)]
         /\ q.count = r.count /\ q.task_count = r.task_count
         /\ MasksLead(q)
  <1> DEFINE d == S!list_detach(r.list[p], t)
             bits == IF r.count[p] = 1 THEN r.ready \ {p} ELSE r.ready
             e == [r EXCEPT !.list[p] = d, !.ready = bits]
             q == S!SetNextTask(r, t, p)
  <1>1. cls \in FifoClasses
    BY MajorType
  <1>2. q = IF r.task_count[cls] = 1 THEN S!rq_clear_ready(e, cls) ELSE e
    BY DEF S!SetNextTask
  <1>3. /\ d \in Seq(SchedThreads)
        /\ \A u \in SchedThreads : InList(d, u) => InList(r.list[p], u)
        /\ r.list[p] \in Seq(SchedThreads)
    <2>1. r.list[p] \in Seq(SchedThreads)
      BY DEF RqType
    <2>2. QED
      BY <2>1, DetachList
  <1>4. d # <<>> => r.list[p] # <<>>
    <2>1. SUFFICES ASSUME r.list[p] = <<>> PROVE d = <<>>
      OBVIOUS
    <2>2. \A u \in SchedThreads : ~InList(r.list[p], u)
      BY <2>1 DEF InList
    <2>3. QED
      BY <1>3, <2>2, EmptyList
  <1>5. r.count[p] = 1 => d = <<>>
    OBVIOUS
  <1>6. r.task_count[cls] = 1 =>
           \A k \in Priorities : S!MAJOR_PRIORITY(k) = cls =>
             (IF k = p THEN d ELSE r.list[k]) = <<>>
    OBVIOUS
  <1>7. bits \in SUBSET Priorities /\ bits \in {r.ready, r.ready \ {p}}
        /\ (p \notin bits => p \notin r.ready \/ r.count[p] = 1)
    BY DEF RqType
  <1> HIDE DEF d, bits, q
  <1>8. /\ e \in RqType
        /\ e.list = [r.list EXCEPT ![p] = d]
        /\ e.count = r.count /\ e.task_count = r.task_count
        /\ e.ready = bits
        /\ e.secondary = r.secondary /\ e.top = r.top
    BY <1>1, <1>3, <1>7 DEF RqType
  <1> HIDE DEF e
  <1>9. r.list \in [Priorities -> Seq(SchedThreads)]
    BY DEF RqType
  <1>10. e.list[p] = d /\ \A k \in Priorities \ {p} : e.list[k] = r.list[k]
    BY <1>8, <1>9
  <1>11. p \notin e.ready => e.list[p] = <<>>
    <2>1. p \notin r.ready => r.list[p] = <<>>
      BY DEF MasksLead
    <2>2. QED
      BY <1>4, <1>5, <1>7, <1>8, <1>10, <2>1
  <1>12. q \in {e, S!rq_clear_ready(e, S!MAJOR_PRIORITY(p))}
         /\ (q # e => r.task_count[cls] = 1)
    BY <1>2
  <1>13. e.list[p] # <<>> => r.list[p] # <<>>
    BY <1>4, <1>10
  <1>14. e.ready \in {r.ready, r.ready \ {p}}
    BY <1>7, <1>8
  <1>15. q # e => \A k \in Priorities :
                    S!MAJOR_PRIORITY(k) = S!MAJOR_PRIORITY(p) => e.list[k] = <<>>
    BY <1>6, <1>10, <1>12
  <1>16. q \in RqType /\ MasksLead(q)
    <2>1. \A k \in Priorities \ {p} : e.list[k] = r.list[k]
      BY <1>10
    <2>2. e.secondary = r.secondary /\ e.top = r.top /\ e \in RqType
      BY <1>8
    <2>3. q \in {e, S!rq_clear_ready(e, S!MAJOR_PRIORITY(p))}
      BY <1>12
    <2>4. QED
      BY <1>11, <1>13, <1>14, <1>15, <2>1, <2>2, <2>3, ClearedMasks
  <1>17. q.list = e.list /\ q.count = e.count /\ q.task_count = e.task_count
    BY <1>1, <1>8, <1>12, ClearReady
  <1>18. QED
    BY <1>8, <1>16, <1>17 DEF q, d

-----------------------------------------------------------------------------
(* The invariant holds initially *)

\* The threads as clone() leaves them satisfy the invariant.
LEMMA SchedInitInv == S!Init => SchedInv
  <1> SUFFICES ASSUME S!Init PROVE SchedInv
    OBVIOUS
  <1>1. /\ state = [t \in SchedThreads |-> "SLEEPING"]
        /\ cpu_id = [t \in SchedThreads |-> NoThread]
        /\ se_rq = [t \in SchedThreads |-> NoThread]
        /\ on_cpu = [t \in SchedThreads |-> FALSE]
        /\ pi_lock = [t \in SchedThreads |-> NoThread]
        /\ rq = [c \in Harts |-> S!EmptyRq]
        /\ rq_lock = [c \in Harts |-> NoThread]
        /\ current = [c \in Harts |-> Idle]
        /\ prev = [c \in Harts |-> Idle]
        /\ doing = [c \in Harts |-> "run"]
        /\ wake = [c \in Harts |-> S!NoWake]
    BY DEF S!Init
  <1>2. /\ S!EmptyRq \in RqType
        /\ S!EmptyRq.list = [p \in Priorities |-> <<>>]
        /\ S!EmptyRq.count = [p \in Priorities |-> 0]
        /\ S!EmptyRq.task_count = [cls \in FifoClasses |-> 0]
    <2>1. S!IDLE_MAJOR_PRIORITY \in S!Classes /\ S!Group(S!IDLE_MAJOR_PRIORITY) \in Int
      BY GroupType DEF S!Classes
    <2>2. QED
      BY <2>1 DEF S!EmptyRq, RqType, FifoClasses
  <1>3. SchedTypeOK
    <2>1. S!NoWake \in WakeType
      BY DEF S!NoWake, WakeType, HartOrNone
    <2>2. QED
      BY <1>1, <1>2, <2>1 DEF SchedTypeOK, S!States, S!PCs, HartOrNone
  <1>4. LocksHeld /\ CpuIdIsCurrent
    BY <1>1 DEF LocksHeld, CpuIdIsCurrent
  <1>5. OnCpu /\ OnRq
    BY <1>1, SchedAssumption DEF OnCpu, OnRq, SwitchesFrom
  <1>6. Lists /\ Masks
    BY <1>1, <1>2 DEF Lists, Masks, MasksLead, Distinct, InList
  <1>7. Counts
    <2>1. \A c \in Harts : \A p : OfPriority(c, p) = {} /\ OfClass(c, p) = {}
      BY <1>1, SchedAssumption DEF OfPriority, OfClass
    <2>2. QED
      BY <1>1, <1>2, <2>1, FS_EmptySet DEF Counts
  <1>8. QED
    BY <1>3, <1>4, <1>5, <1>6, <1>7 DEF SchedInv

-----------------------------------------------------------------------------
(* What the invariant says of counts and of places *)

\* The threads of a run queue are finitely many; a count of one leaves one.
LEMMA Members ==
  ASSUME SchedTypeOK, Counts, NEW c \in Harts, NEW t \in SchedThreads, se_rq[t] = c
  PROVE  /\ rq[c].count[Priority[t]] = 1 =>
              \A u \in SchedThreads : se_rq[u] = c /\ Priority[u] = Priority[t] => u = t
         /\ rq[c].task_count[S!MAJOR_PRIORITY(Priority[t])] = 1 =>
              \A u \in SchedThreads :
                se_rq[u] = c /\ S!MAJOR_PRIORITY(Priority[u]) = S!MAJOR_PRIORITY(Priority[t])
                => u = t
  <1> DEFINE p == Priority[t]
             cls == S!MAJOR_PRIORITY(p)
  <1>1. p \in Priorities /\ cls \in FifoClasses
    BY SchedAssumption, MajorType
  <1>2. IsFiniteSet(OfPriority(c, p)) /\ IsFiniteSet(OfClass(c, cls))
    BY SchedAssumption, FS_Subset DEF OfPriority, OfClass
  <1>3. rq[c].count[p] = Cardinality(OfPriority(c, p))
        /\ rq[c].task_count[cls] = Cardinality(OfClass(c, cls))
    BY <1>1 DEF Counts
  <1>4. t \in OfPriority(c, p) /\ t \in OfClass(c, cls)
    BY DEF OfPriority, OfClass
  <1>5. ASSUME rq[c].count[p] = 1, NEW u \in SchedThreads, se_rq[u] = c, Priority[u] = p
        PROVE  u = t
    <2>1. PICK x : OfPriority(c, p) = {x}
      BY <1>2, <1>3, <1>5, FS_Singleton
    <2>2. u \in OfPriority(c, p)
      BY <1>5 DEF OfPriority
    <2>3. QED
      BY <1>4, <2>1, <2>2
  <1>6. ASSUME rq[c].task_count[cls] = 1, NEW u \in SchedThreads, se_rq[u] = c,
               S!MAJOR_PRIORITY(Priority[u]) = cls
        PROVE  u = t
    <2>1. PICK x : OfClass(c, cls) = {x}
      BY <1>2, <1>3, <1>6, FS_Singleton
    <2>2. u \in OfClass(c, cls)
      BY <1>6 DEF OfClass
    <2>3. QED
      BY <1>4, <2>1, <2>2
  <1>7. QED
    BY <1>5, <1>6

\* What Dequeue and SetNext need, for a run queue r whose lists are within those
\* of rq[c] and whose counts are its counts.
LEMMA BitsMayGo ==
  ASSUME SchedTypeOK, Counts, Lists, NEW c \in Harts, NEW r \in RqType,
         NEW t \in SchedThreads, se_rq[t] = c,
         NEW p, p = Priority[t], NEW cls, cls = S!MAJOR_PRIORITY(p),
         r.count = rq[c].count, r.task_count = rq[c].task_count,
         \A k \in Priorities : Distinct(r.list[k]),
         \A k \in Priorities, u \in SchedThreads :
           InList(r.list[k], u) => InList(rq[c].list[k], u)
  PROVE  /\ r.count[p] = 1 => S!list_detach(r.list[p], t) = <<>>
         /\ r.task_count[cls] = 1 =>
              \A k \in Priorities : S!MAJOR_PRIORITY(k) = cls =>
                (IF k = p THEN S!list_detach(r.list[p], t) ELSE r.list[k]) = <<>>
  <1>0. p \in Priorities /\ r.list \in [Priorities -> Seq(SchedThreads)]
    BY SchedAssumption DEF RqType
  <1>1. /\ S!list_detach(r.list[p], t) \in Seq(SchedThreads)
        /\ \A u \in SchedThreads :
             InList(S!list_detach(r.list[p], t), u) => InList(r.list[p], u) /\ u # t
    BY <1>0, DetachList
  <1>2. \A k \in Priorities, u \in SchedThreads :
          InList(r.list[k], u) => se_rq[u] = c /\ Priority[u] = k
    BY DEF Lists
  <1>3. ASSUME r.count[p] = 1 PROVE S!list_detach(r.list[p], t) = <<>>
    <2>1. \A u \in SchedThreads : ~InList(S!list_detach(r.list[p], t), u)
      BY <1>0, <1>1, <1>2, <1>3, Members
    <2>2. QED
      BY <1>1, <2>1, EmptyList
  <1>4. ASSUME r.task_count[cls] = 1, NEW k \in Priorities, S!MAJOR_PRIORITY(k) = cls
        PROVE  (IF k = p THEN S!list_detach(r.list[p], t) ELSE r.list[k]) = <<>>
    <2>1. \A u \in SchedThreads : se_rq[u] = c /\ S!MAJOR_PRIORITY(Priority[u]) = cls => u = t
      BY <1>4, Members
    <2>2. CASE k = p
      <3>1. \A u \in SchedThreads : ~InList(S!list_detach(r.list[p], t), u)
        BY <1>0, <1>1, <1>2, <2>1
      <3>2. QED
        BY <1>1, <2>2, <3>1, EmptyList
    <2>3. CASE k # p
      <3>1. \A u \in SchedThreads : ~InList(r.list[k], u)
        BY <1>2, <1>4, <2>1, <2>3
      <3>2. r.list[k] \in Seq(SchedThreads)
        BY <1>0
      <3>3. QED
        BY <2>3, <3>1, <3>2, EmptyList
    <2>4. QED
      BY <2>2, <2>3
  <1>5. QED
    BY <1>3, <1>4

\* The locks a waker holds at its last step are those that guard the thread.
LEMMA LocksSuffice ==
  ASSUME SchedInv, NEW c \in Harts, doing[c] = "wset"
  PROVE  /\ wake[c].p \in SchedThreads
         /\ cpu_id[wake[c].p] \in {NoThread, wake[c].origin}
         /\ \A k \in Harts : ~SwitchesFrom(k, wake[c].p)
         /\ on_cpu[wake[c].p] => se_rq[wake[c].p] # NoThread
  <1> DEFINE p == wake[c].p
  <1>1. p \in SchedThreads /\ cpu_id[p] \in {NoThread, wake[c].origin}
        /\ rq_lock[wake[c].origin] = c
    BY DEF SchedInv, LocksHeld, CpuIdIsCurrent
  <1>2. ASSUME NEW k \in Harts, SwitchesFrom(k, p) PROVE FALSE
    <2>1. cpu_id[p] = k /\ rq_lock[k] = k /\ doing[k] = "switch"
      BY <1>1, <1>2 DEF SchedInv, OnCpu, SwitchesFrom, LocksHeld
    <2>2. wake[c].origin = k
      BY <1>1, <2>1, SchedAssumption
    <2>3. QED
      BY <1>1, <2>1, <2>2
  <1>3. on_cpu[p] => se_rq[p] # NoThread
    BY <1>1, <1>2, SchedAssumption DEF SchedInv, OnCpu
  <1>4. QED
    BY <1>1, <1>2, <1>3

\* A thread is current on one CPU and then none switches away from it.
LEMMA OneCpu ==
  ASSUME OnCpu, NEW t \in SchedThreads, NEW c \in Harts, current[c] = t
  PROVE  /\ \A k \in Harts : current[k] = t => k = c
         /\ \A k \in Harts : ~SwitchesFrom(k, t)
  BY DEF OnCpu

\* A step that moves no thread keeps places and counts, if it changes only the
\* states of threads that run.
LEMMA NobodyMoves ==
  ASSUME SchedInv, UNCHANGED <<cpu_id, se_rq, on_cpu, rq, current, prev>>,
         \A k \in Harts : doing'[k] = "switch" <=> doing[k] = "switch",
         \A t \in SchedThreads :
           \/ state'[t] = state[t]
           \/ (\E k \in Harts : current[k] = t) /\ state'[t] # "WAKENING"
  PROVE  OnCpu' /\ OnRq' /\ Lists' /\ Masks' /\ Counts'
  <1>t. OnCpu /\ OnRq /\ Lists /\ Masks /\ Counts
    BY DEF SchedInv
  <1>1. \A t \in SchedThreads, k \in Harts : SwitchesFrom(k, t)' <=> SwitchesFrom(k, t)
    BY DEF SwitchesFrom
  <1>2. \A t \in SchedThreads, k \in Harts : SwitchesFrom(k, t) => state'[t] = state[t]
    BY <1>t, OneCpu
  <1>3. OnCpu'
    BY <1>t, <1>1, <1>2 DEF OnCpu
  <1>4. \A t \in SchedThreads : ~on_cpu[t] => state'[t] = state[t]
    BY <1>t DEF OnCpu
  <1>5. OnRq' /\ Lists'
    BY <1>t, <1>4 DEF OnRq, Lists
  <1>6. Masks'
    BY <1>t DEF Masks
  <1>7. \A c, p : OfPriority(c, p)' = OfPriority(c, p) /\ OfClass(c, p)' = OfClass(c, p)
    BY DEF OfPriority, OfClass
  <1>8. Counts'
    BY <1>t, <1>7 DEF Counts
  <1>9. QED
    BY <1>3, <1>5, <1>6, <1>8

-----------------------------------------------------------------------------
(* The steps that move no thread *)

\* A running thread changes its own state.
LEMMA OwnInv ==
  ASSUME SchedInv, NEW c \in Harts, NEW t \in SchedThreads, S!Own(c, t)
  PROVE  SchedInv'
  <1> USE DEF SchedInv
  <1>1. PICK x \in {"SLEEPING", "RUNNING", "STOPPED", "ZOMBIE"} :
          state' = [state EXCEPT ![t] = x]
    BY DEF S!Own, S!SetSleeping, S!CancelSleep, S!SetStopped, S!SetZombie
  <1>2. /\ current[c] = t
        /\ UNCHANGED <<cpu_id, se_rq, on_cpu, pi_lock, rq_lock, rq, current, prev, doing, wake>>
    BY DEF S!Own, S!SetSleeping, S!CancelSleep, S!SetStopped, S!SetZombie, S!Runs, S!lockvars
  <1>3. SchedTypeOK'
    BY <1>1, <1>2 DEF SchedTypeOK, S!States
  <1>4. LocksHeld' /\ CpuIdIsCurrent'
    BY <1>2 DEF LocksHeld, CpuIdIsCurrent
  <1>5. \A u \in SchedThreads :
           \/ state'[u] = state[u]
           \/ (\E k \in Harts : current[k] = u) /\ state'[u] # "WAKENING"
    BY <1>1, <1>2 DEF SchedTypeOK
  <1>6. OnCpu' /\ OnRq' /\ Lists' /\ Masks' /\ Counts'
    BY <1>2, <1>5, NobodyMoves
  <1>7. QED
    BY <1>3, <1>4, <1>6

\* scheduler_wakeup and scheduler_yield begin.
LEMMA StartInv ==
  ASSUME SchedInv, NEW c \in Harts,
         \/ S!YieldStart(c) \/ S!YieldStay(c)
         \/ \E p \in SchedThreads, from \in {"SLEEPING", "STOPPED"} : S!WakeStart(c, p, from)
  PROVE  SchedInv'
  <1> USE DEF SchedInv
  <1>1. UNCHANGED <<state, cpu_id, se_rq, on_cpu, pi_lock, rq_lock, rq, current, prev>>
    BY DEF S!YieldStart, S!YieldStay, S!WakeStart, S!threadvars, S!lockvars
  <1>2. PICK x \in {"run", "wpi", "ylock", "panic"} :
          /\ doing' = [doing EXCEPT ![c] = x]
          /\ doing[c] \in {"run", "ylock"}
          /\ \/ wake' = wake /\ x # "wpi"
             \/ \E p \in SchedThreads, from \in {"SLEEPING", "STOPPED"} :
                  wake' = [wake EXCEPT ![c] = [S!NoWake EXCEPT !.p = p, !.from = from]]
    BY DEF S!YieldStart, S!YieldStay, S!WakeStart, S!Goto
  <1>3. /\ wake' \in [Harts -> WakeType]
        /\ \A k \in Harts \ {c} : wake'[k] = wake[k]
        /\ x = "wpi" => wake'[c].p \in SchedThreads
    <2>1. CASE wake' = wake /\ x # "wpi"
      BY <2>1 DEF SchedTypeOK
    <2>2. ASSUME NEW p \in SchedThreads, NEW from \in {"SLEEPING", "STOPPED"},
                 wake' = [wake EXCEPT ![c] = [S!NoWake EXCEPT !.p = p, !.from = from]]
          PROVE  <1>3!1 /\ <1>3!2 /\ <1>3!3
      <3> DEFINE w == [S!NoWake EXCEPT !.p = p, !.from = from]
      <3>1. w \in WakeType /\ w.p = p
        BY DEF WakeType, S!NoWake, HartOrNone
      <3> HIDE DEF w
      <3>2. wake' = [wake EXCEPT ![c] = w]
        BY <2>2 DEF w
      <3>3. QED
        BY <3>1, <3>2 DEF SchedTypeOK
    <2>3. QED
      BY <1>2, <2>1, <2>2
  <1>4. SchedTypeOK'
    BY <1>1, <1>2, <1>3 DEF SchedTypeOK, S!PCs
  <1>5. \A k \in Harts \ {c} : doing'[k] = doing[k]
    BY <1>2 DEF SchedTypeOK
  <1>6. doing'[c] = x
    BY <1>2 DEF SchedTypeOK
  <1>7. LocksHeld' /\ CpuIdIsCurrent'
    <2>1. ASSUME NEW k \in Harts, k # c
          PROVE  wake'[k] = wake[k] /\ doing'[k] = doing[k]
      BY <1>3, <1>5, <2>1
    <2>2. QED
      BY <1>1, <1>3, <1>6, <2>1 DEF LocksHeld, CpuIdIsCurrent
  <1>8. \A k \in Harts : doing'[k] = "switch" <=> doing[k] = "switch"
    BY <1>2, <1>5, <1>6
  <1>9. OnCpu' /\ OnRq' /\ Lists' /\ Masks' /\ Counts'
    BY <1>1, <1>8, NobodyMoves
  <1>10. QED
    BY <1>4, <1>7, <1>9

\* __do_scheduler_wakeup takes pi_lock and looks at the state.
LEMMA WakePiInv ==
  ASSUME SchedInv, NEW c \in Harts, S!WakePi(c)
  PROVE  SchedInv'
  <1> USE DEF SchedInv
  <1> DEFINE p == wake[c].p
  <1>1. /\ doing[c] = "wpi" /\ pi_lock[p] = NoThread /\ p \in SchedThreads
        /\ UNCHANGED <<cpu_id, se_rq, on_cpu, rq_lock, rq, current, prev>>
    BY DEF S!WakePi, LocksHeld
  <1> HIDE DEF p
  <1>2. \/ /\ doing' = [doing EXCEPT ![c] = "run"]
           /\ wake' = [wake EXCEPT ![c] = S!NoWake]
           /\ pi_lock' = pi_lock
           /\ \/ state' = state
              \/ state' = [state EXCEPT ![p] = "RUNNING"] /\ current[c] = p
        \/ /\ doing' = [doing EXCEPT ![c] = "wsel"]
           /\ pi_lock' = [pi_lock EXCEPT ![p] = c]
           /\ UNCHANGED <<state, wake>>
    BY DEF S!WakePi, S!WakeReturn, S!Goto, p
  <1>3. S!NoWake \in WakeType
    BY DEF S!NoWake, WakeType, HartOrNone
  <1>4. SchedTypeOK'
    BY <1>1, <1>2, <1>3 DEF SchedTypeOK, S!PCs, S!States, HartOrNone
  <1>5. /\ \A k \in Harts \ {c} : doing'[k] = doing[k] /\ wake'[k] = wake[k]
        /\ doing'[c] \in {"run", "wsel"}
        /\ doing'[c] = "wsel" => wake'[c].p = p /\ pi_lock'[p] = c
        /\ \A u \in SchedThreads : pi_lock[u] # NoThread => pi_lock'[u] = pi_lock[u]
    BY <1>1, <1>2 DEF SchedTypeOK, p
  <1>6. LocksHeld'
    <2>1. ASSUME NEW k \in Harts, k # c,
                 doing[k] \in {"wsel", "wtry", "wset"}
          PROVE  pi_lock'[wake[k].p] = k
      <3>1. wake[k].p \in SchedThreads /\ pi_lock[wake[k].p] = k /\ k # NoThread
        BY <2>1, SchedAssumption DEF LocksHeld
      <3>2. QED
        BY <1>5, <3>1
    <2>2. ASSUME NEW k \in Harts, k # c
          PROVE  doing'[k] = doing[k] /\ wake'[k] = wake[k]
      BY <1>5, <2>2
    <2>3. QED
      BY <1>1, <1>5, <2>1, <2>2 DEF LocksHeld
  <1>7. CpuIdIsCurrent'
    BY <1>1, <1>5 DEF CpuIdIsCurrent
  <1>8. \A k \in Harts : doing'[k] = "switch" <=> doing[k] = "switch"
    BY <1>1, <1>5
  <1>9. \A u \in SchedThreads :
           \/ state'[u] = state[u]
           \/ (\E k \in Harts : current[k] = u) /\ state'[u] # "WAKENING"
    BY <1>1, <1>2 DEF SchedTypeOK
  <1>10. OnCpu' /\ OnRq' /\ Lists' /\ Masks' /\ Counts'
    BY <1>1, <1>8, <1>9, NobodyMoves
  <1>11. QED
    BY <1>4, <1>6, <1>7, <1>10

\* rq_select_task_rq finds a CPU.
LEMMA SelectType ==
  ASSUME SchedInv, NEW c \in Harts, NEW p \in SchedThreads
  PROVE  S!select_task_rq(c, p) \in Harts
  <1> DEFINE allowed == IF Affinity[p] = {} THEN Harts ELSE Affinity[p]
             n == [k \in Harts |-> rq[k].count[Priority[p]]]
             best == {k \in allowed : \A j \in allowed : n[k] <= n[j]}
             A == {n[k] : k \in allowed}
  <1>1. S!select_task_rq(c, p) = IF c \in best THEN c ELSE S!Least(best)
    <2>1. allowed \subseteq Harts
      BY SchedAssumption
    <2>2. \A k \in allowed : n[k] = rq[k].count[Priority[p]]
      BY <2>1
    <2> HIDE DEF n
    <2>3. best = {k \in allowed : \A j \in allowed :
                    rq[k].count[Priority[p]] <= rq[j].count[Priority[p]]}
      BY <2>2
    <2>4. QED
      BY <2>3 DEF S!select_task_rq
  <1>2. allowed \subseteq Harts /\ allowed # {}
    BY SchedAssumption
  <1>3. \A k \in Harts : n[k] \in Nat
    <2> SUFFICES ASSUME NEW k \in Harts PROVE n[k] \in Nat
      OBVIOUS
    <2>1. Priority[p] \in Priorities
      BY SchedAssumption
    <2>2. n[k] = Cardinality(OfPriority(k, Priority[p]))
      BY <2>1 DEF SchedInv, Counts
    <2>3. IsFiniteSet(OfPriority(k, Priority[p]))
      BY SchedAssumption, FS_Subset DEF OfPriority
    <2>4. QED
      BY <2>2, <2>3, FS_CardinalityType
  <1> HIDE DEF allowed, n
  <1>4. A \in SUBSET Nat /\ A # {}
    BY <1>2, <1>3
  <1>5. PICK x \in A : \A y \in A : x <= y
    BY <1>4, HasLeast
  <1>6. best \in SUBSET Nat /\ best # {} /\ best \subseteq Harts
    <2>1. PICK k \in allowed : n[k] = x
      BY <1>5
    <2>2. \A j \in allowed : n[j] \in A
      OBVIOUS
    <2>3. k \in best
      BY <1>5, <2>1, <2>2
    <2>4. QED
      BY <1>2, <2>3, SchedAssumption
  <1>7. S!Least(best) \in best
    BY <1>6, LeastIn
  <1>8. QED
    BY <1>1, <1>6, <1>7

\* The run queue is selected and cpu_id read, under pi_lock.
LEMMA WakeSelectInv ==
  ASSUME SchedInv, NEW c \in Harts, S!WakeSelect(c)
  PROVE  SchedInv'
  <1> USE DEF SchedInv
  <1> DEFINE p == wake[c].p
             target == S!select_task_rq(c, p)
             origin == IF cpu_id[p] = NoThread THEN target ELSE cpu_id[p]
  <1>1. /\ doing[c] = "wsel" /\ doing' = [doing EXCEPT ![c] = "wtry"]
        /\ wake' = [wake EXCEPT ![c].origin = origin, ![c].target = target]
        /\ UNCHANGED <<state, cpu_id, se_rq, on_cpu, pi_lock, rq_lock, rq, current, prev>>
    BY DEF S!WakeSelect, S!Goto, S!threadvars, S!lockvars
  <1>2. p \in SchedThreads
    BY <1>1 DEF LocksHeld
  <1>3. target \in Harts
    BY <1>2, SelectType
  <1>4. origin \in Harts /\ cpu_id[p] \in {NoThread, origin}
    BY <1>2, <1>3 DEF SchedTypeOK, HartOrNone
  <1> HIDE DEF target, origin
  <1>5. /\ wake' \in [Harts -> WakeType]
        /\ wake'[c].p = p /\ wake'[c].origin = origin /\ wake'[c].target = target
        /\ \A k \in Harts \ {c} : wake'[k] = wake[k]
    <2> DEFINE w == [wake[c] EXCEPT !.origin = origin, !.target = target]
    <2>1. wake \in [Harts -> WakeType] /\ wake[c] \in WakeType
      BY DEF SchedTypeOK
    <2>2. w \in WakeType /\ w.p = p /\ w.origin = origin /\ w.target = target
      BY <1>3, <1>4, <2>1 DEF WakeType, HartOrNone
    <2>3. wake' = [wake EXCEPT ![c] = w]
      BY <1>1, <2>1
    <2> HIDE DEF w
    <2>4. QED
      BY <2>1, <2>2, <2>3
  <1> HIDE DEF p
  <1>6. doing'[c] = "wtry" /\ \A k \in Harts \ {c} : doing'[k] = doing[k]
    BY <1>1 DEF SchedTypeOK
  <1>7. SchedTypeOK'
    BY <1>1, <1>5 DEF SchedTypeOK, S!PCs
  <1>8. LocksHeld' /\ CpuIdIsCurrent'
    <2>1. ASSUME NEW k \in Harts, k # c
          PROVE  doing'[k] = doing[k] /\ wake'[k] = wake[k]
      BY <1>5, <1>6, <2>1
    <2>2. pi_lock[p] = c
      BY <1>1 DEF LocksHeld, p
    <2>3. LocksHeld'
      BY <1>1, <1>2, <1>3, <1>4, <1>5, <1>6, <2>1, <2>2 DEF LocksHeld
    <2>4. CpuIdIsCurrent'
      BY <1>1, <1>4, <1>5, <1>6, <2>1 DEF CpuIdIsCurrent
    <2>5. QED
      BY <2>3, <2>4
  <1>9. \A k \in Harts : doing'[k] = "switch" <=> doing[k] = "switch"
    BY <1>1, <1>6
  <1>10. OnCpu' /\ OnRq' /\ Lists' /\ Masks' /\ Counts'
    BY <1>1, <1>9, NobodyMoves
  <1>11. QED
    BY <1>7, <1>8, <1>10

\* rq_trylock_two.
LEMMA WakeTryLockInv ==
  ASSUME SchedInv, NEW c \in Harts, S!WakeTryLock(c)
  PROVE  SchedInv'
  <1> USE DEF SchedInv
  <1> DEFINE p == wake[c].p
  <1>1. /\ doing[c] = "wtry"
        /\ UNCHANGED <<state, cpu_id, se_rq, on_cpu, rq, current, prev, wake>>
    BY DEF S!WakeTryLock, S!threadvars
  <1>2. p \in SchedThreads /\ wake[c].origin \in Harts /\ wake[c].target \in Harts
        /\ pi_lock[p] = c
    BY <1>1 DEF LocksHeld
  <1>3. \/ /\ doing' = [doing EXCEPT ![c] = "wset"] /\ pi_lock' = pi_lock
           /\ \A k \in Harts : rq_lock[k] # NoThread => rq_lock'[k] = rq_lock[k]
           /\ rq_lock'[wake[c].origin] = c /\ rq_lock'[wake[c].target] = c
           /\ rq_lock' \in [Harts -> HartOrNone]
        \/ /\ doing' = [doing EXCEPT ![c] = "wpi"] /\ rq_lock' = rq_lock
           /\ pi_lock' = [pi_lock EXCEPT ![p] = NoThread]
    BY <1>2 DEF S!WakeTryLock, S!Goto, SchedTypeOK, HartOrNone
  <1> HIDE DEF p
  <1>4. doing'[c] \in {"wset", "wpi"} /\ \A k \in Harts \ {c} : doing'[k] = doing[k]
    BY <1>3 DEF SchedTypeOK
  <1>5. SchedTypeOK'
    BY <1>1, <1>3 DEF SchedTypeOK, S!PCs, HartOrNone
  <1>6. LocksHeld'
    <2>1. ASSUME NEW k \in Harts, k # c
          PROVE  /\ doing[k] \in {"wsel", "wtry", "wset"} => pi_lock'[wake[k].p] = k
                 /\ doing[k] = "wset" => rq_lock'[wake[k].origin] = k /\ rq_lock'[wake[k].target] = k
                 /\ doing[k] = "switch" => rq_lock'[k] = k
      <3>1. doing[k] \in {"wsel", "wtry", "wset"} =>
              wake[k].p \in SchedThreads /\ pi_lock[wake[k].p] = k
        BY DEF LocksHeld
      <3>2. doing[k] \in {"wsel", "wtry", "wset"} => pi_lock'[wake[k].p] = k
        BY <1>2, <1>3, <2>1, <3>1 DEF SchedTypeOK
      <3>3. doing[k] = "wset" => /\ rq_lock[wake[k].origin] = k /\ rq_lock[wake[k].target] = k
                                 /\ wake[k].origin \in Harts /\ wake[k].target \in Harts
        BY DEF LocksHeld
      <3>4. doing[k] = "switch" => rq_lock[k] = k
        BY DEF LocksHeld
      <3>5. k # NoThread
        BY SchedAssumption
      <3>6. QED
        BY <1>3, <3>2, <3>3, <3>4, <3>5
    <2>2. ASSUME NEW k \in Harts, k # c
          PROVE  doing'[k] = doing[k] /\ wake'[k] = wake[k]
      BY <1>1, <1>4, <2>2
    <2>3. doing'[c] = "wset" => /\ pi_lock'[p] = c
                                /\ rq_lock'[wake[c].origin] = c /\ rq_lock'[wake[c].target] = c
      BY <1>2, <1>3 DEF SchedTypeOK
    <2>4. QED
      BY <1>1, <1>2, <1>4, <2>1, <2>2, <2>3 DEF LocksHeld, p
  <1>7. CpuIdIsCurrent'
    BY <1>1, <1>4 DEF CpuIdIsCurrent
  <1>8. \A k \in Harts : doing'[k] = "switch" <=> doing[k] = "switch"
    BY <1>1, <1>4
  <1>9. OnCpu' /\ OnRq' /\ Lists' /\ Masks' /\ Counts'
    BY <1>1, <1>8, NobodyMoves
  <1>10. QED
    BY <1>5, <1>6, <1>7, <1>9

-----------------------------------------------------------------------------
(* Counting the threads of the run queues *)

\* One thread joins the run queue of c.
LEMMA CountsAdd ==
  ASSUME SchedTypeOK, Counts, NEW c \in Harts, NEW t \in SchedThreads, NEW q \in RqType,
         se_rq[t] = NoThread, se_rq' = [se_rq EXCEPT ![t] = c],
         rq' = [rq EXCEPT ![c] = q],
         q.count = [rq[c].count EXCEPT ![Priority[t]] = @ + 1],
         q.task_count = [rq[c].task_count EXCEPT ![S!MAJOR_PRIORITY(Priority[t])] = @ + 1]
  PROVE  Counts'
  <1> DEFINE pr == Priority[t]
             major == S!MAJOR_PRIORITY(pr)
  <1>0. /\ pr \in Priorities /\ major \in FifoClasses
        /\ rq \in [Harts -> RqType] /\ rq[c] \in RqType
        /\ rq[c].count \in [Priorities -> Int] /\ rq[c].task_count \in [FifoClasses -> Int]
    BY SchedAssumption, MajorType DEF SchedTypeOK, RqType
  <1>1. \A k : \A p : IsFiniteSet(OfPriority(k, p)) /\ IsFiniteSet(OfClass(k, p))
    BY SchedAssumption, FS_Subset DEF OfPriority, OfClass
  <1>2. \A u \in SchedThreads : se_rq'[u] = IF u = t THEN c ELSE se_rq[u]
    BY DEF SchedTypeOK
  <1>3. /\ \A k \in Harts : \A p : k # c \/ p # pr => OfPriority(k, p)' = OfPriority(k, p)
        /\ OfPriority(c, pr)' = OfPriority(c, pr) \cup {t} /\ t \notin OfPriority(c, pr)
    BY <1>2, SchedAssumption DEF OfPriority
  <1>4. /\ \A k \in Harts : \A p : k # c \/ p # major => OfClass(k, p)' = OfClass(k, p)
        /\ OfClass(c, major)' = OfClass(c, major) \cup {t} /\ t \notin OfClass(c, major)
    BY <1>2, SchedAssumption DEF OfClass
  <1>5. /\ Cardinality(OfPriority(c, pr)') = Cardinality(OfPriority(c, pr)) + 1
        /\ Cardinality(OfClass(c, major)') = Cardinality(OfClass(c, major)) + 1
    BY <1>1, <1>3, <1>4, FS_AddElement
  <1>6. rq'[c] = q /\ \A k \in Harts \ {c} : rq'[k] = rq[k]
    BY <1>0
  <1>7. /\ q.count[pr] = rq[c].count[pr] + 1
        /\ \A p \in Priorities \ {pr} : q.count[p] = rq[c].count[p]
        /\ q.task_count[major] = rq[c].task_count[major] + 1
        /\ \A p \in FifoClasses \ {major} : q.task_count[p] = rq[c].task_count[p]
    BY <1>0
  <1> HIDE DEF pr, major
  <1>8. ASSUME NEW k \in Harts, NEW p \in Priorities
        PROVE  rq'[k].count[p] = Cardinality(OfPriority(k, p)')
    <2>1. CASE k = c /\ p = pr
      BY <1>5, <1>6, <1>7, <2>1 DEF Counts
    <2>2. CASE ~(k = c /\ p = pr)
      <3>1. rq'[k].count[p] = rq[k].count[p]
        <4>1. CASE k # c
          <5>1. k \in Harts \ {c}
            BY <4>1
          <5>2. QED
            BY <1>6, <5>1
        <4>2. CASE k = c
          <5>1. p \in Priorities \ {pr}
            BY <2>2, <4>2
          <5>2. q.count[p] = rq[c].count[p]
            BY <1>7, <5>1
          <5>3. rq'[k] = q
            BY <1>6, <4>2
          <5>4. QED
            BY <4>2, <5>2, <5>3
        <4>3. QED
          BY <4>1, <4>2
      <3>2. QED
        BY <1>3, <2>2, <3>1 DEF Counts
    <2>3. QED
      BY <2>1, <2>2
  <1>9. ASSUME NEW k \in Harts, NEW p \in FifoClasses
        PROVE  rq'[k].task_count[p] = Cardinality(OfClass(k, p)')
    <2>1. CASE k = c /\ p = major
      BY <1>5, <1>6, <1>7, <2>1 DEF Counts
    <2>2. CASE ~(k = c /\ p = major)
      <3>1. rq'[k].task_count[p] = rq[k].task_count[p]
        <4>1. CASE k # c
          <5>1. k \in Harts \ {c}
            BY <4>1
          <5>2. QED
            BY <1>6, <5>1
        <4>2. CASE k = c
          <5>1. p \in FifoClasses \ {major}
            BY <2>2, <4>2
          <5>2. q.task_count[p] = rq[c].task_count[p]
            BY <1>7, <5>1
          <5>3. rq'[k] = q
            BY <1>6, <4>2
          <5>4. QED
            BY <4>2, <5>2, <5>3
        <4>3. QED
          BY <4>1, <4>2
      <3>2. QED
        BY <1>4, <2>2, <3>1 DEF Counts
    <2>3. QED
      BY <2>1, <2>2
  <1>10. QED
    BY <1>8, <1>9 DEF Counts

\* One thread leaves the run queue of c.
LEMMA CountsDrop ==
  ASSUME SchedTypeOK, Counts, NEW c \in Harts, NEW t \in SchedThreads, NEW q \in RqType,
         se_rq[t] = c, se_rq' = [se_rq EXCEPT ![t] = NoThread],
         rq' = [rq EXCEPT ![c] = q],
         q.count = [rq[c].count EXCEPT ![Priority[t]] = @ - 1],
         q.task_count = [rq[c].task_count EXCEPT ![S!MAJOR_PRIORITY(Priority[t])] = @ - 1]
  PROVE  Counts'
  <1> DEFINE pr == Priority[t]
             major == S!MAJOR_PRIORITY(pr)
  <1>0. /\ pr \in Priorities /\ major \in FifoClasses
        /\ rq \in [Harts -> RqType] /\ rq[c] \in RqType
        /\ rq[c].count \in [Priorities -> Int] /\ rq[c].task_count \in [FifoClasses -> Int]
    BY SchedAssumption, MajorType DEF SchedTypeOK, RqType
  <1>1. \A k : \A p : IsFiniteSet(OfPriority(k, p)) /\ IsFiniteSet(OfClass(k, p))
    BY SchedAssumption, FS_Subset DEF OfPriority, OfClass
  <1>2. \A u \in SchedThreads : se_rq'[u] = IF u = t THEN NoThread ELSE se_rq[u]
    BY DEF SchedTypeOK
  <1>3. /\ \A k \in Harts : \A p : k # c \/ p # pr => OfPriority(k, p)' = OfPriority(k, p)
        /\ OfPriority(c, pr)' = OfPriority(c, pr) \ {t} /\ t \in OfPriority(c, pr)
    BY <1>2, SchedAssumption DEF OfPriority
  <1>4. /\ \A k \in Harts : \A p : k # c \/ p # major => OfClass(k, p)' = OfClass(k, p)
        /\ OfClass(c, major)' = OfClass(c, major) \ {t} /\ t \in OfClass(c, major)
    BY <1>2, SchedAssumption DEF OfClass
  <1>5. /\ Cardinality(OfPriority(c, pr)') = Cardinality(OfPriority(c, pr)) - 1
        /\ Cardinality(OfClass(c, major)') = Cardinality(OfClass(c, major)) - 1
    <2>1. Cardinality(OfPriority(c, pr) \ {t}) = Cardinality(OfPriority(c, pr)) - 1
      BY <1>1, <1>3, FS_RemoveElement
    <2>2. Cardinality(OfClass(c, major) \ {t}) = Cardinality(OfClass(c, major)) - 1
      BY <1>1, <1>4, FS_RemoveElement
    <2>3. QED
      BY <1>3, <1>4, <2>1, <2>2
  <1>6. rq'[c] = q /\ \A k \in Harts \ {c} : rq'[k] = rq[k]
    BY <1>0
  <1>7. /\ q.count[pr] = rq[c].count[pr] - 1
        /\ \A p \in Priorities \ {pr} : q.count[p] = rq[c].count[p]
        /\ q.task_count[major] = rq[c].task_count[major] - 1
        /\ \A p \in FifoClasses \ {major} : q.task_count[p] = rq[c].task_count[p]
    BY <1>0
  <1> HIDE DEF pr, major
  <1>8. ASSUME NEW k \in Harts, NEW p \in Priorities
        PROVE  rq'[k].count[p] = Cardinality(OfPriority(k, p)')
    <2>1. CASE k = c /\ p = pr
      BY <1>5, <1>6, <1>7, <2>1 DEF Counts
    <2>2. CASE ~(k = c /\ p = pr)
      <3>1. rq'[k].count[p] = rq[k].count[p]
        <4>1. CASE k # c
          <5>1. k \in Harts \ {c}
            BY <4>1
          <5>2. QED
            BY <1>6, <5>1
        <4>2. CASE k = c
          <5>1. p \in Priorities \ {pr}
            BY <2>2, <4>2
          <5>2. q.count[p] = rq[c].count[p]
            BY <1>7, <5>1
          <5>3. rq'[k] = q
            BY <1>6, <4>2
          <5>4. QED
            BY <4>2, <5>2, <5>3
        <4>3. QED
          BY <4>1, <4>2
      <3>2. QED
        BY <1>3, <2>2, <3>1 DEF Counts
    <2>3. QED
      BY <2>1, <2>2
  <1>9. ASSUME NEW k \in Harts, NEW p \in FifoClasses
        PROVE  rq'[k].task_count[p] = Cardinality(OfClass(k, p)')
    <2>1. CASE k = c /\ p = major
      BY <1>5, <1>6, <1>7, <2>1 DEF Counts
    <2>2. CASE ~(k = c /\ p = major)
      <3>1. rq'[k].task_count[p] = rq[k].task_count[p]
        <4>1. CASE k # c
          <5>1. k \in Harts \ {c}
            BY <4>1
          <5>2. QED
            BY <1>6, <5>1
        <4>2. CASE k = c
          <5>1. p \in FifoClasses \ {major}
            BY <2>2, <4>2
          <5>2. q.task_count[p] = rq[c].task_count[p]
            BY <1>7, <5>1
          <5>3. rq'[k] = q
            BY <1>6, <4>2
          <5>4. QED
            BY <4>2, <5>2, <5>3
        <4>3. QED
          BY <4>1, <4>2
      <3>2. QED
        BY <1>4, <2>2, <3>1 DEF Counts
    <2>3. QED
      BY <2>1, <2>2
  <1>10. QED
    BY <1>8, <1>9 DEF Counts

\* Nobody joins or leaves.
LEMMA CountsStay ==
  ASSUME SchedTypeOK, Counts, NEW c \in Harts, NEW q, se_rq' = se_rq,
         rq' = [rq EXCEPT ![c] = q],
         q.count = rq[c].count, q.task_count = rq[c].task_count
  PROVE  Counts'
  <1>1. \A k, p : OfPriority(k, p)' = OfPriority(k, p) /\ OfClass(k, p)' = OfClass(k, p)
    BY DEF OfPriority, OfClass
  <1>2. \A k \in Harts : rq'[k].count = rq[k].count /\ rq'[k].task_count = rq[k].task_count
    BY DEF SchedTypeOK
  <1>3. QED
    BY <1>1, <1>2 DEF Counts

-----------------------------------------------------------------------------
(* The last step of a wake-up *)

\* The locks are released and the waker returns.
LEMMA WakeUnlocks ==
  ASSUME SchedInv, NEW c \in Harts, doing[c] = "wset", S!WakeReturn(c), S!UnlockAll(c)
  PROVE  /\ doing' \in [Harts -> S!PCs] /\ wake' \in [Harts -> WakeType]
         /\ pi_lock' \in [SchedThreads -> HartOrNone] /\ rq_lock' \in [Harts -> HartOrNone]
         /\ doing'[c] = "run"
         /\ \A k \in Harts \ {c} : doing'[k] = doing[k] /\ wake'[k] = wake[k]
         /\ LocksHeld'
         /\ \A k \in Harts \ {c} : doing[k] \in {"wtry", "wset"} =>
              wake[k].p \in SchedThreads /\ wake[k].p # wake[c].p
  <1> USE DEF SchedInv
  <1> DEFINE p == wake[c].p
  <1>1. /\ p \in SchedThreads /\ pi_lock[p] = c
        /\ doing' = [doing EXCEPT ![c] = "run"] /\ wake' = [wake EXCEPT ![c] = S!NoWake]
        /\ pi_lock' = [pi_lock EXCEPT ![p] = NoThread]
        /\ rq_lock' = [k \in Harts |-> IF rq_lock[k] = c THEN NoThread ELSE rq_lock[k]]
    BY DEF S!WakeReturn, S!UnlockAll, LocksHeld
  <1> HIDE DEF p
  <1>2. S!NoWake \in WakeType
    BY DEF S!NoWake, WakeType, HartOrNone
  <1>3. /\ doing' \in [Harts -> S!PCs] /\ wake' \in [Harts -> WakeType]
        /\ pi_lock' \in [SchedThreads -> HartOrNone] /\ rq_lock' \in [Harts -> HartOrNone]
        /\ doing'[c] = "run"
    BY <1>1, <1>2 DEF SchedTypeOK, S!PCs, HartOrNone
  <1>4. \A k \in Harts \ {c} : doing'[k] = doing[k] /\ wake'[k] = wake[k]
    BY <1>1 DEF SchedTypeOK
  <1>5. ASSUME NEW k \in Harts, k # c
        PROVE  /\ doing[k] \in {"wsel", "wtry", "wset"} =>
                    pi_lock'[wake[k].p] = k /\ wake[k].p \in SchedThreads /\ wake[k].p # p
               /\ doing[k] = "wset" =>
                    rq_lock'[wake[k].origin] = k /\ rq_lock'[wake[k].target] = k
               /\ doing[k] = "switch" => rq_lock'[k] = k
    <2>1. doing[k] \in {"wsel", "wtry", "wset"} =>
            wake[k].p \in SchedThreads /\ pi_lock[wake[k].p] = k
      BY DEF LocksHeld
    <2>2. doing[k] = "wset" => /\ rq_lock[wake[k].origin] = k /\ rq_lock[wake[k].target] = k
                               /\ wake[k].origin \in Harts /\ wake[k].target \in Harts
      BY DEF LocksHeld
    <2>3. doing[k] = "switch" => rq_lock[k] = k
      BY DEF LocksHeld
    <2>4. QED
      BY <1>1, <1>5, <2>1, <2>2, <2>3 DEF SchedTypeOK
  <1>6. LocksHeld'
    <2>1. ASSUME NEW k \in Harts, k # c
          PROVE  doing'[k] = doing[k] /\ wake'[k] = wake[k]
      BY <1>4, <2>1
    <2>2. QED
      BY <1>3, <1>5, <2>1 DEF LocksHeld
  <1>7. \A k \in Harts \ {c} : doing[k] \in {"wtry", "wset"} =>
          wake[k].p \in SchedThreads /\ wake[k].p # p
    BY <1>5
  <1>8. QED
    BY <1>3, <1>4, <1>6, <1>7 DEF p

\* __do_scheduler_wakeup with all its locks: the thread is made runnable where it
\* is, or enqueued.
LEMMA WakeSetInv ==
  ASSUME SchedInv, NEW c \in Harts, S!WakeSet(c)
  PROVE  SchedInv'
  <1> USE DEF SchedInv
  <1> DEFINE t == wake[c].p
             g == wake[c].target
             pr == Priority[t]
             q == S!EnqueueTask(rq[g], t, pr)
  <1>1. /\ doing[c] = "wset" /\ S!WakeReturn(c) /\ S!UnlockAll(c)
        /\ UNCHANGED <<on_cpu, current, prev>>
    BY DEF S!WakeSet
  <1>2. /\ doing' \in [Harts -> S!PCs] /\ wake' \in [Harts -> WakeType]
        /\ pi_lock' \in [SchedThreads -> HartOrNone] /\ rq_lock' \in [Harts -> HartOrNone]
        /\ doing'[c] = "run"
        /\ \A k \in Harts \ {c} : doing'[k] = doing[k] /\ wake'[k] = wake[k]
        /\ LocksHeld'
        /\ \A k \in Harts \ {c} : doing[k] \in {"wtry", "wset"} =>
             wake[k].p \in SchedThreads /\ wake[k].p # t
    BY <1>1, WakeUnlocks
  <1>3. /\ t \in SchedThreads /\ g \in Harts
        /\ \A k \in Harts : ~SwitchesFrom(k, t)
    BY <1>1, LocksSuffice DEF LocksHeld
  <1>4. pr \in Priorities /\ rq[g] \in RqType
    BY <1>3, SchedAssumption DEF SchedTypeOK
  <1>5. \/ /\ se_rq[t] # NoThread
           /\ state' = [state EXCEPT ![t] = "RUNNING"] /\ UNCHANGED <<rq, se_rq, cpu_id>>
        \/ /\ se_rq[t] = NoThread /\ ~on_cpu[t]
           /\ state' = [state EXCEPT ![t] = "WAKENING"]
           /\ rq' = [rq EXCEPT ![g] = q]
           /\ se_rq' = [se_rq EXCEPT ![t] = g] /\ cpu_id' = [cpu_id EXCEPT ![t] = g]
    BY DEF S!WakeSet
  <1> HIDE DEF t, g, pr, q
  <1>6. \A k \in Harts : doing'[k] = "switch" <=> doing[k] = "switch"
    BY <1>1, <1>2
  <1>7. \A u, k : k \in Harts => (SwitchesFrom(k, u)' <=> SwitchesFrom(k, u))
    BY <1>1, <1>6 DEF SwitchesFrom
  <1>8. CASE se_rq[t] # NoThread /\ state' = [state EXCEPT ![t] = "RUNNING"]
             /\ UNCHANGED <<rq, se_rq, cpu_id>>
    <2>1. SchedTypeOK'
      BY <1>1, <1>2, <1>3, <1>8 DEF SchedTypeOK, S!States
    <2>2. CpuIdIsCurrent'
      BY <1>2, <1>8 DEF CpuIdIsCurrent
    <2>3. \A u \in SchedThreads : state'[u] = IF u = t THEN "RUNNING" ELSE state[u]
      BY <1>8 DEF SchedTypeOK
    <2>4. OnCpu'
      BY <1>1, <1>3, <1>7, <1>8, <2>3 DEF OnCpu
    <2>5. OnRq' /\ Lists'
      BY <1>1, <1>8, <2>3 DEF OnRq, Lists
    <2>6. Masks'
      BY <1>8 DEF Masks
    <2>7. \A k, p : OfPriority(k, p)' = OfPriority(k, p) /\ OfClass(k, p)' = OfClass(k, p)
      BY <1>8 DEF OfPriority, OfClass
    <2>8. Counts'
      BY <1>8, <2>7 DEF Counts
    <2>9. QED
      BY <1>2, <2>1, <2>2, <2>4, <2>5, <2>6, <2>8
  <1>9. CASE /\ se_rq[t] = NoThread /\ ~on_cpu[t]
             /\ state' = [state EXCEPT ![t] = "WAKENING"]
             /\ rq' = [rq EXCEPT ![g] = q]
             /\ se_rq' = [se_rq EXCEPT ![t] = g] /\ cpu_id' = [cpu_id EXCEPT ![t] = g]
    <2>1. /\ q \in RqType
          /\ q.list = [rq[g].list EXCEPT ![pr] = Append(@, t)]
          /\ q.count = [rq[g].count EXCEPT ![pr] = @ + 1]
          /\ q.task_count = [rq[g].task_count EXCEPT ![S!MAJOR_PRIORITY(pr)] = @ + 1]
          /\ MasksLead(rq[g]) => MasksLead(q)
      BY <1>3, <1>4, Enqueue DEF q
    <2>2. rq'[g] = q /\ \A k \in Harts \ {g} : rq'[k] = rq[k]
      BY <1>3, <1>9 DEF SchedTypeOK
    <2>3. \A u \in SchedThreads :
            /\ state'[u] = IF u = t THEN "WAKENING" ELSE state[u]
            /\ se_rq'[u] = IF u = t THEN g ELSE se_rq[u]
            /\ cpu_id'[u] = IF u = t THEN g ELSE cpu_id[u]
      BY <1>9 DEF SchedTypeOK
    <2>4. SchedTypeOK'
      BY <1>1, <1>2, <1>3, <1>9, <2>1 DEF SchedTypeOK, S!States, HartOrNone
    <2>5. CpuIdIsCurrent'
      <3>1. ASSUME NEW k \in Harts, doing'[k] \in {"wtry", "wset"}
            PROVE  cpu_id'[wake'[k].p] \in {NoThread, wake'[k].origin}
        <4>1. k # c
          BY <1>2, <3>1
        <4>2. doing[k] \in {"wtry", "wset"} /\ wake'[k] = wake[k]
              /\ wake[k].p \in SchedThreads /\ wake[k].p # t
          BY <1>2, <3>1, <4>1
        <4>3. QED
          BY <2>3, <4>2 DEF CpuIdIsCurrent
      <3>2. QED
        BY <3>1 DEF CpuIdIsCurrent
    <2>6. \A k \in Harts : current[k] # t /\ ~SwitchesFrom(k, t)
      BY <1>3, <1>9 DEF OnCpu
    <2>7. OnCpu'
      BY <1>1, <1>7, <2>3, <2>6 DEF OnCpu
    <2>8. \A p \in Priorities, u \in SchedThreads :
             InList(q.list[p], u) <=> InList(rq[g].list[p], u) \/ (p = pr /\ u = t)
      <3>1. rq[g].list \in [Priorities -> Seq(SchedThreads)]
        BY <1>4 DEF RqType
      <3>2. \A u \in SchedThreads :
              InList(Append(rq[g].list[pr], t), u) <=> InList(rq[g].list[pr], u) \/ u = t
        BY <1>3, <1>4, <3>1, PushList
      <3>3. q.list[pr] = Append(rq[g].list[pr], t)
            /\ \A p \in Priorities \ {pr} : q.list[p] = rq[g].list[p]
        BY <1>4, <2>1, <3>1
      <3>4. QED
        BY <3>2, <3>3
    <2>9. OnRq'
      <3>1. ASSUME NEW u \in SchedThreads
            PROVE  /\ se_rq'[u] # NoThread => cpu_id'[u] = se_rq'[u]
                   /\ se_rq'[u] # NoThread /\ ~on_cpu'[u] =>
                        InList(rq'[se_rq'[u]].list[Priority[u]], u)
                   /\ se_rq'[u] = NoThread /\ ~on_cpu'[u] =>
                        state'[u] \in {"SLEEPING", "STOPPED", "ZOMBIE"}
        <4>1. CASE u = t
          <5>1. se_rq'[u] = g /\ cpu_id'[u] = g /\ g # NoThread
            BY <1>3, <2>3, <4>1, SchedAssumption
          <5>2. InList(q.list[pr], t)
            BY <1>3, <1>4, <2>8
          <5>3. QED
            BY <2>2, <4>1, <5>1, <5>2 DEF pr
        <4>2. CASE u # t
          <5>1. se_rq'[u] = se_rq[u] /\ cpu_id'[u] = cpu_id[u] /\ state'[u] = state[u]
                /\ on_cpu'[u] = on_cpu[u]
            BY <1>1, <2>3, <4>2
          <5>2. Priority[u] \in Priorities /\ se_rq[u] \in HartOrNone
            BY SchedAssumption DEF SchedTypeOK
          <5>3. ASSUME se_rq[u] # NoThread, ~on_cpu[u]
                PROVE  InList(rq'[se_rq[u]].list[Priority[u]], u)
            <6>1. InList(rq[se_rq[u]].list[Priority[u]], u) /\ se_rq[u] \in Harts
              BY <5>2, <5>3 DEF OnRq, HartOrNone
            <6>2. QED
              BY <2>2, <2>8, <5>2, <6>1
          <5>4. QED
            BY <5>1, <5>3 DEF OnRq
        <4>3. QED
          BY <4>1, <4>2
      <3>2. QED
        BY <3>1 DEF OnRq
    <2>10. Lists'
      <3>1. ASSUME NEW k \in Harts, NEW p \in Priorities
            PROVE  Distinct(rq'[k].list[p])
        <4>1. CASE k = g /\ p = pr
          <5>1. rq[g].list \in [Priorities -> Seq(SchedThreads)]
            BY <1>4 DEF RqType
          <5>2. Distinct(rq[g].list[pr]) /\ ~InList(rq[g].list[pr], t)
            BY <1>3, <1>4, <1>9, SchedAssumption DEF Lists
          <5>3. Distinct(Append(rq[g].list[pr], t))
            BY <1>3, <1>4, <5>1, <5>2, PushList
          <5>4. QED
            BY <1>4, <2>1, <2>2, <4>1, <5>1, <5>3
        <4>2. CASE ~(k = g /\ p = pr)
          <5>1. rq'[k].list[p] = rq[k].list[p]
            BY <1>4, <2>1, <2>2, <4>2 DEF RqType
          <5>2. QED
            BY <5>1 DEF Lists
        <4>3. QED
          BY <4>1, <4>2
      <3>2. ASSUME NEW k \in Harts, NEW p \in Priorities, NEW u \in SchedThreads,
                   InList(rq'[k].list[p], u)
            PROVE  /\ se_rq'[u] = k /\ Priority[u] = p /\ ~on_cpu'[u]
                   /\ state'[u] \in {"RUNNING", "WAKENING"}
        <4>1. CASE InList(rq[k].list[p], u)
          <5>1. se_rq[u] = k /\ Priority[u] = p /\ ~on_cpu[u]
                /\ state[u] \in {"RUNNING", "WAKENING"}
            BY <4>1 DEF Lists
          <5>2. u # t
            BY <1>9, <5>1, SchedAssumption
          <5>3. QED
            BY <1>1, <2>3, <5>1, <5>2
        <4>2. CASE ~InList(rq[k].list[p], u)
          <5>1. k = g /\ p = pr /\ u = t
            BY <2>2, <2>8, <3>2, <4>2
          <5>2. QED
            BY <1>1, <1>9, <2>3, <5>1 DEF pr
        <4>3. QED
          BY <4>1, <4>2
      <3>3. QED
        BY <3>1, <3>2 DEF Lists
    <2>11. Masks'
      BY <1>3, <2>1, <2>2 DEF Masks
    <2>12. Counts'
      BY <1>3, <1>9, <2>1, CountsAdd DEF pr
    <2>13. QED
      BY <1>2, <2>4, <2>5, <2>7, <2>9, <2>10, <2>11, <2>12
  <1>10. QED
    BY <1>5, <1>8, <1>9

-----------------------------------------------------------------------------
(* The steps of a yield *)

\* Taking a thread off the list of its priority takes it off the run queue's lists.
LEMMA DetachedLists ==
  ASSUME NEW r \in RqType, NEW t \in SchedThreads, NEW p \in Priorities, NEW q,
         q.list = [r.list EXCEPT ![p] = S!list_detach(@, t)],
         \A k \in Priorities : Distinct(r.list[k]) /\ (InList(r.list[k], t) => k = p)
  PROVE  \A k \in Priorities :
           /\ Distinct(q.list[k])
           /\ \A u \in SchedThreads : InList(q.list[k], u) <=> InList(r.list[k], u) /\ u # t
  <1>1. r.list \in [Priorities -> Seq(SchedThreads)]
    BY DEF RqType
  <1>2. q.list[p] = S!list_detach(r.list[p], t)
        /\ \A k \in Priorities \ {p} : q.list[k] = r.list[k]
    BY <1>1
  <1>3. /\ Distinct(S!list_detach(r.list[p], t))
        /\ \A u \in SchedThreads :
             InList(S!list_detach(r.list[p], t), u) <=> InList(r.list[p], u) /\ u # t
    BY <1>1, DetachList
  <1>4. SUFFICES ASSUME NEW k \in Priorities
                 PROVE  /\ Distinct(q.list[k])
                        /\ \A u \in SchedThreads :
                             InList(q.list[k], u) <=> InList(r.list[k], u) /\ u # t
    OBVIOUS
  <1>5. CASE k = p
    BY <1>2, <1>3, <1>5
  <1>6. CASE k # p
    <2>1. q.list[k] = r.list[k]
      BY <1>2, <1>6
    <2>2. ~InList(r.list[k], t)
      BY <1>6
    <2>3. QED
      BY <2>1, <2>2
  <1>7. QED
    BY <1>5, <1>6

\* rq_put_prev_task puts the thread on one list.
LEMMA PushedLists ==
  ASSUME NEW r \in RqType, NEW t \in SchedThreads, NEW p \in Priorities, NEW q,
         q.list = [r.list EXCEPT ![p] = Append(@, t)],
         \A k \in Priorities : Distinct(r.list[k]) /\ ~InList(r.list[k], t)
  PROVE  \A k \in Priorities :
           /\ Distinct(q.list[k])
           /\ \A u \in SchedThreads :
                InList(q.list[k], u) <=> InList(r.list[k], u) \/ (k = p /\ u = t)
  <1>1. r.list \in [Priorities -> Seq(SchedThreads)]
    BY DEF RqType
  <1>2. q.list[p] = Append(r.list[p], t)
        /\ \A k \in Priorities \ {p} : q.list[k] = r.list[k]
    BY <1>1
  <1>3. /\ Distinct(Append(r.list[p], t))
        /\ \A u \in SchedThreads :
             InList(Append(r.list[p], t), u) <=> InList(r.list[p], u) \/ u = t
    BY <1>1, PushList
  <1>4. SUFFICES ASSUME NEW k \in Priorities
                 PROVE  /\ Distinct(q.list[k])
                        /\ \A u \in SchedThreads :
                             InList(q.list[k], u) <=> InList(r.list[k], u) \/ (k = p /\ u = t)
    OBVIOUS
  <1>5. CASE k = p
    BY <1>2, <1>3, <1>5
  <1>6. CASE k # p
    <2>1. q.list[k] = r.list[k]
      BY <1>2, <1>6
    <2>2. QED
      BY <1>6, <2>1
  <1>7. QED
    BY <1>5, <1>6

\* __sched_pick_next returns the thread that yields, the idle thread, or the head
\* of a list.
LEMMA Picked ==
  ASSUME SchedInv, NEW c \in Harts
  PROVE  LET t == S!PickNext(c) IN
         \/ t = current[c] \/ t = Idle
         \/ t \in SchedThreads /\ \E p \in Priorities : InList(rq[c].list[p], t)
  <1> DEFINE cls == S!pick_next_rq(rq[c])
             list == S!PickList(rq[c], cls)
             t == S!PickNext(c)
             at == S!PickedPriority(rq[c], cls)
             A == {p \in rq[c].ready : S!MAJOR_PRIORITY(p) = cls}
  <1>1. t \in {current[c], Idle} \/ (list # <<>> /\ t = Head(list))
    BY DEF S!PickNext
  <1>2. list = IF A # {} THEN rq[c].list[at] ELSE <<>>
    BY DEF S!PickList
  <1>3. rq[c] \in RqType
    BY DEF SchedInv, SchedTypeOK
  <1>4. A \in SUBSET Nat /\ A \subseteq Priorities
    <2>1. rq[c].ready \in SUBSET Priorities
      BY <1>3 DEF RqType
    <2>2. \A p \in Priorities : p \in Nat
      BY PrioritiesAssumption
    <2>3. QED
      BY <2>1, <2>2
  <1>5. A # {} => at \in Priorities
    BY <1>4, LeastIn DEF S!PickedPriority
  <1> HIDE DEF cls, list, t, at, A
  <1>6. CASE list # <<>> /\ t = Head(list)
    <2>1. at \in Priorities /\ list = rq[c].list[at]
      BY <1>2, <1>5, <1>6
    <2>2. list \in Seq(SchedThreads)
      BY <1>3, <2>1 DEF RqType
    <2>3. 1 \in 1..Len(list) /\ list[1] = t /\ t \in SchedThreads
      BY <1>6, <2>2
    <2>4. QED
      BY <2>1, <2>3 DEF InList, t
  <1>7. QED
    BY <1>1, <1>6 DEF t

\* scheduler_yield up to the switch.
LEMMA YieldSwitchInv ==
  ASSUME SchedInv, NEW c \in Harts, S!YieldSwitch(c)
  PROVE  SchedInv'
  <1> USE DEF SchedInv
  <1> DEFINE next == S!PickNext(c)
             old == current[c]
             dead == old # Idle /\ state[old] = "ZOMBIE"
             picked == IF next = Idle THEN rq[c]
                       ELSE S!SetNextTask(rq[c], next, Priority[next])
             q == IF dead /\ se_rq[old] # NoThread
                  THEN S!DequeueTask(picked, old, Priority[old]) ELSE picked
  <1>1. /\ doing[c] = "ylock" /\ rq_lock[c] = NoThread /\ next # old
        /\ doing' = [doing EXCEPT ![c] = "switch"]
        /\ rq_lock' = [rq_lock EXCEPT ![c] = c]
        /\ rq' = [rq EXCEPT ![c] = q]
        /\ se_rq' = IF dead THEN [se_rq EXCEPT ![old] = NoThread] ELSE se_rq
        /\ on_cpu' = IF next = Idle THEN on_cpu ELSE [on_cpu EXCEPT ![next] = TRUE]
        /\ cpu_id' = IF next = Idle THEN cpu_id ELSE [cpu_id EXCEPT ![next] = c]
        /\ state' = IF next = Idle THEN state ELSE [state EXCEPT ![next] = "RUNNING"]
        /\ prev' = [prev EXCEPT ![c] = old]
        /\ current' = [current EXCEPT ![c] = next]
        /\ UNCHANGED <<pi_lock, wake>>
    BY DEF S!YieldSwitch
  <1>2. next = Idle \/ (next \in SchedThreads /\ \E p \in Priorities : InList(rq[c].list[p], next))
    BY <1>1, Picked
  <1> HIDE DEF next
  <1>3. next # Idle => /\ next \in SchedThreads
                       /\ se_rq[next] = c /\ cpu_id[next] = c /\ ~on_cpu[next]
    <2>1. next # Idle => next \in SchedThreads /\ se_rq[next] = c /\ ~on_cpu[next]
      BY <1>2 DEF Lists
    <2>2. QED
      BY <2>1, SchedAssumption DEF OnRq
  <1>4. old \in SchedThreads \cup {Idle} /\ next \in SchedThreads \cup {Idle}
        /\ rq[c] \in RqType
    BY <1>2 DEF SchedTypeOK
  <1>5. old # Idle => /\ old \in SchedThreads /\ on_cpu[old] /\ cpu_id[old] = c
                      /\ se_rq[old] = c /\ state[old] # "WAKENING"
    BY <1>4 DEF OnCpu
  <1> HIDE DEF old
  <1>6. cpu_id' = cpu_id
    BY <1>1, <1>3 DEF SchedTypeOK
  <1>7. \A u \in SchedThreads :
          /\ state'[u] = IF u = next THEN "RUNNING" ELSE state[u]
          /\ on_cpu'[u] = IF u = next THEN TRUE ELSE on_cpu[u]
          /\ se_rq'[u] = IF dead /\ u = old THEN NoThread ELSE se_rq[u]
    BY <1>1, <1>3, SchedAssumption DEF SchedTypeOK
  <1>8. /\ picked \in RqType /\ MasksLead(picked)
        /\ picked.count = rq[c].count /\ picked.task_count = rq[c].task_count
        /\ \A k \in Priorities :
             /\ Distinct(picked.list[k])
             /\ \A u \in SchedThreads :
                  InList(picked.list[k], u) <=> InList(rq[c].list[k], u) /\ u # next
    <2>1. \A k \in Priorities : Distinct(rq[c].list[k])
      BY DEF Lists
    <2>2. CASE next = Idle
      <3>1. picked = rq[c] /\ next \notin SchedThreads
        BY <2>2, SchedAssumption
      <3>2. QED
        BY <1>4, <2>1, <3>1 DEF Masks
    <2>3. CASE next # Idle
      <3> DEFINE p == Priority[next]
                 cls == S!MAJOR_PRIORITY(p)
      <3>1. p \in Priorities /\ next \in SchedThreads /\ se_rq[next] = c
        BY <1>3, <2>3, SchedAssumption
      <3>2. /\ rq[c].count[p] = 1 => S!list_detach(rq[c].list[p], next) = <<>>
            /\ rq[c].task_count[cls] = 1 =>
                 \A k \in Priorities : S!MAJOR_PRIORITY(k) = cls =>
                   (IF k = p THEN S!list_detach(rq[c].list[p], next) ELSE rq[c].list[k]) = <<>>
        BY <1>4, <2>1, <3>1, BitsMayGo
      <3>3. picked = S!SetNextTask(rq[c], next, p)
        BY <2>3
      <3> HIDE DEF p
      <3>4. /\ picked \in RqType
            /\ picked.list = [rq[c].list EXCEPT ![p] = S!list_detach(@, next)]
            /\ picked.count = rq[c].count /\ picked.task_count = rq[c].task_count
            /\ MasksLead(picked)
        <4>1. Distinct(rq[c].list[p]) /\ MasksLead(rq[c])
          BY <2>1, <3>1 DEF Masks
        <4>2. QED
          BY <1>4, <3>1, <3>2, <3>3, <4>1, SetNext
      <3>5. \A k \in Priorities : InList(rq[c].list[k], next) => k = p
        BY <3>1 DEF Lists, p
      <3>6. QED
        BY <1>4, <2>1, <3>1, <3>4, <3>5, DetachedLists
    <2>4. QED
      BY <2>2, <2>3
  <1> HIDE DEF picked
  <1>9. /\ q \in RqType /\ MasksLead(q) /\ Counts'
        /\ \A k \in Priorities :
             /\ Distinct(q.list[k])
             /\ \A u \in SchedThreads :
                  InList(q.list[k], u) <=> InList(rq[c].list[k], u) /\ u # next
    <2>1. CASE ~dead
      <3>1. q = picked /\ se_rq' = se_rq
        BY <1>1, <2>1
      <3>2. Counts'
        BY <1>1, <1>8, <3>1, CountsStay
      <3>3. QED
        BY <1>8, <3>1, <3>2
    <2>2. CASE dead
      <3> DEFINE p == Priority[old]
                 cls == S!MAJOR_PRIORITY(p)
      <3>1. p \in Priorities /\ old \in SchedThreads /\ se_rq[old] = c /\ on_cpu[old]
        BY <1>5, <2>2, SchedAssumption
      <3>2. q = S!DequeueTask(picked, old, p) /\ se_rq' = [se_rq EXCEPT ![old] = NoThread]
        BY <1>1, <2>2, <3>1, SchedAssumption
      <3>3. /\ picked.count[p] = 1 => S!list_detach(picked.list[p], old) = <<>>
            /\ picked.task_count[cls] = 1 =>
                 \A k \in Priorities : S!MAJOR_PRIORITY(k) = cls =>
                   (IF k = p THEN S!list_detach(picked.list[p], old) ELSE picked.list[k]) = <<>>
        BY <1>8, <3>1, BitsMayGo
      <3> HIDE DEF q, p
      <3>4. /\ q \in RqType
            /\ q.list = [picked.list EXCEPT ![p] = S!list_detach(@, old)]
            /\ q.count = [picked.count EXCEPT ![p] = @ - 1]
            /\ q.task_count = [picked.task_count EXCEPT ![cls] = @ - 1]
            /\ MasksLead(q)
        BY <1>8, <3>1, <3>2, <3>3, Dequeue
      <3>5. \A k \in Priorities : ~InList(rq[c].list[k], old)
        BY <3>1 DEF Lists
      <3>6. \A k \in Priorities : ~InList(picked.list[k], old)
        BY <1>8, <3>1, <3>5
      <3>7. \A k \in Priorities :
              /\ Distinct(q.list[k])
              /\ \A u \in SchedThreads : InList(q.list[k], u) <=> InList(picked.list[k], u) /\ u # old
        BY <1>8, <3>1, <3>4, <3>6, DetachedLists
      <3>8. \A k \in Priorities :
              \A u \in SchedThreads : InList(q.list[k], u) <=> InList(rq[c].list[k], u) /\ u # next
        BY <1>8, <3>5, <3>7
      <3>9. Counts'
        <4>1. /\ q.count = [rq[c].count EXCEPT ![Priority[old]] = @ - 1]
              /\ q.task_count =
                   [rq[c].task_count EXCEPT ![S!MAJOR_PRIORITY(Priority[old])] = @ - 1]
          BY <1>8, <3>4 DEF p
        <4>2. rq' = [rq EXCEPT ![c] = q]
          BY <1>1
        <4>3. QED
          BY <3>1, <3>2, <3>4, <4>1, <4>2, CountsDrop
      <3>10. QED
        BY <3>4, <3>7, <3>8, <3>9
    <2>3. QED
      BY <2>1, <2>2
  <1> HIDE DEF q
  <1>10. rq'[c] = q /\ \A k \in Harts \ {c} : rq'[k] = rq[k]
    BY <1>1 DEF SchedTypeOK
  <1>11. /\ doing'[c] = "switch" /\ current'[c] = next /\ prev'[c] = old /\ rq_lock'[c] = c
         /\ \A k \in Harts \ {c} : /\ doing'[k] = doing[k] /\ current'[k] = current[k]
                                   /\ prev'[k] = prev[k] /\ rq_lock'[k] = rq_lock[k]
    BY <1>1 DEF SchedTypeOK
  <1>12. SchedTypeOK'
    <2>1. state' \in [SchedThreads -> S!States] /\ on_cpu' \in [SchedThreads -> BOOLEAN]
      BY <1>1, <1>3 DEF SchedTypeOK, S!States
    <2>2. cpu_id' \in [SchedThreads -> HartOrNone] /\ se_rq' \in [SchedThreads -> HartOrNone]
      BY <1>1, <1>6 DEF SchedTypeOK, HartOrNone
    <2>3. rq' \in [Harts -> RqType]
      BY <1>1, <1>9 DEF SchedTypeOK
    <2>4. /\ current' \in [Harts -> SchedThreads \cup {Idle}]
          /\ prev' \in [Harts -> SchedThreads \cup {Idle}]
      BY <1>1, <1>4 DEF SchedTypeOK
    <2>5. doing' \in [Harts -> S!PCs] /\ rq_lock' \in [Harts -> HartOrNone]
      BY <1>1 DEF SchedTypeOK, S!PCs, HartOrNone
    <2>6. pi_lock' = pi_lock /\ wake' = wake
      BY <1>1
    <2>7. QED
      BY <2>1, <2>2, <2>3, <2>4, <2>5, <2>6 DEF SchedTypeOK
  <1>13. LocksHeld'
    <2>1. ASSUME NEW k \in Harts
          PROVE  /\ doing'[k] \in {"wpi", "wsel", "wtry", "wset"} => wake[k].p \in SchedThreads
                 /\ doing'[k] \in {"wsel", "wtry", "wset"} => pi_lock[wake[k].p] = k
                 /\ doing'[k] \in {"wtry", "wset"} => wake[k].origin \in Harts /\ wake[k].target \in Harts
                 /\ doing'[k] = "wset" => rq_lock'[wake[k].origin] = k /\ rq_lock'[wake[k].target] = k
                 /\ doing'[k] = "switch" => rq_lock'[k] = k
      <3>1. CASE k = c
        BY <1>11, <3>1
      <3>2. CASE k # c
        <4>1. doing'[k] = doing[k] /\ rq_lock'[k] = rq_lock[k]
          BY <1>11, <3>2
        <4>2. ASSUME doing[k] = "wset"
              PROVE  rq_lock'[wake[k].origin] = k /\ rq_lock'[wake[k].target] = k
          <5>1. /\ rq_lock[wake[k].origin] = k /\ rq_lock[wake[k].target] = k
                /\ wake[k].origin \in Harts /\ wake[k].target \in Harts
            BY <4>2 DEF LocksHeld
          <5>2. wake[k].origin # c /\ wake[k].target # c
            BY <1>1, <5>1, SchedAssumption
          <5>3. QED
            BY <1>11, <5>1, <5>2
        <4>3. QED
          BY <4>1, <4>2 DEF LocksHeld
      <3>3. QED
        BY <3>1, <3>2
    <2>2. QED
      BY <1>1, <2>1 DEF LocksHeld
  <1>14. CpuIdIsCurrent'
    <2>1. ASSUME NEW k \in Harts, doing'[k] \in {"wtry", "wset"}
          PROVE  doing[k] \in {"wtry", "wset"}
      <3>1. k # c
        BY <1>11, <2>1
      <3>2. QED
        BY <1>11, <2>1, <3>1
    <2>2. QED
      BY <1>1, <1>6, <2>1 DEF CpuIdIsCurrent
  <1>15. \A k \in Harts, u \in SchedThreads :
           SwitchesFrom(k, u)' <=> SwitchesFrom(k, u) \/ (k = c /\ u = old)
    <2>1. ASSUME NEW k \in Harts, NEW u \in SchedThreads
          PROVE  SwitchesFrom(k, u)' <=> SwitchesFrom(k, u) \/ (k = c /\ u = old)
      <3>1. CASE k = c
        BY <1>1, <1>11, <3>1 DEF SwitchesFrom
      <3>2. CASE k # c
        BY <1>11, <3>2 DEF SwitchesFrom
      <3>3. QED
        BY <3>1, <3>2
    <2>2. QED
      BY <2>1
  <1>16. \A k \in Harts, u \in SchedThreads :
           current[k] = u \/ SwitchesFrom(k, u) => u # next
    BY <1>3, SchedAssumption DEF OnCpu
  <1>17. /\ \A k \in Harts : old # Idle => ~SwitchesFrom(k, old)
         /\ \A k \in Harts \ {c} : old # Idle => current[k] # old
    BY <1>5, OneCpu DEF old
  <1>18. OnCpu'
    <2>1. ASSUME NEW t \in SchedThreads, NEW k \in Harts, current'[k] = t
          PROVE  on_cpu'[t] /\ cpu_id'[t] = k /\ se_rq'[t] = k /\ state'[t] # "WAKENING"
      <3>1. CASE k = c
        <4>1. t = next /\ t # old /\ next # Idle
          BY <1>1, <1>11, <2>1, <3>1, SchedAssumption
        <4>2. QED
          BY <1>3, <1>6, <1>7, <3>1, <4>1
      <3>2. CASE k # c
        <4>1. current[k] = t
          BY <1>11, <2>1, <3>2
        <4>2. t # next /\ t # old
          BY <1>16, <1>17, <3>2, <4>1, SchedAssumption
        <4>3. on_cpu[t] /\ cpu_id[t] = k /\ se_rq[t] = k /\ state[t] # "WAKENING"
          BY <4>1 DEF OnCpu
        <4>4. QED
          BY <1>6, <1>7, <4>2, <4>3
      <3>3. QED
        BY <3>1, <3>2
    <2>2. ASSUME NEW t \in SchedThreads, NEW k \in Harts, SwitchesFrom(k, t)'
          PROVE  /\ on_cpu'[t] /\ cpu_id'[t] = k /\ current'[k] # t /\ state'[t] # "WAKENING"
                 /\ se_rq'[t] = IF state'[t] = "ZOMBIE" THEN NoThread ELSE k
      <3>1. CASE k = c /\ t = old
        <4>1. t # next /\ old # Idle
          BY <1>1, <3>1, SchedAssumption
        <4>2. QED
          BY <1>5, <1>6, <1>7, <1>11, <3>1, <4>1
      <3>2. CASE SwitchesFrom(k, t)
        <4>1. t # next /\ k # c /\ t # old
          BY <1>1, <1>16, <1>17, <3>2, SchedAssumption DEF SwitchesFrom
        <4>2. current'[k] = current[k]
          BY <1>11, <4>1
        <4>3. /\ on_cpu[t] /\ cpu_id[t] = k /\ current[k] # t /\ state[t] # "WAKENING"
              /\ se_rq[t] = IF state[t] = "ZOMBIE" THEN NoThread ELSE k
          BY <3>2 DEF OnCpu
        <4>4. on_cpu'[t] = on_cpu[t] /\ state'[t] = state[t] /\ se_rq'[t] = se_rq[t]
          BY <1>7, <4>1
        <4>5. QED
          BY <1>6, <4>2, <4>3, <4>4
      <3>3. QED
        BY <1>15, <2>2, <3>1, <3>2
    <2>3. ASSUME NEW t \in SchedThreads, on_cpu'[t]
          PROVE  \E k \in Harts : current'[k] = t \/ SwitchesFrom(k, t)'
      <3>1. CASE t = next
        BY <1>11, <3>1
      <3>2. CASE t # next
        <4>1. PICK k \in Harts : current[k] = t \/ SwitchesFrom(k, t)
          BY <1>7, <2>3, <3>2 DEF OnCpu
        <4>2. CASE SwitchesFrom(k, t)
          BY <1>15, <4>2
        <4>3. CASE current[k] = t /\ k # c
          BY <1>11, <4>3
        <4>4. CASE current[k] = t /\ k = c
          BY <1>15, <4>4 DEF old
        <4>5. QED
          BY <4>1, <4>2, <4>3, <4>4
      <3>3. QED
        BY <3>1, <3>2
    <2>4. QED
      BY <2>1, <2>2, <2>3 DEF OnCpu
  <1>19. OnRq'
    <2>1. ASSUME NEW u \in SchedThreads
          PROVE  /\ se_rq'[u] # NoThread => cpu_id'[u] = se_rq'[u]
                 /\ se_rq'[u] # NoThread /\ ~on_cpu'[u] =>
                      InList(rq'[se_rq'[u]].list[Priority[u]], u)
                 /\ se_rq'[u] = NoThread /\ ~on_cpu'[u] =>
                      state'[u] \in {"SLEEPING", "STOPPED", "ZOMBIE"}
      <3>1. se_rq'[u] # NoThread => se_rq'[u] = se_rq[u]
        BY <1>7
      <3>2. ~on_cpu'[u] => /\ u # next /\ ~on_cpu[u] /\ u # old
                           /\ se_rq'[u] = se_rq[u] /\ state'[u] = state[u]
        BY <1>5, <1>7, SchedAssumption
      <3>3. ASSUME se_rq'[u] # NoThread, ~on_cpu'[u]
            PROVE  InList(rq'[se_rq'[u]].list[Priority[u]], u)
        <4>1. /\ InList(rq[se_rq[u]].list[Priority[u]], u) /\ u # next
              /\ se_rq[u] \in Harts /\ se_rq'[u] = se_rq[u] /\ Priority[u] \in Priorities
          BY <3>1, <3>2, <3>3, SchedAssumption DEF OnRq, SchedTypeOK, HartOrNone
        <4>2. CASE se_rq[u] = c
          BY <1>9, <1>10, <4>1, <4>2
        <4>3. CASE se_rq[u] # c
          BY <1>10, <4>1, <4>3
        <4>4. QED
          BY <4>2, <4>3
      <3>4. QED
        BY <1>6, <3>1, <3>2, <3>3 DEF OnRq
    <2>2. QED
      BY <2>1 DEF OnRq
  <1>20. Lists'
    <2>1. ASSUME NEW k \in Harts, NEW p \in Priorities
          PROVE  /\ Distinct(rq'[k].list[p])
                 /\ \A u \in SchedThreads : InList(rq'[k].list[p], u) =>
                      InList(rq[k].list[p], u) /\ u # next
      <3>1. CASE k = c
        BY <1>9, <1>10, <3>1
      <3>2. CASE k # c
        <4>1. rq'[k] = rq[k]
          BY <1>10, <3>2
        <4>2. \A u \in SchedThreads : InList(rq[k].list[p], u) => u # next
          BY <1>3, <3>2, SchedAssumption DEF Lists
        <4>3. QED
          BY <4>1, <4>2 DEF Lists
      <3>3. QED
        BY <3>1, <3>2
    <2>2. ASSUME NEW k \in Harts, NEW p \in Priorities, NEW u \in SchedThreads,
                 InList(rq'[k].list[p], u)
          PROVE  /\ se_rq'[u] = k /\ Priority[u] = p /\ ~on_cpu'[u]
                 /\ state'[u] \in {"RUNNING", "WAKENING"}
      <3>1. InList(rq[k].list[p], u) /\ u # next
        BY <2>1, <2>2
      <3>2. /\ se_rq[u] = k /\ Priority[u] = p /\ ~on_cpu[u]
            /\ state[u] \in {"RUNNING", "WAKENING"}
        BY <3>1 DEF Lists
      <3>3. u # old
        BY <1>5, <3>2, SchedAssumption
      <3>4. QED
        BY <1>7, <3>1, <3>2, <3>3
    <2>3. QED
      BY <2>1, <2>2 DEF Lists
  <1>21. Masks'
    BY <1>9, <1>10 DEF Masks
  <1>22. QED
    BY <1>9, <1>12, <1>13, <1>14, <1>18, <1>19, <1>20, <1>21

\* context_switch_finish: what becomes of the thread that yielded.
LEMMA YieldFinishInv ==
  ASSUME SchedInv, NEW c \in Harts, S!YieldFinish(c)
  PROVE  SchedInv'
  <1> USE DEF SchedInv
  <1> DEFINE old == prev[c]
             q == S!FinishRq(c, old)
  <1>1. /\ doing[c] = "switch" /\ doing' = [doing EXCEPT ![c] = doing'[c]]
        /\ doing'[c] \in {"run", "panic"}
        /\ prev' = [prev EXCEPT ![c] = Idle]
        /\ rq_lock' = [rq_lock EXCEPT ![c] = NoThread]
        /\ UNCHANGED <<state, cpu_id, pi_lock, current, wake>>
    BY DEF S!YieldFinish, SchedTypeOK
  <1>2. \/ old = Idle /\ UNCHANGED <<rq, se_rq, on_cpu>>
        \/ /\ old # Idle /\ rq' = [rq EXCEPT ![c] = q]
           /\ se_rq' = IF state[old] \in {"SLEEPING", "STOPPED"}
                       THEN [se_rq EXCEPT ![old] = NoThread] ELSE se_rq
           /\ on_cpu' = [on_cpu EXCEPT ![old] = FALSE]
    BY DEF S!YieldFinish
  <1>3. old \in SchedThreads \cup {Idle} /\ rq[c] \in RqType /\ rq_lock[c] = c
    BY <1>1 DEF SchedTypeOK, LocksHeld
  <1>4. old # Idle => /\ SwitchesFrom(c, old)
                      /\ old \in SchedThreads /\ on_cpu[old] /\ cpu_id[old] = c
                      /\ current[c] # old /\ state[old] # "WAKENING"
                      /\ se_rq[old] = IF state[old] = "ZOMBIE" THEN NoThread ELSE c
    <2>1. old # Idle => old \in SchedThreads /\ SwitchesFrom(c, old)
      BY <1>1, <1>3 DEF SwitchesFrom
    <2>2. QED
      BY <2>1 DEF OnCpu
  <1>5. \A k \in Harts \ {c} : /\ doing'[k] = doing[k] /\ prev'[k] = prev[k]
                               /\ rq_lock'[k] = rq_lock[k]
    BY <1>1 DEF SchedTypeOK
  <1>6. LocksHeld' /\ CpuIdIsCurrent'
    <2>1. ASSUME NEW k \in Harts, k # c
          PROVE  doing'[k] = doing[k] /\ rq_lock'[k] = rq_lock[k]
      BY <1>5, <2>1
    <2>2. ASSUME NEW k \in Harts, doing'[k] = "wset"
          PROVE  rq_lock'[wake[k].origin] = k /\ rq_lock'[wake[k].target] = k
      <3>1. k # c
        BY <1>1, <2>2
      <3>2. /\ rq_lock[wake[k].origin] = k /\ rq_lock[wake[k].target] = k
            /\ wake[k].origin \in Harts /\ wake[k].target \in Harts
        BY <2>1, <2>2, <3>1 DEF LocksHeld
      <3>3. wake[k].origin # c /\ wake[k].target # c
        BY <1>3, <3>1, <3>2
      <3>4. QED
        BY <1>5, <3>2, <3>3
    <2>3. \A k \in Harts : doing'[k] \notin {"run", "panic"} => k # c /\ doing'[k] = doing[k]
      BY <1>1, <2>1
    <2>4. LocksHeld'
      <3>1. ASSUME NEW k \in Harts
            PROVE  /\ doing'[k] \in {"wpi", "wsel", "wtry", "wset"} => wake[k].p \in SchedThreads
                   /\ doing'[k] \in {"wsel", "wtry", "wset"} => pi_lock[wake[k].p] = k
                   /\ doing'[k] \in {"wtry", "wset"} =>
                        wake[k].origin \in Harts /\ wake[k].target \in Harts
                   /\ doing'[k] = "switch" => rq_lock'[k] = k
        BY <2>1, <2>3 DEF LocksHeld
      <3>2. QED
        BY <1>1, <2>2, <3>1 DEF LocksHeld
    <2>5. CpuIdIsCurrent'
      BY <1>1, <2>3 DEF CpuIdIsCurrent
    <2>6. QED
      BY <2>4, <2>5
  <1>7. \A k \in Harts, u \in SchedThreads :
          SwitchesFrom(k, u)' <=> SwitchesFrom(k, u) /\ k # c
    <2>1. ASSUME NEW k \in Harts, NEW u \in SchedThreads
          PROVE  SwitchesFrom(k, u)' <=> SwitchesFrom(k, u) /\ k # c
      <3>1. CASE k = c
        BY <1>1, <3>1 DEF SwitchesFrom
      <3>2. CASE k # c
        BY <1>5, <3>2 DEF SwitchesFrom
      <3>3. QED
        BY <3>1, <3>2
    <2>2. QED
      BY <2>1
  <1>8. /\ doing' \in [Harts -> S!PCs] /\ rq_lock' \in [Harts -> HartOrNone]
        /\ prev' \in [Harts -> SchedThreads \cup {Idle}]
    BY <1>1 DEF SchedTypeOK, S!PCs, HartOrNone
  <1>9. CASE old = Idle /\ UNCHANGED <<rq, se_rq, on_cpu>>
    <2>1. SchedTypeOK'
      BY <1>1, <1>8, <1>9 DEF SchedTypeOK
    <2>2. \A k \in Harts, u \in SchedThreads : SwitchesFrom(k, u)' <=> SwitchesFrom(k, u)
      BY <1>7, <1>9, SchedAssumption DEF SwitchesFrom
    <2>3. OnCpu'
      BY <1>1, <1>9, <2>2 DEF OnCpu
    <2>4. OnRq' /\ Lists'
      BY <1>1, <1>9 DEF OnRq, Lists
    <2>5. \A k, p : OfPriority(k, p)' = OfPriority(k, p) /\ OfClass(k, p)' = OfClass(k, p)
      BY <1>9 DEF OfPriority, OfClass
    <2>6. Masks' /\ Counts'
      BY <1>9, <2>5 DEF Masks, Counts
    <2>7. QED
      BY <1>6, <2>1, <2>3, <2>4, <2>6
  <1>10. CASE old # Idle
    <2> DEFINE p == Priority[old]
               cls == S!MAJOR_PRIORITY(p)
               back == state[old] = "RUNNING"
               gone == state[old] \in {"SLEEPING", "STOPPED"}
    <2>1. /\ rq' = [rq EXCEPT ![c] = q]
          /\ se_rq' = IF gone THEN [se_rq EXCEPT ![old] = NoThread] ELSE se_rq
          /\ on_cpu' = [on_cpu EXCEPT ![old] = FALSE]
          /\ old \in SchedThreads /\ p \in Priorities
      BY <1>2, <1>4, <1>10, SchedAssumption
    <2>2. \A k \in Priorities : Distinct(rq[c].list[k]) /\ ~InList(rq[c].list[k], old)
      BY <1>4, <1>10 DEF Lists
    <2>3. MasksLead(rq[c])
      BY DEF Masks
    <2>4. /\ q \in RqType /\ MasksLead(q) /\ Counts'
          /\ \A k \in Priorities :
               /\ Distinct(q.list[k])
               /\ \A u \in SchedThreads :
                    InList(q.list[k], u) <=> InList(rq[c].list[k], u) \/ (back /\ k = p /\ u = old)
      <3>1. CASE back
        <4>1. q = S!PutPrevTask(rq[c], old, p) /\ se_rq' = se_rq
          BY <2>1, <3>1 DEF S!FinishRq
        <4> HIDE DEF q, p
        <4>2. /\ q \in RqType /\ q.list = [rq[c].list EXCEPT ![p] = Append(@, old)]
              /\ q.count = rq[c].count /\ q.task_count = rq[c].task_count
              /\ MasksLead(q)
          BY <1>3, <2>1, <2>3, <4>1, PutPrev
        <4>3. \A k \in Priorities :
                /\ Distinct(q.list[k])
                /\ \A u \in SchedThreads :
                     InList(q.list[k], u) <=> InList(rq[c].list[k], u) \/ (k = p /\ u = old)
          BY <1>3, <2>1, <2>2, <4>2, PushedLists
        <4>4. Counts'
          BY <2>1, <4>1, <4>2, CountsStay
        <4>5. QED
          BY <3>1, <4>2, <4>3, <4>4
      <3>2. CASE gone
        <4>1. se_rq[old] = c /\ ~back /\ se_rq' = [se_rq EXCEPT ![old] = NoThread]
          BY <1>4, <1>10, <2>1, <3>2
        <4>2. q = S!DequeueTask(rq[c], old, p)
          BY <3>2, <4>1, SchedAssumption DEF S!FinishRq
        <4>3. /\ rq[c].count[p] = 1 => S!list_detach(rq[c].list[p], old) = <<>>
              /\ rq[c].task_count[cls] = 1 =>
                   \A k \in Priorities : S!MAJOR_PRIORITY(k) = cls =>
                     (IF k = p THEN S!list_detach(rq[c].list[p], old) ELSE rq[c].list[k]) = <<>>
          BY <1>3, <2>1, <2>2, <4>1, BitsMayGo
        <4> HIDE DEF q, p, old
        <4>4. /\ q \in RqType
              /\ q.list = [rq[c].list EXCEPT ![p] = S!list_detach(@, old)]
              /\ q.count = [rq[c].count EXCEPT ![p] = @ - 1]
              /\ q.task_count = [rq[c].task_count EXCEPT ![cls] = @ - 1]
              /\ MasksLead(q)
          <5>1. Distinct(rq[c].list[p]) /\ old \in SchedThreads /\ p \in Priorities
            BY <2>1, <2>2
          <5>2. PICK r \in RqType : r = rq[c]
            BY <1>3
          <5>3. PICK d : d = S!MAJOR_PRIORITY(p)
            OBVIOUS
          <5>4. /\ Distinct(r.list[p]) /\ MasksLead(r) /\ q = S!DequeueTask(r, old, p)
                /\ r.count[p] = 1 => S!list_detach(r.list[p], old) = <<>>
                /\ r.task_count[d] = 1 =>
                     \A k \in Priorities : S!MAJOR_PRIORITY(k) = d =>
                       (IF k = p THEN S!list_detach(r.list[p], old) ELSE r.list[k]) = <<>>
            BY <2>3, <4>2, <4>3, <5>1, <5>2, <5>3
          <5>5. /\ q \in RqType
                /\ q.list = [r.list EXCEPT ![p] = S!list_detach(@, old)]
                /\ q.count = [r.count EXCEPT ![p] = @ - 1]
                /\ q.task_count = [r.task_count EXCEPT ![d] = @ - 1]
                /\ MasksLead(q)
            BY <5>1, <5>3, <5>4, Dequeue
          <5>6. QED
            BY <5>2, <5>3, <5>5
        <4>5. \A k \in Priorities :
                /\ Distinct(q.list[k])
                /\ \A u \in SchedThreads :
                     InList(q.list[k], u) <=> InList(rq[c].list[k], u) /\ u # old
          BY <1>3, <2>1, <2>2, <4>4, DetachedLists
        <4>6. \A k \in Priorities : \A u \in SchedThreads :
                InList(q.list[k], u) <=> InList(rq[c].list[k], u) \/ (back /\ k = p /\ u = old)
          BY <2>2, <4>1, <4>5
        <4>7. Counts'
          <5>1. /\ q.count = [rq[c].count EXCEPT ![Priority[old]] = @ - 1]
                /\ q.task_count =
                     [rq[c].task_count EXCEPT ![S!MAJOR_PRIORITY(Priority[old])] = @ - 1]
            BY <4>4 DEF p
          <5>2. QED
            BY <2>1, <4>1, <4>4, <5>1, CountsDrop
        <4>8. QED
          BY <4>4, <4>5, <4>6, <4>7
      <3>3. CASE ~back /\ ~gone
        <4>1. q = rq[c] /\ se_rq' = se_rq
          BY <2>1, <3>3 DEF S!FinishRq
        <4> HIDE DEF q
        <4>2. Counts'
          BY <2>1, <4>1, CountsStay
        <4>3. QED
          BY <1>3, <2>2, <2>3, <3>3, <4>1, <4>2
      <3>4. QED
        BY <3>1, <3>2, <3>3
    <2> HIDE DEF q
    <2>5. rq'[c] = q /\ \A k \in Harts \ {c} : rq'[k] = rq[k]
      BY <2>1 DEF SchedTypeOK
    <2>6. \A u \in SchedThreads :
            /\ on_cpu'[u] = IF u = old THEN FALSE ELSE on_cpu[u]
            /\ se_rq'[u] = IF gone /\ u = old THEN NoThread ELSE se_rq[u]
      BY <2>1 DEF SchedTypeOK
    <2>7. /\ \A k \in Harts : current[k] # old
          /\ \A k \in Harts : SwitchesFrom(k, old) => k = c
          /\ \A u \in SchedThreads : SwitchesFrom(c, u) => u = old
      <3>1. \A k \in Harts : current[k] # old
        BY <1>4, <1>10 DEF OnCpu
      <3>2. \A k \in Harts : SwitchesFrom(k, old) => k = c
        BY <1>4, <1>10 DEF OnCpu
      <3>3. \A u \in SchedThreads : SwitchesFrom(c, u) => u = old
        BY DEF SwitchesFrom
      <3>4. QED
        BY <3>1, <3>2, <3>3
    <2>8. /\ back => se_rq[old] = c
          /\ ~back /\ ~gone => state[old] = "ZOMBIE" /\ se_rq[old] = NoThread
      <3>1. state[old] \in S!States
        BY <2>1 DEF SchedTypeOK
      <3>2. QED
        BY <1>4, <1>10, <3>1 DEF S!States
    <2>9. cpu_id[old] = c /\ state' = state /\ cpu_id' = cpu_id /\ current' = current
      BY <1>1, <1>4, <1>10
    <2>10. gone => state[old] \in {"SLEEPING", "STOPPED"}
      OBVIOUS
    <2>11. back => state[old] = "RUNNING" /\ ~gone
      OBVIOUS
    <2> HIDE DEF old, back, gone
    <2>12. SchedTypeOK'
      <3>1. se_rq' \in [SchedThreads -> HartOrNone] /\ on_cpu' \in [SchedThreads -> BOOLEAN]
        BY <2>1 DEF SchedTypeOK, HartOrNone
      <3>2. rq' \in [Harts -> RqType]
        BY <2>1, <2>4 DEF SchedTypeOK
      <3>3. QED
        BY <1>1, <1>8, <3>1, <3>2 DEF SchedTypeOK
    <2>13. OnCpu'
      <3>1. ASSUME NEW t \in SchedThreads, NEW k \in Harts, current'[k] = t
            PROVE  on_cpu'[t] /\ cpu_id'[t] = k /\ se_rq'[t] = k /\ state'[t] # "WAKENING"
        <4>1. current[k] = t /\ t # old
          BY <2>7, <2>9, <3>1
        <4>2. on_cpu[t] /\ cpu_id[t] = k /\ se_rq[t] = k /\ state[t] # "WAKENING"
          BY <4>1 DEF OnCpu
        <4>3. QED
          BY <2>6, <2>9, <4>1, <4>2
      <3>2. ASSUME NEW t \in SchedThreads, NEW k \in Harts, SwitchesFrom(k, t)'
            PROVE  /\ on_cpu'[t] /\ cpu_id'[t] = k /\ current'[k] # t /\ state'[t] # "WAKENING"
                   /\ se_rq'[t] = IF state'[t] = "ZOMBIE" THEN NoThread ELSE k
        <4>1. SwitchesFrom(k, t) /\ t # old
          BY <1>7, <2>7, <3>2
        <4>2. /\ on_cpu[t] /\ cpu_id[t] = k /\ current[k] # t /\ state[t] # "WAKENING"
              /\ se_rq[t] = IF state[t] = "ZOMBIE" THEN NoThread ELSE k
          BY <4>1 DEF OnCpu
        <4>3. on_cpu'[t] = on_cpu[t] /\ se_rq'[t] = se_rq[t]
          BY <2>6, <4>1
        <4>4. QED
          BY <2>9, <4>2, <4>3
      <3>3. ASSUME NEW t \in SchedThreads, on_cpu'[t]
            PROVE  \E k \in Harts : current'[k] = t \/ SwitchesFrom(k, t)'
        <4>1. t # old /\ on_cpu[t]
          BY <2>6, <3>3
        <4>2. PICK k \in Harts : current[k] = t \/ SwitchesFrom(k, t)
          BY <4>1 DEF OnCpu
        <4>3. QED
          BY <1>7, <2>7, <2>9, <4>1, <4>2
      <3>4. QED
        BY <3>1, <3>2, <3>3 DEF OnCpu
    <2>14. OnRq'
      <3>1. ASSUME NEW u \in SchedThreads
            PROVE  /\ se_rq'[u] # NoThread => cpu_id'[u] = se_rq'[u]
                   /\ se_rq'[u] # NoThread /\ ~on_cpu'[u] =>
                        InList(rq'[se_rq'[u]].list[Priority[u]], u)
                   /\ se_rq'[u] = NoThread /\ ~on_cpu'[u] =>
                        state'[u] \in {"SLEEPING", "STOPPED", "ZOMBIE"}
        <4>1. CASE u = old
          <5>1. CASE back
            <6>1. se_rq'[u] = c /\ c # NoThread
              BY <2>6, <2>8, <2>11, <4>1, <5>1, SchedAssumption
            <6>2. InList(q.list[p], old)
              BY <2>1, <2>4, <5>1
            <6>3. QED
              BY <2>5, <2>9, <4>1, <5>1, <6>1, <6>2
          <5>2. CASE gone
            BY <2>6, <2>9, <2>10, <4>1, <5>2
          <5>3. CASE ~back /\ ~gone
            BY <2>6, <2>8, <2>9, <4>1, <5>3
          <5>4. QED
            BY <5>1, <5>2, <5>3
        <4>2. CASE u # old
          <5>1. se_rq'[u] = se_rq[u] /\ on_cpu'[u] = on_cpu[u]
            BY <2>6, <4>2
          <5>2. ASSUME se_rq[u] # NoThread, ~on_cpu[u]
                PROVE  InList(rq'[se_rq[u]].list[Priority[u]], u)
            <6>1. /\ InList(rq[se_rq[u]].list[Priority[u]], u)
                  /\ se_rq[u] \in Harts /\ Priority[u] \in Priorities
              BY <5>2, SchedAssumption DEF OnRq, SchedTypeOK, HartOrNone
            <6>2. CASE se_rq[u] = c
              BY <2>4, <2>5, <6>1, <6>2
            <6>3. CASE se_rq[u] # c
              BY <2>5, <6>1, <6>3
            <6>4. QED
              BY <6>2, <6>3
          <5>3. QED
            BY <2>9, <5>1, <5>2 DEF OnRq
        <4>3. QED
          BY <4>1, <4>2
      <3>2. QED
        BY <3>1 DEF OnRq
    <2>15. Lists'
      <3>1. ASSUME NEW k \in Harts, NEW pr \in Priorities
            PROVE  Distinct(rq'[k].list[pr])
        <4>1. CASE k = c
          BY <2>4, <2>5, <4>1
        <4>2. CASE k # c
          BY <2>5, <4>2 DEF Lists
        <4>3. QED
          BY <4>1, <4>2
      <3>2. ASSUME NEW k \in Harts, NEW pr \in Priorities, NEW u \in SchedThreads,
                   InList(rq'[k].list[pr], u)
            PROVE  /\ se_rq'[u] = k /\ Priority[u] = pr /\ ~on_cpu'[u]
                   /\ state'[u] \in {"RUNNING", "WAKENING"}
        <4>1. CASE InList(rq[k].list[pr], u)
          <5>1. /\ se_rq[u] = k /\ Priority[u] = pr /\ ~on_cpu[u]
                /\ state[u] \in {"RUNNING", "WAKENING"}
            BY <4>1 DEF Lists
          <5>2. u # old
            BY <1>4, <1>10, <5>1 DEF old
          <5>3. QED
            BY <2>6, <2>9, <5>1, <5>2
        <4>2. CASE ~InList(rq[k].list[pr], u)
          <5>1. k = c
            BY <2>5, <3>2, <4>2
          <5>2. back /\ pr = p /\ u = old
            BY <2>4, <2>5, <3>2, <4>2, <5>1
          <5>3. QED
            BY <2>6, <2>8, <2>9, <2>11, <5>1, <5>2
        <4>3. QED
          BY <4>1, <4>2
      <3>3. QED
        BY <3>1, <3>2 DEF Lists
    <2>16. Masks'
      BY <2>4, <2>5 DEF Masks
    <2>17. QED
      BY <1>6, <2>4, <2>12, <2>13, <2>14, <2>15, <2>16
  <1>11. QED
    BY <1>2, <1>9, <1>10

-----------------------------------------------------------------------------
(* The scheduler *)

\* Every step of the scheduler keeps the invariant.
LEMMA SchedNextInv ==
  ASSUME SchedInv, S!Next
  PROVE  SchedInv'
  <1>1. PICK c \in Harts :
          \/ \E t \in SchedThreads : S!Own(c, t)
          \/ \E p \in SchedThreads, from \in {"SLEEPING", "STOPPED"} : S!WakeStart(c, p, from)
          \/ S!YieldStart(c)
          \/ S!Waking(c) \/ S!Yielding(c)
    BY DEF S!Next
  <1>2. CASE \E t \in SchedThreads : S!Own(c, t)
    BY <1>2, OwnInv
  <1>3. CASE \E p \in SchedThreads, from \in {"SLEEPING", "STOPPED"} : S!WakeStart(c, p, from)
    BY <1>3, StartInv
  <1>4. CASE S!YieldStart(c) \/ S!YieldStay(c)
    BY <1>4, StartInv
  <1>5. CASE S!Waking(c)
    BY <1>5, WakePiInv, WakeSelectInv, WakeTryLockInv, WakeSetInv DEF S!Waking
  <1>6. CASE S!YieldSwitch(c) \/ S!YieldFinish(c)
    BY <1>6, YieldSwitchInv, YieldFinishInv
  <1>7. QED
    BY <1>1, <1>2, <1>3, <1>4, <1>5, <1>6 DEF S!Yielding

\* A step of RCU, or none, is no step of the scheduler.
LEMMA SchedStutter ==
  ASSUME SchedInv, UNCHANGED schedVars
  PROVE  SchedInv'
  <1>1. UNCHANGED <<state, cpu_id, se_rq, on_cpu, pi_lock, rq, rq_lock,
                    current, prev, doing, wake>>
    BY DEF schedVars
  <1>2. SchedTypeOK' /\ LocksHeld' /\ CpuIdIsCurrent'
    BY <1>1 DEF SchedInv, SchedTypeOK, LocksHeld, CpuIdIsCurrent
  <1>3. \A t \in SchedThreads : state'[t] = state[t]
    BY <1>1
  <1>4. OnCpu' /\ OnRq' /\ Lists' /\ Masks' /\ Counts'
    BY <1>1, <1>3, NobodyMoves
  <1>5. QED
    BY <1>2, <1>4 DEF SchedInv

\* The invariant holds throughout every behaviour.
LEMMA SchedInvAlways == SchedSpec => []SchedInv
  <1>1. SchedInit => SchedInv
    BY SchedInitInv DEF SchedInit
  <1>2. SchedInv /\ [SchedNext]_all => SchedInv'
    <2> SUFFICES ASSUME SchedInv, [SchedNext]_all PROVE SchedInv'
      OBVIOUS
    <2>1. CASE UNCHANGED schedVars
      BY <2>1, SchedStutter
    <2>2. CASE S!Next
      BY <2>2, SchedNextInv
    <2>3. QED
      BY <2>1, <2>2 DEF SchedNext, all
  <1>3. QED
    BY <1>1, <1>2, PTL DEF SchedSpec

-----------------------------------------------------------------------------
(* What the invariant says to the rest of the kernel *)

\* A thread has at most one place: a CPU that runs it or is leaving it, or one
\* position of one list.
LEMMA OnePlace ==
  ASSUME SchedInv, NEW t \in SchedThreads
  PROVE  Cardinality(S!RunsOn(t)) + Cardinality(S!Listed(t)) <= 1
  <1> USE DEF SchedInv
  <1> DEFINE R == S!RunsOn(t)
             L == S!Listed(t)
  <1>1. ASSUME NEW c \in R
        PROVE  c \in Harts /\ on_cpu[t] /\ cpu_id[t] = c
    <2>1. c \in Harts /\ (current[c] = t \/ SwitchesFrom(c, t))
      BY DEF S!RunsOn, SwitchesFrom
    <2>2. QED
      BY <2>1 DEF OnCpu
  <1>2. ASSUME NEW x \in L
        PROVE  /\ x[1] \in Harts /\ x[2] \in Priorities /\ x[3] \in Nat /\ x = <<x[1], x[2], x[3]>>
               /\ x[3] \in 1..Len(rq[x[1]].list[x[2]]) /\ rq[x[1]].list[x[2]][x[3]] = t
               /\ ~on_cpu[t] /\ x[1] = se_rq[t] /\ x[2] = Priority[t]
    <2>1. /\ x \in Harts \X Priorities \X (1..S!Cardinality(SchedThreads))
          /\ x[3] <= Len(rq[x[1]].list[x[2]]) /\ rq[x[1]].list[x[2]][x[3]] = t
      BY DEF S!Listed
    <2>2. S!Cardinality(SchedThreads) \in Nat
      BY SchedAssumption, FS_CardinalityType DEF S!Cardinality, Cardinality
    <2>3. /\ x[1] \in Harts /\ x[2] \in Priorities /\ x[3] \in 1..S!Cardinality(SchedThreads)
          /\ x = <<x[1], x[2], x[3]>>
      BY <2>1
    <2>4. rq[x[1]].list[x[2]] \in Seq(SchedThreads)
      BY <2>3 DEF SchedTypeOK, RqType
    <2>5. x[3] \in 1..Len(rq[x[1]].list[x[2]]) /\ x[3] \in Nat
      BY <2>1, <2>2, <2>3, <2>4
    <2>6. InList(rq[x[1]].list[x[2]], t)
      BY <2>1, <2>5 DEF InList
    <2>7. QED
      BY <2>1, <2>3, <2>5, <2>6 DEF Lists
  <1>3. ASSUME NEW x \in L, NEW y \in L PROVE x = y
    <2>1. x[1] = y[1] /\ x[2] = y[2]
      BY <1>2
    <2>2. x[3] = y[3]
      BY <1>2, <2>1 DEF Lists, Distinct
    <2>3. QED
      BY <1>2, <2>1, <2>2
  <1>4. R = {} \/ L = {}
    BY <1>1, <1>2
  <1>5. R = {} \/ \E c : R = {c}
    BY <1>1
  <1>6. L = {} \/ \E x : L = {x}
    BY <1>3
  <1> HIDE DEF R, L
  <1>7. Cardinality({}) = 0 /\ \A x : Cardinality({x}) = 1
    BY FS_EmptySet, FS_Singleton
  <1>8. /\ Cardinality(R) \in {0, 1} /\ Cardinality(L) \in {0, 1}
        /\ Cardinality(R) = 0 \/ Cardinality(L) = 0
    BY <1>4, <1>5, <1>6, <1>7
  <1>9. Cardinality(R) + Cardinality(L) <= 1
    BY <1>8
  <1>10. QED
    BY <1>9 DEF R, L

\* The invariant says what the properties say.
LEMMA SchedInvMeans == SchedInv => RunsOnce /\ RunnableIsReachable
  <1> SUFFICES ASSUME SchedInv PROVE RunsOnce /\ RunnableIsReachable
    OBVIOUS
  <1> USE DEF SchedInv
  <1>1. S!RunsOnce
    BY OnePlace DEF S!RunsOnce, S!Cardinality, Cardinality
  <1>2. S!ListedIsRunnable
    <2>1. ASSUME NEW t \in SchedThreads, NEW x \in S!Listed(t)
          PROVE  state[t] \in {"RUNNING", "WAKENING"}
      <3>1. /\ x \in Harts \X Priorities \X (1..S!Cardinality(SchedThreads))
            /\ x[3] <= Len(rq[x[1]].list[x[2]]) /\ rq[x[1]].list[x[2]][x[3]] = t
        BY DEF S!Listed
      <3>2. S!Cardinality(SchedThreads) \in Nat
        BY SchedAssumption, FS_CardinalityType DEF S!Cardinality, Cardinality
      <3>3. x[1] \in Harts /\ x[2] \in Priorities /\ x[3] \in 1..S!Cardinality(SchedThreads)
        BY <3>1
      <3>4. rq[x[1]].list[x[2]] \in Seq(SchedThreads)
        BY <3>3 DEF SchedTypeOK, RqType
      <3>5. InList(rq[x[1]].list[x[2]], t)
        BY <3>1, <3>2, <3>3, <3>4 DEF InList
      <3>6. QED
        BY <3>3, <3>5 DEF Lists
    <2>2. QED
      BY <2>1 DEF S!ListedIsRunnable
  <1>3. S!WakeLocksSuffice
    BY LocksSuffice DEF S!WakeLocksSuffice
  <1>4. S!RunnableIsReachable
    <2>1. SUFFICES ASSUME NEW t \in SchedThreads, state[t] \in {"RUNNING", "WAKENING"},
                          S!RunsOn(t) = {}
                   PROVE  \E c \in Harts :
                            LET p == Priority[t] IN
                            /\ \E i \in 1..Len(rq[c].list[p]) : rq[c].list[p][i] = t
                            /\ p \in rq[c].ready
                            /\ S!MAJOR_PRIORITY(p) \in rq[c].secondary
                            /\ S!Group(S!MAJOR_PRIORITY(p)) \in rq[c].top
      BY DEF S!RunnableIsReachable
    <2> DEFINE c == se_rq[t]
               p == Priority[t]
    <2>2. ~on_cpu[t]
      BY <2>1 DEF OnCpu, SwitchesFrom, S!RunsOn
    <2>3. c # NoThread
      BY <2>1, <2>2 DEF OnRq
    <2>4. c \in Harts /\ p \in Priorities /\ InList(rq[c].list[p], t)
      BY <2>2, <2>3, SchedAssumption DEF OnRq, SchedTypeOK, HartOrNone
    <2>5. rq[c].list[p] # <<>>
      BY <2>4 DEF InList
    <2>6. /\ p \in rq[c].ready
          /\ S!MAJOR_PRIORITY(p) \in rq[c].secondary
          /\ S!Group(S!MAJOR_PRIORITY(p)) \in rq[c].top
      BY <2>4, <2>5 DEF Masks, MasksLead
    <2>7. QED
      BY <2>4, <2>6 DEF InList
  <1>5. S!CountsAreExact
    BY DEF Counts, OfPriority, S!CountsAreExact, S!Cardinality, Cardinality
  <1>6. QED
    BY <1>1, <1>2, <1>3, <1>4, <1>5 DEF RunsOnce, RunnableIsReachable

\* Whatever wake-ups race with switches, on any number of CPUs, and whatever the
\* priorities and affinities: no thread has two places, only threads to be run are
\* listed, and a waker's locks are those that guard the thread (proc/sched.c).
THEOREM ThreadRunsOnce == SchedSpec => []RunsOnce
  BY SchedInvAlways, SchedInvMeans, PTL

\* No wake-up is lost: a runnable thread that no CPU runs is on the list that the
\* ready masks lead to, and the counts that decide when a bit is cleared are exact
\* (proc/sched.c, proc/rq.c, proc/sched_fifo.c).
THEOREM RunnableThreadIsReachable == SchedSpec => []RunnableIsReachable
  BY SchedInvAlways, SchedInvMeans, PTL
=============================================================================
