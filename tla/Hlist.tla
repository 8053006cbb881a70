-------------------------------- MODULE Hlist --------------------------------
(***************************************************************************)
(* The hash list of kernel/hlist.c and kernel/inc/hlist.h on the circular  *)
(* lists of kernel/inc/list.h, as the process table uses it: writers take  *)
(* turns under a lock and change pointers one store at a time, RCU readers *)
(* follow them without a lock.  A pointer is the negative number of a      *)
(* bucket's head or the number of an entry; 0 is NULL.                     *)
(***************************************************************************)
EXTENDS Integers, Sequences, FiniteSets

CONSTANTS HlEntries,        \* how many entries exist
          BucketCnt,      \* bucket_cnt
          HashKeys,       \* the keys, positive numbers; the hash of a key is the key
          HlReaders       \* readers
ASSUME HlistShape == HlEntries \in Nat \ {0} /\ BucketCnt \in Nat \ {0} /\ HashKeys \subseteq Nat \ {0}

VARIABLES next, prev,     \* the two pointers of every head and entry
          bucket,         \* entry->bucket
          keyOf,          \* the key of an entry
          elemCnt,        \* hlist->elem_cnt
          stores,         \* the stores the writer has still to make
          graceHeld,           \* the entries a grace period still protects
          look,           \* what each reader is doing; due: the keys it must still meet
          present,        \* history: the keys in the table
          rcuMode         \* readers use RCU, or the lock of the writers
hlVars == <<next, prev, bucket, keyOf, elemCnt, stores, graceHeld, look, present, rcuMode>>

HlNodes == 1..HlEntries
Heads == {-b : b \in 1..BucketCnt}
CalcBucket(k) == -((k % BucketCnt) + 1)
NextBucket(b) == IF b = -BucketCnt THEN 0 ELSE b - 1
PrevBucket(b) == IF b = -1 THEN 0 ELSE b + 1

(* Reading -------------------------------------------------------------- *)

\* The entry after pointer p in bucket b, 0 at the end.
NextNode(b, p) == IF next[p] = b THEN 0 ELSE next[p]
PrevNode(b, p) == IF prev[p] = b THEN 0 ELSE prev[p]

FindEntryInBucket(b, k) ==
    LET go[p \in HlNodes \cup {0}] ==
          IF p = 0 \/ keyOf[p] = k THEN p ELSE go[NextNode(b, p)]
    IN go[NextNode(b, b)]
HlistGet(k) == FindEntryInBucket(CalcBucket(k), k)

\* The first entry of bucket b or of the first non-empty bucket after it.
FirstFrom(b) ==
    LET go[c \in Heads \cup {0}] ==
          IF c = 0 THEN 0 ELSE IF NextNode(c, c) # 0 THEN NextNode(c, c) ELSE go[NextBucket(c)]
    IN go[b]
LastFrom(b) ==
    LET go[c \in Heads \cup {0}] ==
          IF c = 0 THEN 0 ELSE IF PrevNode(c, c) # 0 THEN PrevNode(c, c) ELSE go[PrevBucket(c)]
    IN go[b]
FirstEntry == FirstFrom(-1)
LastEntry == LastFrom(-BucketCnt)
NextEntry(e) ==
    IF bucket[e] = 0 THEN 0
    ELSE IF NextNode(bucket[e], e) # 0 THEN NextNode(bucket[e], e)
    ELSE FirstFrom(NextBucket(bucket[e]))
PrevEntry(e) ==
    IF bucket[e] = 0 THEN 0
    ELSE IF PrevNode(bucket[e], e) # 0 THEN PrevNode(bucket[e], e)
    ELSE LastFrom(PrevBucket(bucket[e]))
Attached(e) == bucket[e] # 0

(* Writing: the stores of each operation, in program order ------------------- *)

SetNext(p, q) == [f |-> "next", p |-> p, q |-> q]
SetPrev(p, q) == [f |-> "prev", p |-> p, q |-> q]
SetBucket(e, b) == [f |-> "bucket", p |-> e, q |-> b]
AddCount(d) == [f |-> "count", p |-> 0, q |-> d]

\* Under a lock that keeps readers out.
ListEntryInit(e) == <<SetNext(e, e), SetPrev(e, e)>>
ListEntryInsert(p, e) ==
    <<SetPrev(e, p), SetNext(e, next[p]), SetNext(p, e), SetPrev(next[p], e)>>
ListEntryDetach(e) ==
    <<SetNext(prev[e], next[e]), SetPrev(next[e], prev[e])>> \o ListEntryInit(e)
ListEntryReplace(old, new) ==
    ListEntryDetach(old) \o
    <<SetPrev(new, prev[old]), SetNext(new, next[old]),
      SetNext(prev[old], new), SetPrev(next[old], new)>>
InsertNodeEntry(b, e) == ListEntryInsert(b, e) \o <<SetBucket(e, b), AddCount(1)>>
RemoveNodeEntry(e) == ListEntryDetach(e) \o <<SetBucket(e, 0), AddCount(-1)>>
ReplaceNodeEntry(old, new) ==
    ListEntryReplace(old, new) \o <<SetBucket(new, bucket[old]), SetBucket(old, 0)>>

\* Beside RCU readers.
ListEntryAddRcu(e, p) ==
    <<SetNext(e, next[p]), SetPrev(e, p), SetNext(p, e), SetPrev(next[p], e)>>

ListEntryDelRcu(e) == <<SetNext(prev[e], next[e]), SetPrev(next[e], prev[e])>>

ListEntryReplaceRcu(old, new) ==
    <<SetNext(new, next[old]), SetPrev(new, prev[old]),
      SetNext(prev[old], new), SetPrev(next[old], new)>>
EntryAddRcu(b, e) == ListEntryAddRcu(e, b) \o <<SetBucket(e, b), AddCount(1)>>
EntryDelRcu(e) == ListEntryDelRcu(e) \o <<AddCount(-1)>>
EntryReplaceRcu(old, new) == ListEntryReplaceRcu(old, new) \o <<SetBucket(new, bucket[old])>>

Applied(fn, f, s) == IF s.f = f THEN [fn EXCEPT ![s.p] = s.q] ELSE fn
Linked(nx) ==
    LET go[p \in Heads \cup HlNodes, n \in 0..HlEntries] ==
          IF n = 0 \/ nx[p] \in Heads THEN {} ELSE {nx[p]} \cup go[nx[p], n - 1]
    IN UNION {go[b, HlEntries] : b \in Heads}
KeysIn(nx) == {keyOf[e] : e \in Linked(nx)}

ReadingNow == {r \in HlReaders : look[r].op # "idle"}

\* The writer's next store reaches memory.
WriterStores ==
    /\ stores # <<>>
    /\ LET s == Head(stores)
       IN /\ next' = Applied(next, "next", s)
          /\ prev' = Applied(prev, "prev", s)
          /\ bucket' = Applied(bucket, "bucket", s)
          /\ elemCnt' = IF s.f = "count" THEN elemCnt + s.q ELSE elemCnt
    /\ stores' = Tail(stores)
    /\ present' = IF stores' = <<>> THEN KeysIn(next') ELSE present
    /\ graceHeld' = IF Head(stores).f = "retire" THEN [graceHeld EXCEPT ![Head(stores).p] = ReadingNow] ELSE graceHeld
    /\ UNCHANGED <<keyOf, look, rcuMode>>

(* Operations ---------------------------------------------------------------- *)

\* Writers exclude each other, and without RCU they exclude the readers too.
MayWrite == stores = <<>> /\ (rcuMode \/ ReadingNow = {})
MayRead(r) == look[r].op = "idle" /\ (rcuMode \/ stores = <<>>)

\* call_rcu: an entry that left the table is freed after the readers of that time.
Retire(e) == <<[f |-> "retire", p |-> e, q |-> 0]>>

\* hlist_put and hlist_put_rcu with a new entry: one with its key is kept or
\* replaced.
HashPut(e, k, replace) ==
    /\ MayWrite /\ ~Attached(e)
    /\ keyOf' = [keyOf EXCEPT ![e] = k]
    /\ LET old == HlistGet(k)
           b == CalcBucket(k)
       IN \/ /\ old = 0 /\ ~replace
             /\ stores' = IF rcuMode THEN EntryAddRcu(b, e) ELSE InsertNodeEntry(b, e)
          \/ /\ old # 0 /\ replace
             /\ stores' = IF rcuMode THEN EntryReplaceRcu(old, e) \o Retire(old)
                                    ELSE ReplaceNodeEntry(old, e)
    /\ UNCHANGED <<next, prev, bucket, elemCnt, graceHeld, look, present, rcuMode>>

\* hlist_pop and hlist_pop_rcu of a key, or (k = 0) of the first entry.
Pop(k) ==
    /\ MayWrite /\ elemCnt # 0
    /\ LET e == IF k = 0 THEN FirstEntry ELSE HlistGet(k)
       IN /\ e # 0
          /\ stores' = IF rcuMode THEN EntryDelRcu(e) \o Retire(e) ELSE RemoveNodeEntry(e)
          /\ present' = present \ {keyOf[e]}
          /\ look' = [r \in HlReaders |-> [look[r] EXCEPT !.due = @ \ {keyOf[e]}]]
    /\ UNCHANGED <<next, prev, bucket, keyOf, elemCnt, graceHeld, rcuMode>>

\* The grace period is over: the entry is freed, and initialised for its next use.
Reclaim(e) ==
    /\ stores = <<>> /\ Attached(e) /\ e \notin Linked(next) /\ graceHeld[e] = {}
    /\ next' = [next EXCEPT ![e] = e]
    /\ prev' = [prev EXCEPT ![e] = e]
    /\ bucket' = [bucket EXCEPT ![e] = 0]
    /\ keyOf' = [keyOf EXCEPT ![e] = 0]
    /\ UNCHANGED <<elemCnt, stores, graceHeld, look, present, rcuMode>>

Idle == [op |-> "idle", at |-> 0, key |-> 0, due |-> {}]
DueAfter(due, e) == IF e = 0 THEN due ELSE due \ {keyOf[e]}

\* rcu_read_lock and the first load of hlist_get_rcu(k).
GetStart(r, k) ==
    /\ MayRead(r)
    /\ LET e == NextNode(CalcBucket(k), CalcBucket(k))
       IN look' = [look EXCEPT ![r] = [op |-> "get", at |-> e, key |-> k,
                                       due |-> DueAfter({k} \cap present, e)]]
    /\ UNCHANGED <<next, prev, bucket, keyOf, elemCnt, stores, graceHeld, present, rcuMode>>

\* The key differs: on along the bucket's list.
GetStep(r) ==
    /\ look[r].op = "get" /\ look[r].at # 0 /\ keyOf[look[r].at] # look[r].key
    /\ LET e == NextNode(CalcBucket(look[r].key), look[r].at)
       IN look' = [look EXCEPT ![r].at = e, ![r].due = DueAfter(@, e)]
    /\ UNCHANGED <<next, prev, bucket, keyOf, elemCnt, stores, graceHeld, present, rcuMode>>

\* hlist_foreach_node_rcu, as procdump walks the process table.
WalkStart(r) ==
    /\ MayRead(r)
    /\ look' = [look EXCEPT ![r] = [op |-> "walk", at |-> FirstEntry, key |-> 0,
                                    due |-> DueAfter(present, FirstEntry)]]
    /\ UNCHANGED <<next, prev, bucket, keyOf, elemCnt, stores, graceHeld, present, rcuMode>>
WalkStep(r) ==
    /\ look[r].op = "walk" /\ look[r].at # 0
    /\ LET e == NextEntry(look[r].at)
       IN look' = [look EXCEPT ![r].at = e, ![r].due = DueAfter(@, e)]
    /\ UNCHANGED <<next, prev, bucket, keyOf, elemCnt, stores, graceHeld, present, rcuMode>>

Ended(r) ==
    \/ look[r].op = "get" /\ look[r].at \in {0} \cup {e \in HlNodes : keyOf[e] = look[r].key}
    \/ look[r].op = "walk" /\ look[r].at = 0

\* rcu_read_unlock.
ReadEnd(r) ==
    /\ Ended(r)
    /\ look' = [look EXCEPT ![r] = Idle]
    /\ graceHeld' = [e \in HlNodes |-> graceHeld[e] \ {r}]
    /\ UNCHANGED <<next, prev, bucket, keyOf, elemCnt, stores, present, rcuMode>>

HlistInit ==
    /\ next = [p \in Heads \cup HlNodes |-> p]
    /\ prev = [p \in Heads \cup HlNodes |-> p]
    /\ bucket = [e \in HlNodes |-> 0]
    /\ keyOf = [e \in HlNodes |-> 0]
    /\ elemCnt = 0 /\ stores = <<>> /\ present = {}
    /\ graceHeld = [e \in HlNodes |-> {}]
    /\ look = [r \in HlReaders |-> Idle]
    /\ rcuMode \in BOOLEAN

HlistNext ==
    \/ WriterStores
    \/ \E e \in HlNodes : Reclaim(e) \/ \E k \in HashKeys, b \in BOOLEAN : HashPut(e, k, b)
    \/ \E k \in HashKeys \cup {0} : Pop(k)
    \/ \E r \in HlReaders : \/ GetStep(r) \/ ReadEnd(r)
                            \/ WalkStart(r) \/ WalkStep(r)
                            \/ \E k \in HashKeys : GetStart(r, k)

(* Properties ----------------------------------------------------------------- *)

\* A lookup that has ended found its key if the key was in the table all the
\* time, whatever the writer stored meanwhile, and no reader stands on an
\* entry that was reclaimed: what get_pid_thread relies on without a lock.
LookupFinds ==
    \A r \in ReadingNow :
        /\ look[r].op = "get" /\ Ended(r) => look[r].due = {}
        /\ look[r].at # 0 => keyOf[look[r].at] # 0

\* Whenever no store is pending the table is sound: the lists can be walked
\* both ways, every entry hangs in the bucket of its key, a key is there once
\* and elem_cnt counts the entries.
TableIsExact ==
    LET In == Linked(next)
    IN stores = <<>> =>
         /\ \A p \in Heads \cup In : prev[next[p]] = p /\ next[prev[p]] = p
         /\ \A e \in In : bucket[e] = CalcBucket(keyOf[e]) /\ HlistGet(keyOf[e]) = e
         /\ elemCnt = Cardinality(In) /\ KeysIn(next) = present
         /\ \A e \in In : NextEntry(e) # 0 => PrevEntry(NextEntry(e)) = e
         /\ (In = {}) = (FirstEntry = 0) /\ (In = {}) = (LastEntry = 0)
=============================================================================
