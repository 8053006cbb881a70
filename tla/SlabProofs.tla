----------------------------- MODULE SlabProofs -----------------------------
(***************************************************************************)
(* Proofs about Slab: for every number of CPUs, slabs and objects per      *)
(* slab, what is handed out is backed by pages, handed out once, and the   *)
(* owner slab_free read without a lock is the owner under its lock.        *)
(*                                                                         *)
(* ObjectsHold is not inductive: it says nothing of the slabs that are on  *)
(* no list.  SInv adds them.  A slab between two lists (SlabsInHand) is    *)
(* empty, owned by no CPU and in one call's hands only; the slabs a shrink *)
(* put aside (SlabsPutAside) are detached, still have their pages and are  *)
(* put aside by one call only; an object on its way back (ObjectsOnTheWay) *)
(* is in one call's hands and keeps its slab with the CPU that call read;  *)
(* and a slab without an owner, or without a cache, is empty (Unowned).    *)
(***************************************************************************)
EXTENDS Slab, FiniteSetTheorems, TLAPS

\* The object is in a caller's hands or on its way back.
Live(s, i) ==
    \/ <<s, i>> \in objs
    \/ \E c \in Cores : scall[c].pc = "free" /\ scall[c].slab = s /\ scall[c].obj = i

\* ObjectsAreBacked, object by object.
Backed ==
    \A s \in Slabs :
        /\ \A i \in Empty : Live(s, i) <=> i \notin freeObjs[s]
        /\ freeObjs[s] # Empty => s \in attached

\* A slab with no owner, or not in the cache, has all its objects.
Unowned ==
    \A s \in Slabs :
        /\ owner[s] = NoCPU => freeObjs[s] = Empty
        /\ s \notin attached => owner[s] = NoCPU

InHand(c) == scall[c].pc \in {"own", "tofree"}

\* A slab that left a list and has not joined the next is in one call's hands.
SlabsInHand ==
    \A c \in Cores : InHand(c) =>
        /\ scall[c].slab \in Slabs /\ scall[c].slab \in attached
        /\ scall[c].slab \notin globalFree /\ owner[scall[c].slab] = NoCPU
        /\ \A d \in Cores \ {c} : InHand(d) => scall[d].slab # scall[c].slab

\* The slabs put aside are detached and still have their pages.
SlabsPutAside ==
    \A c \in Cores : scall[c].pc = "destroy" =>
        \A s \in scall[c].batch :
            /\ s \in made /\ s \notin attached
            /\ \A d \in Cores \ {c} : scall[d].pc = "destroy" => s \notin scall[d].batch

\* An object on its way back is in one call's hands, and the call knows the owner.
ObjectsOnTheWay ==
    \A c \in Cores : scall[c].pc = "free" =>
        /\ scall[c].slab \in Slabs /\ scall[c].obj \in Empty
        /\ scall[c].cpu \in Cores /\ owner[scall[c].slab] = scall[c].cpu
        /\ <<scall[c].slab, scall[c].obj>> \notin objs
        /\ \A d \in Cores \ {c} : scall[d].pc = "free" =>
              scall[d].slab # scall[c].slab \/ scall[d].obj # scall[c].obj

Lists == \A s \in Slabs, c \in Cores : OnOwnersList(s, c)

SInv ==
    /\ SlabTypeOK /\ Backed /\ Unowned /\ SlabsInHand /\ SlabsPutAside
    /\ ObjectsOnTheWay /\ Lists

-----------------------------------------------------------------------------
(* What the invariant says of the state                                     *)

LEMMA BackedIsBacked ==
    ASSUME SInv
    PROVE  ObjectsHold
<1>1. ASSUME NEW s \in Slabs
      PROVE  { i \in Empty : <<s, i>> \in objs \cup Returning } = Empty \ freeObjs[s]
    <2>1. ASSUME NEW i \in Empty
          PROVE  <<s, i>> \in objs \cup Returning <=> Live(s, i)
        BY DEF Live, Returning
    <2>2. QED BY <2>1, <1>1 DEF SInv, Backed
<1>2. ObjectsAreBacked BY <1>1 DEF SInv, Backed, ObjectsAreBacked, SlabTypeOK
<1>3. OwnerIsStable BY DEF SInv, Lists, OwnerIsStable, ObjectsOnTheWay
<1>4. QED BY <1>2, <1>3 DEF SInv, ObjectsHold

LEMMA EmptyIsNonempty == 1 \in Empty /\ Empty # {} /\ Empty \subseteq Nat
BY SlabSizes DEF Empty

LEMMA CountIsNat ==
    ASSUME SlabTypeOK
    PROVE  Cardinality(globalFree) \in Nat /\ Cardinality(Slabs) \in Nat
BY SlabSizes, FS_Subset, FS_CardinalityType DEF SlabTypeOK

LEMMA InitSInv == SlabInit => SInv
<1> SUFFICES ASSUME SlabInit PROVE SInv OBVIOUS
<1> USE DEF SlabInit, SIdle
<1>1. SlabTypeOK BY DEF SlabTypeOK, SlabCall
<1>2. Backed BY DEF Backed, Live
<1>3. Unowned BY DEF Unowned
<1>4. SlabsInHand BY DEF SlabsInHand, InHand
<1>5. SlabsPutAside BY DEF SlabsPutAside
<1>6. ObjectsOnTheWay BY DEF ObjectsOnTheWay
<1>7. Lists BY SlabSizes DEF Lists, OnOwnersList
<1>8. QED BY <1>1, <1>2, <1>3, <1>4, <1>5, <1>6, <1>7 DEF SInv

-----------------------------------------------------------------------------
(* One lemma per action                                                     *)


\* What a step does to the calls: only c's changes, and keeps its type.
CallMoves(c) ==
    /\ scall' \in [Cores -> SlabCall]
    /\ \A d \in Cores \ {c} : scall'[d] = scall[d]

\* The points of a call at which it holds a slab or an object.
Holding == {"own", "tofree", "free", "destroy"}

\* A call that holds nothing before or after, and touches nothing.
LEMMA OnlyTheCall ==
    ASSUME SInv, NEW c \in Cores, CallMoves(c),
           scall[c].pc \notin Holding, scall'[c].pc \notin Holding,
           UNCHANGED <<owner, freeObjs, partial, full, globalFree, attached, made, objs>>
    PROVE  SInv'
<1> USE DEF Holding, CallMoves
<1>1. SlabTypeOK' BY DEF SInv, SlabTypeOK
<1>2. \A d \in Cores : scall'[d].pc = "free" => scall'[d] = scall[d] /\ scall[d].pc = "free"
    OBVIOUS
<1>3. \A d \in Cores : scall[d].pc = "free" => scall'[d] = scall[d] OBVIOUS
<1>4. Backed'
    <2>1. ASSUME NEW s \in Slabs, NEW i \in Empty PROVE Live(s, i)' <=> Live(s, i)
        BY <1>2, <1>3 DEF Live
    <2>2. QED BY <2>1 DEF SInv, Backed
<1>5. Unowned' BY DEF SInv, Unowned
<1>6. SlabsInHand' BY DEF SInv, SlabsInHand, InHand
<1>7. SlabsPutAside' BY DEF SInv, SlabsPutAside
<1>8. ObjectsOnTheWay' BY <1>2 DEF SInv, ObjectsOnTheWay
<1>9. Lists' BY DEF SInv, Lists, OnOwnersList
<1>10. QED BY <1>1, <1>4, <1>5, <1>6, <1>7, <1>8, <1>9 DEF SInv

LEMMA AllocLocalKeeps ==
    ASSUME SInv, NEW c \in Cores, AllocLocal(c)
    PROVE  SInv'
<1>1. PICK s \in partial[c], i \in Empty :
        /\ ObjGet(s, i)
        /\ IF freeObjs[s] = {i}
           THEN /\ partial' = [partial EXCEPT ![c] = @ \ {s}]
                /\ full' = [full EXCEPT ![c] = @ \cup {s}]
           ELSE UNCHANGED slabLists
    BY DEF AllocLocal
<1>2. UNCHANGED <<owner, globalFree, attached, made, scall>> BY DEF AllocLocal
<1>3. /\ SlabTypeOK /\ s \in Slabs /\ owner[s] = c /\ freeObjs[s] # Empty
      /\ s \in attached /\ s \notin full[c] /\ s \notin globalFree
    BY SlabSizes DEF SInv, SlabTypeOK, Lists, OnOwnersList, Backed
<1>4. /\ i \in freeObjs[s]
      /\ freeObjs' \in [Slabs -> SUBSET Empty] /\ freeObjs'[s] = freeObjs[s] \ {i}
      /\ \A q \in Slabs \ {s} : freeObjs'[q] = freeObjs[q]
      /\ objs' = objs \cup {<<s, i>>}
    BY <1>1, <1>3 DEF ObjGet, SlabTypeOK
<1>5. /\ partial' \in [Cores -> SUBSET Slabs] /\ full' \in [Cores -> SUBSET Slabs]
      /\ \A d \in Cores \ {c} : partial'[d] = partial[d] /\ full'[d] = full[d]
      /\ \A q \in Slabs \ {s} : (q \in partial'[c] <=> q \in partial[c])
                             /\ (q \in full'[c] <=> q \in full[c])
      /\ s \in partial'[c] <=> freeObjs[s] # {i}
      /\ s \in full'[c] <=> freeObjs[s] = {i}
    BY <1>1, <1>3 DEF slabLists, SlabTypeOK
<1>6. SlabTypeOK' BY <1>2, <1>3, <1>4, <1>5 DEF SlabTypeOK
<1>7. Backed'
    <2>1. ASSUME NEW q \in Slabs, NEW j \in Empty
          PROVE  Live(q, j)' <=> Live(q, j) \/ (q = s /\ j = i)
        BY <1>2, <1>4 DEF Live
    <2>2. ASSUME NEW q \in Slabs, NEW j \in Empty
          PROVE  j \notin freeObjs'[q] <=> j \notin freeObjs[q] \/ (q = s /\ j = i)
        BY <1>3, <1>4
    <2>3. QED BY <2>1, <2>2, <1>2, <1>3, <1>4 DEF SInv, Backed
<1>8. Unowned' BY <1>2, <1>3, <1>4, SlabSizes DEF SInv, Unowned
<1>9. SlabsInHand' BY <1>2 DEF SInv, SlabsInHand, InHand
<1>10. SlabsPutAside' BY <1>2 DEF SInv, SlabsPutAside
<1>11. ObjectsOnTheWay'
    <2>1. ~ Live(s, i) BY <1>3, <1>4 DEF SInv, Backed
    <2>2. QED BY <2>1, <1>2, <1>4 DEF SInv, ObjectsOnTheWay, Live
<1>12. Lists'
    <2>1. i \notin freeObjs'[s] /\ (freeObjs[s] # {i} => freeObjs'[s] # {}) BY <1>4
    <2>2. ASSUME NEW q \in Slabs, NEW d \in Cores PROVE OnOwnersList(q, d)'
        <3>1. OnOwnersList(q, d) BY DEF SInv, Lists
        <3>2. CASE q = s BY <3>1, <3>2, <2>1, <1>2, <1>3, <1>4, <1>5 DEF OnOwnersList
        <3>3. CASE q # s BY <3>1, <3>3, <1>2, <1>4, <1>5 DEF OnOwnersList
        <3>4. QED BY <3>2, <3>3
    <2>3. QED BY <2>2 DEF Lists
<1>13. QED BY <1>6, <1>7, <1>8, <1>9, <1>10, <1>11, <1>12 DEF SInv

LEMMA AllocMissKeeps ==
    ASSUME SInv, NEW c \in Cores, AllocMiss(c)
    PROVE  SInv'
<1>1. CallMoves(c) /\ scall'[c].pc = "global"
    BY DEF AllocMiss, Goto, SInv, SlabTypeOK, SlabCall, CallMoves
<1>2. QED BY <1>1, OnlyTheCall DEF AllocMiss, Holding

LEMMA AllocGlobalKeeps ==
    ASSUME SInv, NEW c \in Cores, AllocGlobal(c)
    PROVE  SInv'
<1>1. CASE globalFree = {} /\ Goto(c, "make") /\ UNCHANGED globalFree
    <2>1. CallMoves(c) /\ scall'[c].pc = "make"
        BY <1>1 DEF Goto, SInv, SlabTypeOK, SlabCall, CallMoves
    <2>2. QED BY <2>1, <1>1, OnlyTheCall DEF AllocGlobal, Holding
<1>2. ASSUME NEW s \in globalFree, globalFree' = globalFree \ {s},
             scall' = [scall EXCEPT ![c].pc = "own", ![c].slab = s]
      PROVE  SInv'
    <2>1. UNCHANGED <<owner, freeObjs, partial, full, attached, made, objs>> BY DEF AllocGlobal
    <2>2. /\ SlabTypeOK /\ s \in Slabs /\ owner[s] = NoCPU /\ s \in attached
        BY DEF SInv, SlabTypeOK, Lists, OnOwnersList
    <2>3. CallMoves(c) /\ scall'[c].pc = "own" /\ scall'[c].slab = s
        <3> DEFINE m == [scall EXCEPT ![c].pc = "own"]
        <3>1. /\ m \in [Cores -> SlabCall] /\ m[c].pc = "own"
              /\ \A d \in Cores \ {c} : m[d] = scall[d]
            BY <2>2 DEF SlabTypeOK, SlabCall
        <3>2. scall' = [m EXCEPT ![c].slab = s] BY <1>2
        <3> HIDE DEF m
        <3>3. QED BY <3>1, <3>2, <2>2 DEF SlabCall, CallMoves
    <2>4. scall[c].pc = "global" BY DEF AllocGlobal
    <2>5. SlabTypeOK' BY <1>2, <2>1, <2>2, <2>3 DEF SlabTypeOK, CallMoves
    <2>6. Backed'
        <3>1. ASSUME NEW q \in Slabs, NEW i \in Empty PROVE Live(q, i)' <=> Live(q, i)
            BY <2>1, <2>3, <2>4 DEF Live, CallMoves
        <3>2. QED BY <3>1, <2>1 DEF SInv, Backed
    <2>7. Unowned' BY <2>1 DEF SInv, Unowned
    <2>8. SlabsInHand' BY <1>2, <2>1, <2>2, <2>3 DEF SInv, SlabsInHand, InHand, CallMoves
    <2>9. SlabsPutAside' BY <2>1, <2>3 DEF SInv, SlabsPutAside, CallMoves
    <2>10. ObjectsOnTheWay' BY <2>1, <2>3 DEF SInv, ObjectsOnTheWay, CallMoves
    <2>11. Lists' BY <1>2, <2>1 DEF SInv, Lists, OnOwnersList
    <2>12. QED BY <2>5, <2>6, <2>7, <2>8, <2>9, <2>10, <2>11 DEF SInv
<1>3. QED BY <1>1, <1>2 DEF AllocGlobal

\* A slab that is empty, on no list, in the cache after the step, and in no other
\* call's hands becomes c's, with its first object.
LEMMA TakeOwnershipKeeps ==
    ASSUME SInv, NEW c \in Cores, NEW s \in Slabs, TakeOwnership(c, s), Return(c),
           owner[s] = NoCPU, s \notin globalFree, UNCHANGED globalFree,
           scall[c].pc \in {"own", "make", "remake"},
           \A d \in Cores \ {c} : InHand(d) => scall[d].slab # s,
           \A d \in Cores : scall[d].pc = "destroy" => s \notin scall[d].batch,
           attached' = attached \cup {s}, made' = made \cup {s}
    PROVE  SInv'
<1>1. PICK i \in Empty :
        /\ ObjGet(s, i)
        /\ IF freeObjs[s] = {i} THEN full' = [full EXCEPT ![c] = @ \cup {s}] /\ UNCHANGED partial
           ELSE partial' = [partial EXCEPT ![c] = @ \cup {s}] /\ UNCHANGED full
    BY DEF TakeOwnership
<1>2. SlabTypeOK /\ freeObjs[s] = Empty BY DEF SInv, Unowned
<1>3. \A d \in Cores : s \notin partial[d] /\ s \notin full[d]
    BY SlabSizes DEF SInv, Lists, OnOwnersList
<1>4. /\ freeObjs' \in [Slabs -> SUBSET Empty] /\ freeObjs'[s] = Empty \ {i}
      /\ \A q \in Slabs \ {s} : freeObjs'[q] = freeObjs[q]
      /\ objs' = objs \cup {<<s, i>>}
    BY <1>1, <1>2 DEF ObjGet, SlabTypeOK
<1>5. /\ owner' \in [Slabs -> Cores \cup {NoCPU}] /\ owner'[s] = c
      /\ \A q \in Slabs \ {s} : owner'[q] = owner[q]
    BY <1>2 DEF TakeOwnership, SlabTypeOK
<1>6. /\ partial' \in [Cores -> SUBSET Slabs] /\ full' \in [Cores -> SUBSET Slabs]
      /\ \A d \in Cores \ {c} : partial'[d] = partial[d] /\ full'[d] = full[d]
      /\ \A q \in Slabs \ {s} : (q \in partial'[c] <=> q \in partial[c])
                             /\ (q \in full'[c] <=> q \in full[c])
      /\ s \in partial'[c] <=> Empty # {i}
      /\ s \in full'[c] <=> Empty = {i}
    BY <1>1, <1>2, <1>3 DEF SlabTypeOK
<1>7. CallMoves(c) /\ scall'[c].pc = "idle"
    BY <1>2 DEF Return, SIdle, SlabTypeOK, SlabCall, CallMoves
<1>8. SlabTypeOK' BY <1>2, <1>4, <1>5, <1>6, <1>7 DEF SlabTypeOK, CallMoves
<1>9. Backed'
    <2>1. ASSUME NEW q \in Slabs, NEW j \in Empty
          PROVE  Live(q, j)' <=> Live(q, j) \/ (q = s /\ j = i)
        BY <1>4, <1>7 DEF Live, CallMoves
    <2>2. ASSUME NEW q \in Slabs, NEW j \in Empty
          PROVE  j \notin freeObjs'[q] <=> j \notin freeObjs[q] \/ (q = s /\ j = i)
        BY <1>2, <1>4
    <2>3. QED BY <2>1, <2>2, <1>4 DEF SInv, Backed
<1>10. Unowned' BY <1>4, <1>5, SlabSizes DEF SInv, Unowned
<1>11. SlabsInHand' BY <1>5, <1>7 DEF SInv, SlabsInHand, InHand, CallMoves
<1>12. SlabsPutAside' BY <1>7 DEF SInv, SlabsPutAside, CallMoves
<1>13. ObjectsOnTheWay'
    <2>2. ASSUME NEW d \in Cores, scall[d].pc = "free" PROVE scall[d].slab # s
        BY <2>2, SlabSizes DEF SInv, ObjectsOnTheWay
    <2>3. ASSUME NEW d \in Cores, scall'[d].pc = "free"
          PROVE  /\ d # c /\ scall'[d] = scall[d] /\ scall[d].slab # s /\ scall[d].slab \in Slabs
                 /\ <<scall[d].slab, scall[d].obj>> \notin objs'
        BY <2>2, <2>3, <1>4, <1>7 DEF SInv, ObjectsOnTheWay, CallMoves
    <2>4. ASSUME NEW d \in Cores, scall'[d].pc = "free"
          PROVE  /\ scall'[d].slab \in Slabs /\ scall'[d].obj \in Empty
                 /\ scall'[d].cpu \in Cores /\ owner'[scall'[d].slab] = scall'[d].cpu
                 /\ <<scall'[d].slab, scall'[d].obj>> \notin objs'
                 /\ \A e \in Cores \ {d} : scall'[e].pc = "free" =>
                       scall'[e].slab # scall'[d].slab \/ scall'[e].obj # scall'[d].obj
        <3>1. /\ d # c /\ scall'[d] = scall[d] /\ scall[d].slab # s /\ scall[d].slab \in Slabs
              /\ <<scall[d].slab, scall[d].obj>> \notin objs'
            BY <2>3, <2>4
        <3>2. owner'[scall[d].slab] = owner[scall[d].slab] BY <3>1, <1>5
        <3>3. \A e \in Cores : scall'[e].pc = "free" => scall'[e] = scall[e] BY <2>3
        <3>4. QED BY <3>1, <3>2, <3>3, <2>4 DEF SInv, ObjectsOnTheWay
    <2>5. QED BY <2>4 DEF ObjectsOnTheWay
<1>14. Lists'
    <2>1. ASSUME NEW q \in Slabs, NEW d \in Cores PROVE OnOwnersList(q, d)'
        <3>1. OnOwnersList(q, d) BY DEF SInv, Lists
        <3>2. CASE q = s
            <4>1. Empty \ {i} # Empty /\ (Empty # {i} => Empty \ {i} # {}) OBVIOUS
            <4>2. Empty = {i} => Empty \ {i} = {} OBVIOUS
            <4>3. s \in partial'[d] \cup full'[d] <=> d = c BY <1>3, <1>6
            <4>4. QED BY <3>2, <4>1, <4>2, <4>3, <1>3, <1>4, <1>5, <1>6 DEF OnOwnersList
        <3>3. CASE q # s BY <3>1, <3>3, <1>4, <1>5, <1>6 DEF OnOwnersList
        <3>4. QED BY <3>2, <3>3
    <2>2. QED BY <2>1 DEF Lists
<1>15. QED BY <1>8, <1>9, <1>10, <1>11, <1>12, <1>13, <1>14 DEF SInv

LEMMA AllocOwnKeeps ==
    ASSUME SInv, NEW c \in Cores, AllocOwn(c)
    PROVE  SInv'
<1> DEFINE s == scall[c].slab
<1>1. scall[c].pc = "own" /\ TakeOwnership(c, s) /\ Return(c) /\ UNCHANGED <<globalFree, attached, made>>
    BY DEF AllocOwn
<1>2. /\ s \in Slabs /\ s \in attached /\ s \notin globalFree /\ owner[s] = NoCPU
      /\ \A d \in Cores \ {c} : InHand(d) => scall[d].slab # s
    BY <1>1 DEF SInv, SlabsInHand, InHand
<1>3. \A d \in Cores : scall[d].pc = "destroy" => s \notin scall[d].batch
    BY <1>2 DEF SInv, SlabsPutAside
<1>4. attached' = attached \cup {s} /\ made' = made \cup {s}
    BY <1>1, <1>2 DEF SInv, SlabTypeOK
<1>5. QED BY <1>1, <1>2, <1>3, <1>4, TakeOwnershipKeeps

LEMMA AllocMakeKeeps ==
    ASSUME SInv, NEW c \in Cores, AllocMake(c)
    PROVE  SInv'
<1>1. scall[c].pc \in {"make", "remake"} BY DEF AllocMake
<1>2. ASSUME NEW s \in Slabs \ made, made' = made \cup {s}, attached' = attached \cup {s},
             TakeOwnership(c, s), Return(c), UNCHANGED globalFree
      PROVE  SInv'
    <2>1. owner[s] = NoCPU /\ s \notin globalFree /\ s \notin attached
        BY <1>2 DEF SInv, Unowned, SlabTypeOK, Lists, OnOwnersList
    <2>2. \A d \in Cores \ {c} : InHand(d) => scall[d].slab # s
        BY <2>1 DEF SInv, SlabsInHand
    <2>3. \A d \in Cores : scall[d].pc = "destroy" => s \notin scall[d].batch
        BY <1>2 DEF SInv, SlabsPutAside
    <2>4. QED BY <1>1, <1>2, <2>1, <2>2, <2>3, TakeOwnershipKeeps
<1>3. CASE /\ scall' = [scall EXCEPT ![c].pc = "shrink", ![c].after = "remake",
                                    ![c].obj = (Cardinality(globalFree) + 1) \div 2]
           /\ UNCHANGED <<owner, freeObjs, partial, full, globalFree, attached, made, objs>>
    <2>1. (Cardinality(globalFree) + 1) \div 2 \in Nat BY CountIsNat DEF SInv
    <2>2. CallMoves(c) /\ scall'[c].pc = "shrink"
        <3> DEFINE n == (Cardinality(globalFree) + 1) \div 2
                   m == [scall EXCEPT ![c].pc = "shrink"]
                   r == [m EXCEPT ![c].after = "remake"]
        <3>1. /\ m \in [Cores -> SlabCall] /\ m[c].pc = "shrink"
              /\ \A d \in Cores \ {c} : m[d] = scall[d]
            BY DEF SInv, SlabTypeOK, SlabCall
        <3>2. scall' = [r EXCEPT ![c].obj = n] BY <1>3
        <3>3. n \in Nat BY <2>1
        <3> HIDE DEF m, n
        <3>4. /\ r \in [Cores -> SlabCall] /\ r[c].pc = "shrink"
              /\ \A d \in Cores \ {c} : r[d] = scall[d]
            BY <3>1 DEF SlabCall
        <3> HIDE DEF r
        <3>5. QED BY <3>2, <3>3, <3>4 DEF SlabCall, CallMoves
    <2>3. QED BY <1>1, <1>3, <2>2, OnlyTheCall DEF Holding
<1>4. CASE Return(c) /\ UNCHANGED <<owner, freeObjs, partial, full, globalFree, attached, made, objs>>
    <2>1. CallMoves(c) /\ scall'[c].pc = "idle"
        BY <1>4 DEF Return, SIdle, SInv, SlabTypeOK, SlabCall, CallMoves
    <2>2. QED BY <1>1, <1>4, <2>1, OnlyTheCall DEF Holding
<1>5. QED BY <1>2, <1>3, <1>4 DEF AllocMake

LEMMA FreeFindKeeps ==
    ASSUME SInv, NEW c \in Cores, NEW o \in objs, NEW shrink \in BOOLEAN, FreeFind(c, o, shrink)
    PROVE  SInv'
<1>1. PICK s \in Slabs, i \in Empty : o = <<s, i>> BY DEF SInv, SlabTypeOK
<1>2. /\ UNCHANGED <<owner, freeObjs, partial, full, globalFree, attached, made>>
      /\ scall[c].pc = "idle" /\ objs' = objs \ {<<s, i>>} /\ <<s, i>> \in objs
    BY <1>1 DEF FreeFind
<1>3. owner[s] \in Cores
    <2>1. Live(s, i) BY <1>2 DEF Live
    <2>2. freeObjs[s] # Empty BY <2>1 DEF SInv, Backed
    <2>3. QED BY <2>2 DEF SInv, Unowned, SlabTypeOK
<1>4. /\ CallMoves(c) /\ scall'[c].pc = "free" /\ scall'[c].slab = s /\ scall'[c].obj = i
      /\ scall'[c].cpu = owner[s]
    BY <1>1, <1>3, EmptyIsNonempty DEF FreeFind, SIdle, SInv, SlabTypeOK, SlabCall, CallMoves
<1>5. SlabTypeOK' BY <1>2, <1>4 DEF SInv, SlabTypeOK, CallMoves
<1>6. Backed'
    <2>1. ASSUME NEW q \in Slabs, NEW j \in Empty PROVE Live(q, j)' <=> Live(q, j)
        <3>1. CASE q = s /\ j = i BY <3>1, <1>2, <1>4 DEF Live
        <3>2. CASE q # s \/ j # i BY <3>2, <1>2, <1>4 DEF Live, CallMoves
        <3>3. QED BY <3>1, <3>2
    <2>2. QED BY <2>1, <1>2 DEF SInv, Backed
<1>7. Unowned' BY <1>2 DEF SInv, Unowned
<1>8. SlabsInHand' BY <1>2, <1>4 DEF SInv, SlabsInHand, InHand, CallMoves
<1>9. SlabsPutAside' BY <1>2, <1>4 DEF SInv, SlabsPutAside, CallMoves
<1>10. ObjectsOnTheWay' BY <1>2, <1>3, <1>4 DEF SInv, ObjectsOnTheWay, CallMoves
<1>11. Lists' BY <1>2 DEF SInv, Lists, OnOwnersList
<1>12. QED BY <1>5, <1>6, <1>7, <1>8, <1>9, <1>10, <1>11 DEF SInv

LEMMA FreePutKeeps ==
    ASSUME SInv, NEW c \in Cores, FreePut(c)
    PROVE  SInv'
<1> DEFINE s == scall[c].slab
           k == scall[c].cpu
           i == scall[c].obj
           left == freeObjs[s] \cup {i}
<1>1. /\ scall[c].pc = "free" /\ owner[s] = k /\ k \in Cores
      /\ UNCHANGED <<globalFree, attached, made, objs>>
      /\ freeObjs' = [freeObjs EXCEPT ![s] = left]
    BY DEF FreePut
<1>2. SlabTypeOK /\ s \in Slabs /\ i \in Empty BY <1>1 DEF SInv, ObjectsOnTheWay
<1>3. Live(s, i) /\ <<s, i>> \notin objs BY <1>1 DEF Live, SInv, ObjectsOnTheWay
<1>4. i \notin freeObjs[s] /\ s \in attached /\ s \notin globalFree
    <2>1. i \notin freeObjs[s] BY <1>2, <1>3 DEF SInv, Backed
    <2>2. s \in attached BY <2>1, <1>2 DEF SInv, Backed
    <2>3. s \notin globalFree BY <1>1, <1>2, SlabSizes DEF SInv, Lists, OnOwnersList
    <2>4. QED BY <2>1, <2>2, <2>3
<1>5. \A d \in Cores \ {c} : scall[d].pc = "free" => scall[d].slab # s \/ scall[d].obj # i
    BY <1>1 DEF SInv, ObjectsOnTheWay
<1>6. /\ freeObjs' \in [Slabs -> SUBSET Empty] /\ freeObjs'[s] = left
      /\ \A q \in Slabs \ {s} : freeObjs'[q] = freeObjs[q]
    BY <1>1, <1>2 DEF SlabTypeOK
<1>7. \A d \in Cores : (s \in partial[d] \/ s \in full[d]) => d = k
    BY <1>1, <1>2 DEF SInv, Lists, OnOwnersList
<1>8. s \in partial[k] \/ s \in full[k] BY <1>1, <1>2 DEF SInv, Lists, OnOwnersList
<1>9. CASE left = Empty
    <2>1. Dequeue(c, s, k) /\ owner' = [owner EXCEPT ![s] = NoCPU] /\ Goto(c, "tofree")
        BY <1>9 DEF FreePut
    <2>2. /\ owner' \in [Slabs -> Cores \cup {NoCPU}] /\ owner'[s] = NoCPU
          /\ \A q \in Slabs \ {s} : owner'[q] = owner[q]
        BY <2>1, <1>2 DEF SlabTypeOK
    <2>3. /\ partial' \in [Cores -> SUBSET Slabs] /\ full' \in [Cores -> SUBSET Slabs]
          /\ \A d \in Cores : s \notin partial'[d] /\ s \notin full'[d]
          /\ \A d \in Cores, q \in Slabs \ {s} :
                (q \in partial'[d] <=> q \in partial[d]) /\ (q \in full'[d] <=> q \in full[d])
        BY <2>1, <1>1, <1>2, <1>7 DEF Dequeue, SlabTypeOK
    <2>4. CallMoves(c) /\ scall'[c].pc = "tofree" /\ scall'[c].slab = s
        BY <2>1, <1>2 DEF Goto, SlabTypeOK, SlabCall, CallMoves
    <2>5. \A d \in Cores \ {c} : scall[d].pc = "free" => scall[d].slab # s
        <3> SUFFICES ASSUME NEW d \in Cores \ {c}, scall[d].pc = "free", scall[d].slab = s
                     PROVE  FALSE
            OBVIOUS
        <3>1. scall[d].obj \in Empty /\ scall[d].obj # i
            BY <1>5 DEF SInv, ObjectsOnTheWay
        <3>2. Live(s, scall[d].obj) BY DEF Live
        <3>3. scall[d].obj \notin freeObjs[s] BY <3>1, <3>2, <1>2 DEF SInv, Backed
        <3>4. QED BY <3>1, <3>3, <1>9
    <2>6. SlabTypeOK' BY <1>1, <1>2, <1>6, <2>2, <2>3, <2>4 DEF SlabTypeOK, CallMoves
    <2>7. Backed'
        <3>1. ASSUME NEW q \in Slabs, NEW j \in Empty
              PROVE  Live(q, j)' <=> Live(q, j) /\ ~ (q = s /\ j = i)
            BY <1>1, <1>3, <1>5, <2>4 DEF Live, CallMoves
        <3>2. ASSUME NEW q \in Slabs, NEW j \in Empty
              PROVE  j \notin freeObjs'[q] <=> j \notin freeObjs[q] /\ ~ (q = s /\ j = i)
            BY <1>2, <1>6
        <3>3. QED BY <3>1, <3>2, <1>1, <1>4, <1>6 DEF SInv, Backed
    <2>8. Unowned' BY <1>1, <1>6, <1>9, <2>2 DEF SInv, Unowned
    <2>9. SlabsInHand'
        <3>1. \A d \in Cores \ {c} : InHand(d) => scall[d].slab # s
            BY <1>1, SlabSizes DEF SInv, SlabsInHand
        <3>2. QED BY <3>1, <1>1, <1>2, <1>4, <2>2, <2>4 DEF SInv, SlabsInHand, InHand, CallMoves
    <2>10. SlabsPutAside' BY <1>1, <2>4 DEF SInv, SlabsPutAside, CallMoves
    <2>11. ObjectsOnTheWay' BY <1>1, <2>2, <2>4, <2>5 DEF SInv, ObjectsOnTheWay, CallMoves
    <2>12. Lists'
        <3>1. ASSUME NEW q \in Slabs, NEW d \in Cores PROVE OnOwnersList(q, d)'
            <4>1. OnOwnersList(q, d) BY DEF SInv, Lists
            <4>2. CASE q = s BY <4>2, <1>1, <1>4, <2>2, <2>3, SlabSizes DEF OnOwnersList
            <4>3. CASE q # s BY <4>1, <4>3, <1>1, <1>6, <2>2, <2>3 DEF OnOwnersList
            <4>4. QED BY <4>2, <4>3
        <3>2. QED BY <3>1 DEF Lists
    <2>13. QED BY <2>6, <2>7, <2>8, <2>9, <2>10, <2>11, <2>12 DEF SInv
<1>10. CASE left # Empty
    <2>1. /\ Goto(c, AfterFree(c)) /\ UNCHANGED owner
          /\ IF freeObjs[s] = {}
             THEN /\ full' = [full EXCEPT ![k] = @ \ {s}]
                  /\ partial' = [partial EXCEPT ![k] = @ \cup {s}]
             ELSE UNCHANGED slabLists
        BY <1>10 DEF FreePut
    <2>2. s \in full[k] <=> freeObjs[s] = {}
        BY <1>1, <1>2, <1>8 DEF SInv, Lists, OnOwnersList
    <2>3. /\ partial' \in [Cores -> SUBSET Slabs] /\ full' \in [Cores -> SUBSET Slabs]
          /\ s \in partial'[k] /\ \A d \in Cores : s \notin full'[d] /\ (s \in partial'[d] => d = k)
          /\ \A d \in Cores, q \in Slabs \ {s} :
                (q \in partial'[d] <=> q \in partial[d]) /\ (q \in full'[d] <=> q \in full[d])
        BY <2>1, <2>2, <1>1, <1>2, <1>7, <1>8 DEF slabLists, SlabTypeOK
    <2>4. CallMoves(c) /\ scall'[c].pc \in {"check", "idle"}
        BY <2>1, <1>2 DEF Goto, AfterFree, SlabTypeOK, SlabCall, CallMoves
    <2>6. SlabTypeOK' BY <1>1, <1>2, <1>6, <2>1, <2>3, <2>4 DEF SlabTypeOK, CallMoves
    <2>7. Backed'
        <3>1. ASSUME NEW q \in Slabs, NEW j \in Empty
              PROVE  Live(q, j)' <=> Live(q, j) /\ ~ (q = s /\ j = i)
            BY <1>1, <1>3, <1>5, <2>4 DEF Live, CallMoves
        <3>2. ASSUME NEW q \in Slabs, NEW j \in Empty
              PROVE  j \notin freeObjs'[q] <=> j \notin freeObjs[q] /\ ~ (q = s /\ j = i)
            BY <1>2, <1>6
        <3>3. QED BY <3>1, <3>2, <1>1, <1>4, <1>6 DEF SInv, Backed
    <2>8. Unowned' BY <1>1, <1>6, <2>1, SlabSizes DEF SInv, Unowned
    <2>9. SlabsInHand' BY <1>1, <2>1, <2>4 DEF SInv, SlabsInHand, InHand, CallMoves
    <2>10. SlabsPutAside' BY <1>1, <2>4 DEF SInv, SlabsPutAside, CallMoves
    <2>11. ObjectsOnTheWay' BY <1>1, <2>1, <2>4 DEF SInv, ObjectsOnTheWay, CallMoves
    <2>12. Lists'
        <3>1. left # {} OBVIOUS
        <3>2. ASSUME NEW q \in Slabs, NEW d \in Cores PROVE OnOwnersList(q, d)'
            <4>1. OnOwnersList(q, d) BY DEF SInv, Lists
            <4>2. CASE q = s
                BY <4>2, <3>1, <1>1, <1>4, <1>6, <1>10, <2>1, <2>3 DEF OnOwnersList
            <4>3. CASE q # s BY <4>1, <4>3, <1>1, <1>6, <2>1, <2>3 DEF OnOwnersList
            <4>4. QED BY <4>2, <4>3
        <3>3. QED BY <3>2 DEF Lists
    <2>13. QED BY <2>6, <2>7, <2>8, <2>9, <2>10, <2>11, <2>12 DEF SInv
<1>11. QED BY <1>9, <1>10

LEMMA FreeToGlobalKeeps ==
    ASSUME SInv, NEW c \in Cores, FreeToGlobal(c)
    PROVE  SInv'
<1> DEFINE s == scall[c].slab
<1>1. /\ scall[c].pc = "tofree" /\ globalFree' = globalFree \cup {s}
      /\ Goto(c, AfterFree(c))
      /\ UNCHANGED <<owner, freeObjs, partial, full, attached, made, objs>>
    BY DEF FreeToGlobal
<1>2. /\ SlabTypeOK /\ s \in Slabs /\ s \in attached /\ owner[s] = NoCPU
      /\ \A d \in Cores \ {c} : InHand(d) => scall[d].slab # s
    BY <1>1 DEF SInv, SlabsInHand, InHand
<1>3. freeObjs[s] = Empty BY <1>2 DEF SInv, Unowned
<1>4. CallMoves(c) /\ scall'[c].pc \in {"check", "idle"}
    BY <1>1, <1>2 DEF Goto, AfterFree, SlabTypeOK, SlabCall, CallMoves
<1>5. SlabTypeOK' BY <1>1, <1>2, <1>4 DEF SlabTypeOK, CallMoves
<1>6. Backed'
    <2>1. ASSUME NEW q \in Slabs, NEW j \in Empty PROVE Live(q, j)' <=> Live(q, j)
        BY <1>1, <1>4 DEF Live, CallMoves
    <2>2. QED BY <2>1, <1>1 DEF SInv, Backed
<1>7. Unowned' BY <1>1 DEF SInv, Unowned
<1>8. SlabsInHand' BY <1>1, <1>2, <1>4 DEF SInv, SlabsInHand, InHand, CallMoves
<1>9. SlabsPutAside' BY <1>1, <1>4 DEF SInv, SlabsPutAside, CallMoves
<1>10. ObjectsOnTheWay' BY <1>1, <1>4 DEF SInv, ObjectsOnTheWay, CallMoves
<1>11. Lists' BY <1>1, <1>2, <1>3 DEF SInv, Lists, OnOwnersList
<1>12. QED BY <1>5, <1>6, <1>7, <1>8, <1>9, <1>10, <1>11 DEF SInv

LEMMA FreeCheckKeeps ==
    ASSUME SInv, NEW c \in Cores, FreeCheck(c)
    PROVE  SInv'
<1>1. Cardinality(globalFree) \div 2 \in Nat BY CountIsNat DEF SInv
<1>2. CallMoves(c) /\ scall'[c].pc \in {"shrink", "idle"}
    BY <1>1 DEF FreeCheck, SIdle, SInv, SlabTypeOK, SlabCall, CallMoves
<1>3. QED BY <1>2, OnlyTheCall DEF FreeCheck, Holding

LEMMA ShrinkKeeps ==
    ASSUME SInv, NEW c \in Cores, NEW n \in {0, 1}, Shrink(c, n)
    PROVE  SInv'
<1> DEFINE want == IF n = 0 THEN Cardinality(Slabs) ELSE n
<1>1. want \in Nat BY CountIsNat DEF SInv
<1>2. scall' = [scall EXCEPT ![c] = [SIdle EXCEPT !.pc = "shrink", !.obj = want]] BY DEF Shrink
<1> HIDE DEF want
<1>3. CallMoves(c) /\ scall'[c].pc = "shrink"
    BY <1>1, <1>2 DEF SIdle, SInv, SlabTypeOK, SlabCall, CallMoves
<1>4. QED BY <1>3, OnlyTheCall DEF Shrink, Holding

LEMMA ShrinkDetachKeeps ==
    ASSUME SInv, NEW c \in Cores, ShrinkDetach(c)
    PROVE  SInv'
<1>1. PICK batch \in SUBSET globalFree :
        /\ globalFree' = globalFree \ batch
        /\ attached' = attached \ batch
        /\ scall' = [scall EXCEPT ![c].pc = "destroy", ![c].batch = batch]
    BY DEF ShrinkDetach
<1>2. scall[c].pc = "shrink" /\ UNCHANGED <<owner, freeObjs, partial, full, made, objs>>
    BY DEF ShrinkDetach
<1>3. \A q \in batch : q \in Slabs /\ q \in attached /\ q \in made /\ owner[q] = NoCPU /\ freeObjs[q] = Empty
    BY DEF SInv, SlabTypeOK, Lists, OnOwnersList
<1>4. CallMoves(c) /\ scall'[c].pc = "destroy" /\ scall'[c].batch = batch
    <2> DEFINE m == [scall EXCEPT ![c].pc = "destroy"]
    <2>1. /\ m \in [Cores -> SlabCall] /\ m[c].pc = "destroy"
          /\ \A d \in Cores \ {c} : m[d] = scall[d]
        BY DEF SInv, SlabTypeOK, SlabCall
    <2>2. scall' = [m EXCEPT ![c].batch = batch] BY <1>1
    <2>3. batch \in SUBSET Slabs BY <1>3
    <2> HIDE DEF m
    <2>4. QED BY <2>1, <2>2, <2>3 DEF SlabCall, CallMoves
<1>5. SlabTypeOK' BY <1>1, <1>2, <1>4 DEF SInv, SlabTypeOK, CallMoves
<1>6. Backed'
    <2>1. ASSUME NEW q \in Slabs, NEW j \in Empty PROVE Live(q, j)' <=> Live(q, j)
        BY <1>2, <1>4 DEF Live, CallMoves
    <2>2. QED BY <2>1, <1>1, <1>2, <1>3 DEF SInv, Backed
<1>7. Unowned' BY <1>1, <1>2, <1>3 DEF SInv, Unowned
<1>8. SlabsInHand' BY <1>1, <1>2, <1>4 DEF SInv, SlabsInHand, InHand, CallMoves
<1>9. SlabsPutAside'
    <2>1. \A d \in Cores \ {c} : scall[d].pc = "destroy" => \A q \in scall[d].batch : q \notin batch
        BY <1>3 DEF SInv, SlabsPutAside
    <2>2. QED BY <2>1, <1>1, <1>2, <1>3, <1>4 DEF SInv, SlabsPutAside, CallMoves
<1>10. ObjectsOnTheWay' BY <1>2, <1>4 DEF SInv, ObjectsOnTheWay, CallMoves
<1>11. Lists' BY <1>1, <1>2 DEF SInv, Lists, OnOwnersList
<1>12. QED BY <1>5, <1>6, <1>7, <1>8, <1>9, <1>10, <1>11 DEF SInv

LEMMA ShrinkDestroyKeeps ==
    ASSUME SInv, NEW c \in Cores, ShrinkDestroy(c)
    PROVE  SInv'
<1>1. /\ scall[c].pc = "destroy" /\ made' = made \ scall[c].batch
      /\ scall' = [scall EXCEPT ![c] = [SIdle EXCEPT !.pc = scall[c].after]]
      /\ UNCHANGED <<owner, freeObjs, partial, full, globalFree, attached, objs>>
    BY DEF ShrinkDestroy
<1>2. CallMoves(c) /\ scall'[c].pc \in {"idle", "remake"}
    BY <1>1 DEF SIdle, SInv, SlabTypeOK, SlabCall, CallMoves
<1>3. attached \subseteq made' BY <1>1 DEF SInv, SlabTypeOK, SlabsPutAside
<1>4. SlabTypeOK' BY <1>1, <1>2, <1>3 DEF SInv, SlabTypeOK, CallMoves
<1>5. Backed'
    <2>1. ASSUME NEW q \in Slabs, NEW j \in Empty PROVE Live(q, j)' <=> Live(q, j)
        BY <1>1, <1>2 DEF Live, CallMoves
    <2>2. QED BY <2>1, <1>1 DEF SInv, Backed
<1>6. Unowned' BY <1>1 DEF SInv, Unowned
<1>7. SlabsInHand' BY <1>1, <1>2 DEF SInv, SlabsInHand, InHand, CallMoves
<1>8. SlabsPutAside' BY <1>1, <1>2 DEF SInv, SlabsPutAside, CallMoves
<1>9. ObjectsOnTheWay' BY <1>1, <1>2 DEF SInv, ObjectsOnTheWay, CallMoves
<1>10. Lists' BY <1>1 DEF SInv, Lists, OnOwnersList
<1>11. QED BY <1>4, <1>5, <1>6, <1>7, <1>8, <1>9, <1>10 DEF SInv

LEMMA StutterKeeps ==
    ASSUME SInv, UNCHANGED slabVars
    PROVE  SInv'
<1> USE DEF slabVars, SInv
<1>1. SlabTypeOK' BY DEF SlabTypeOK
<1>2. Backed' BY DEF Backed, Live
<1>3. Unowned' BY DEF Unowned
<1>4. SlabsInHand' BY DEF SlabsInHand, InHand
<1>5. SlabsPutAside' BY DEF SlabsPutAside
<1>6. ObjectsOnTheWay' BY DEF ObjectsOnTheWay
<1>7. Lists' BY DEF Lists, OnOwnersList
<1>8. QED BY <1>1, <1>2, <1>3, <1>4, <1>5, <1>6, <1>7

-----------------------------------------------------------------------------

\* slab_alloc, slab_free and the shrinking of a cache, on any number of CPUs: an
\* object handed out lies in a slab that still has its pages and is handed out
\* once, and the owner slab_free read without a lock is still the owner, so the
\* panic under the lock is never reached.
THEOREM SlabObjectsHold == SlabSpec => []ObjectsHold
<1>1. SlabInit => SInv BY InitSInv
<1>2. SInv /\ [SlabNext]_slabVars => SInv'
    <2> SUFFICES ASSUME SInv, [SlabNext]_slabVars PROVE SInv' OBVIOUS
    <2>1. CASE UNCHANGED slabVars BY <2>1, StutterKeeps
    <2>2. CASE SlabNext
        <3>1. PICK c \in Cores :
                \/ AllocLocal(c) \/ AllocMiss(c) \/ AllocGlobal(c) \/ AllocOwn(c) \/ AllocMake(c)
                \/ \E o \in objs, shrink \in BOOLEAN : FreeFind(c, o, shrink)
                \/ FreePut(c) \/ FreeToGlobal(c) \/ FreeCheck(c)
                \/ \E n \in {0, 1} : Shrink(c, n)
                \/ ShrinkDetach(c) \/ ShrinkDestroy(c)
            BY <2>2 DEF SlabNext
        <3>2. QED
            BY <3>1, AllocLocalKeeps, AllocMissKeeps, AllocGlobalKeeps, AllocOwnKeeps,
               AllocMakeKeeps, FreeFindKeeps, FreePutKeeps, FreeToGlobalKeeps,
               FreeCheckKeeps, ShrinkKeeps, ShrinkDetachKeeps, ShrinkDestroyKeeps
    <2>3. QED BY <2>1, <2>2
<1>3. SInv => ObjectsHold BY BackedIsBacked
<1>4. QED BY <1>1, <1>2, <1>3, PTL DEF SlabSpec
=============================================================================
