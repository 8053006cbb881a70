-------------------------------- MODULE Slab --------------------------------
(***************************************************************************)
(* One slab cache of kernel/mm/slab.c: the partial and full lists of each  *)
(* CPU, the global list of empty slabs, and the objects in callers' hands. *)
(*                                                                         *)
(* A CPU runs one call at a time (push_off, no preemption in the kernel).  *)
(* A step is one critical section of a per-CPU lock or of the global lock, *)
(* or what a call does with no lock held.  A slab's free objects form a    *)
(* set: the order of its free list does not matter.  The counters of the   *)
(* cache change in the critical sections of the lists they count and are   *)
(* read off the lists.                                                     *)
(***************************************************************************)
EXTENDS Integers, FiniteSets

CONSTANTS Cores,     \* the Cores calling the allocator
          Slabs,    \* the groups of pages the page allocator can give the cache
          ObjNum,   \* slab_obj_num
          Limit     \* limits / slab_obj_num: free slabs that start a shrink

NoCPU == "none"
NoSlab == "none"
Empty == 1 .. ObjNum

ASSUME SlabSizes ==
    /\ ObjNum \in Nat \ {0} /\ Limit \in Nat \ {0}
    /\ IsFiniteSet(Slabs) /\ NoSlab \notin Slabs /\ NoCPU \notin Cores

VARIABLES owner,     \* slab->cpu_id; NoCPU is -1
          freeObjs,  \* the free objects of each slab
          partial,   \* partial_list of each CPU
          full,      \* full_list of each CPU
          globalFree,\* global_free_list
          attached,  \* the slabs with slab->cache set
          made,      \* the slabs that have their pages
          objs,      \* the objects in callers' hands: <<slab, index>>
          scall      \* the call each CPU is in

slabVars == <<owner, freeObjs, partial, full, globalFree, attached, made, objs, scall>>
slabLists == <<partial, full>>

SIdle == [pc |-> "idle", slab |-> NoSlab, obj |-> 0, cpu |-> NoCPU, shrink |-> TRUE,
          batch |-> {}, after |-> "idle"]

\* __slab_cache_init
SlabInit ==
    /\ owner = [s \in Slabs |-> NoCPU]
    /\ freeObjs = [s \in Slabs |-> Empty]
    /\ partial = [c \in Cores |-> {}]
    /\ full = [c \in Cores |-> {}]
    /\ globalFree = {}
    /\ attached = {} /\ made = {} /\ objs = {}
    /\ scall = [c \in Cores |-> SIdle]

Goto(c, pc) == scall' = [scall EXCEPT ![c].pc = pc]
Return(c) == scall' = [scall EXCEPT ![c] = SIdle]

\* __slab_obj_get of object i of s, for the caller.
ObjGet(s, i) ==
    /\ i \in freeObjs[s]
    /\ freeObjs' = [freeObjs EXCEPT ![s] = @ \ {i}]
    /\ objs' = objs \cup {<<s, i>>}

-----------------------------------------------------------------------------
(* slab_alloc                                                               *)

\* Phase 1: an object of a slab on this CPU's partial list.
AllocLocal(c) ==
    /\ scall[c].pc = "idle"
    /\ \E s \in partial[c], i \in Empty :
        /\ ObjGet(s, i)
        /\ IF freeObjs[s] = {i}
           THEN /\ partial' = [partial EXCEPT ![c] = @ \ {s}]
                /\ full' = [full EXCEPT ![c] = @ \cup {s}]
           ELSE UNCHANGED slabLists
    /\ UNCHANGED <<owner, globalFree, attached, made, scall>>

\* The list is empty, seen under its lock, which is dropped.
AllocMiss(c) ==
    /\ scall[c].pc = "idle" /\ partial[c] = {}
    /\ Goto(c, "global")
    /\ UNCHANGED <<owner, freeObjs, partial, full, globalFree, attached, made, objs>>

\* Phase 2, under the global lock.
AllocGlobal(c) ==
    /\ scall[c].pc = "global"
    /\ \/ \E s \in globalFree :
           /\ globalFree' = globalFree \ {s}
           /\ scall' = [scall EXCEPT ![c].pc = "own", ![c].slab = s]
       \/ globalFree = {} /\ Goto(c, "make") /\ UNCHANGED globalFree
    /\ UNCHANGED <<owner, freeObjs, partial, full, attached, made, objs>>

\* The slab becomes this CPU's: owner, first object, list.
TakeOwnership(c, s) ==
    /\ owner' = [owner EXCEPT ![s] = c]
    /\ \E i \in Empty :
        /\ ObjGet(s, i)
        /\ IF freeObjs[s] = {i} THEN full' = [full EXCEPT ![c] = @ \cup {s}] /\ UNCHANGED partial
           ELSE partial' = [partial EXCEPT ![c] = @ \cup {s}] /\ UNCHANGED full

AllocOwn(c) ==
    /\ scall[c].pc = "own"
    /\ TakeOwnership(c, scall[c].slab)
    /\ Return(c)
    /\ UNCHANGED <<globalFree, attached, made>>

\* Phase 3: __slab_make gets pages; on failure it shrinks every cache
\* (slab_shrink_all) and tries once more.  The call returns NULL when that fails
\* too, or when there is no memory for the descriptor or the bitmap.
AllocMake(c) ==
    /\ scall[c].pc \in {"make", "remake"}
    /\ \/ \E s \in Slabs \ made :
           /\ made' = made \cup {s}
           /\ attached' = attached \cup {s}
           /\ TakeOwnership(c, s)
           /\ Return(c)
           /\ UNCHANGED globalFree
       \/ /\ scall[c].pc = "make"
          /\ scall' = [scall EXCEPT ![c].pc = "shrink", ![c].after = "remake",
                                    ![c].obj = (Cardinality(globalFree) + 1) \div 2]
          /\ UNCHANGED <<owner, freeObjs, partial, full, globalFree, attached, made, objs>>
       \/ /\ Return(c)
          /\ UNCHANGED <<owner, freeObjs, partial, full, globalFree, attached, made, objs>>

-----------------------------------------------------------------------------
(* slab_free, slab_free_noshrink and the shrinking of the global list       *)

\* Phases 1 and 2: the slab of the object and its owner, read without a lock.
FreeFind(c, o, shrink) ==
    /\ scall[c].pc = "idle" /\ o \in objs
    /\ objs' = objs \ {o}
    /\ scall' = [scall EXCEPT ![c] = [SIdle EXCEPT !.pc = "free", !.slab = o[1], !.obj = o[2],
                                                   !.cpu = owner[o[1]], !.shrink = shrink]]
    /\ UNCHANGED <<owner, freeObjs, partial, full, globalFree, attached, made>>

AfterFree(c) == IF scall[c].shrink THEN "check" ELSE "idle"

\* The slab leaves the list that its state names.
Dequeue(c, s, k) ==
    /\ partial' = [partial EXCEPT ![k] = @ \ {s}]
    /\ full' = [full EXCEPT ![k] = @ \ {s}]

\* Phases 3 to 5 under the owner's lock: the object returns to its slab, and
\* the slab changes list when it became empty or is no longer full.
FreePut(c) ==
    LET s == scall[c].slab
        k == scall[c].cpu
        left == freeObjs[s] \cup {scall[c].obj}
    IN
    /\ scall[c].pc = "free" /\ k \in Cores /\ owner[s] = k
    /\ freeObjs' = [freeObjs EXCEPT ![s] = left]
    /\ IF left = Empty
       THEN /\ Dequeue(c, s, k)
            /\ owner' = [owner EXCEPT ![s] = NoCPU]
            /\ Goto(c, "tofree")
       ELSE /\ IF freeObjs[s] = {}
               THEN /\ full' = [full EXCEPT ![k] = @ \ {s}]
                    /\ partial' = [partial EXCEPT ![k] = @ \cup {s}]
               ELSE UNCHANGED slabLists
            /\ Goto(c, AfterFree(c))
            /\ UNCHANGED owner
    /\ UNCHANGED <<globalFree, attached, made, objs>>

\* An empty slab joins the global list, under the global lock.
FreeToGlobal(c) ==
    /\ scall[c].pc = "tofree"
    /\ globalFree' = globalFree \cup {scall[c].slab}
    /\ Goto(c, AfterFree(c))
    /\ UNCHANGED <<owner, freeObjs, partial, full, attached, made, objs>>

\* Phase 6: the count of free slabs, read without a lock, decides on a shrink
\* of half of them.
FreeCheck(c) ==
    LET n == Cardinality(globalFree) IN
    /\ scall[c].pc = "check"
    /\ scall' = [scall EXCEPT ![c] = IF n >= Limit
                                     THEN [SIdle EXCEPT !.pc = "shrink", !.obj = n \div 2]
                                     ELSE SIdle]
    /\ UNCHANGED <<owner, freeObjs, partial, full, globalFree, attached, made, objs>>

\* slab_cache_shrink of nums slabs; 0 asks for all.
Shrink(c, nums) ==
    /\ scall[c].pc = "idle"
    /\ scall' = [scall EXCEPT ![c] = [SIdle EXCEPT !.pc = "shrink",
                     !.obj = IF nums = 0 THEN Cardinality(Slabs) ELSE nums]]
    /\ UNCHANGED <<owner, freeObjs, partial, full, globalFree, attached, made, objs>>

\* Bug: slabs of this CPU are detached as well as the free ones.
ShrinksPartial(c) ==
    /\ scall[c].pc = "shrink"
    /\ \E batch \in SUBSET (globalFree \cup partial[c]) :
        /\ batch # {}
        /\ globalFree' = globalFree \ batch
        /\ partial' = [partial EXCEPT ![c] = @ \ batch]
        /\ attached' = attached \ batch
        /\ scall' = [scall EXCEPT ![c].pc = "destroy", ![c].batch = batch]
    /\ UNCHANGED <<owner, freeObjs, full, made, objs>>

\* __slab_cache_shrink_unlocked: under the global lock, that many slabs, or all
\* there are, are detached and put aside.
ShrinkDetach(c) ==
    LET have == Cardinality(globalFree)
        n == IF scall[c].obj < have THEN scall[c].obj ELSE have
    IN
    /\ scall[c].pc = "shrink"
    /\ \E batch \in SUBSET globalFree :
        /\ Cardinality(batch) = n
        /\ globalFree' = globalFree \ batch
        /\ attached' = attached \ batch
        /\ scall' = [scall EXCEPT ![c].pc = "destroy", ![c].batch = batch]
    /\ UNCHANGED <<owner, freeObjs, partial, full, made, objs>>

\* __slab_destroy of the slabs put aside: their pages go back.
ShrinkDestroy(c) ==
    /\ scall[c].pc = "destroy"
    /\ made' = made \ scall[c].batch
    /\ scall' = [scall EXCEPT ![c] = [SIdle EXCEPT !.pc = scall[c].after]]
    /\ UNCHANGED <<owner, freeObjs, partial, full, globalFree, attached, objs>>

SlabNext ==
    \E c \in Cores :
        \/ AllocLocal(c) \/ AllocMiss(c) \/ AllocGlobal(c) \/ AllocOwn(c) \/ AllocMake(c)
        \/ \E o \in objs, shrink \in BOOLEAN : FreeFind(c, o, shrink)
        \/ FreePut(c) \/ FreeToGlobal(c) \/ FreeCheck(c)
        \/ \E n \in {0, 1} : Shrink(c, n)
        \/ ShrinkDetach(c) \/ ShrinkDestroy(c)

SlabSpec == SlabInit /\ [][SlabNext]_slabVars

-----------------------------------------------------------------------------

\* The call a CPU is in: where it stands, the slab and the object it works on (or
\* how many slabs to shrink), the owner it read, and the slabs it put aside.
SlabCall == [pc : {"idle", "global", "own", "make", "remake", "free", "tofree", "check",
                   "shrink", "destroy"},
             slab : Slabs \cup {NoSlab}, obj : Nat, cpu : Cores \cup {NoCPU},
             shrink : BOOLEAN, batch : SUBSET Slabs, after : {"idle", "remake"}]

SlabTypeOK ==
    /\ owner \in [Slabs -> Cores \cup {NoCPU}]
    /\ freeObjs \in [Slabs -> SUBSET Empty]
    /\ partial \in [Cores -> SUBSET Slabs] /\ full \in [Cores -> SUBSET Slabs]
    /\ globalFree \subseteq Slabs /\ attached \subseteq made /\ made \subseteq Slabs
    /\ objs \subseteq Slabs \X Empty
    /\ scall \in [Cores -> SlabCall]

\* The objects handed to slab_free and not yet back in their slab.
Returning == { <<scall[c].slab, scall[c].obj>> : c \in { d \in Cores : scall[d].pc = "free" } }

\* An object is free or handed out, never both, and what is handed out lies in a
\* slab that still has its pages: no shrink detaches a slab under a live object.
ObjectsAreBacked ==
    \A s \in Slabs :
        /\ { i \in Empty : <<s, i>> \in objs \cup Returning } = Empty \ freeObjs[s]
        /\ freeObjs[s] # Empty => s \in attached /\ s \in made

\* A slab is on one list, its owner's.
OnOwnersList(s, c) ==
    /\ s \in partial[c] => owner[s] = c /\ freeObjs[s] \notin {{}, Empty}
    /\ s \in full[c] => owner[s] = c /\ freeObjs[s] = {}
    /\ s \in globalFree => owner[s] = NoCPU /\ freeObjs[s] = Empty /\ s \in attached
    /\ owner[s] = c => s \in partial[c] \cup full[c]

\* slab_free reads a slab's owner before it takes the owner's lock and panics if
\* it changed: the object being returned keeps the slab with its owner, on the
\* partial or the full list as its objects say, whatever the other CPUs do.
OwnerIsStable ==
    /\ \A s \in Slabs, c \in Cores : OnOwnersList(s, c)
    /\ \A c \in Cores : scall[c].pc = "free" =>
        scall[c].cpu \in Cores /\ owner[scall[c].slab] = scall[c].cpu

\* An object handed out lies in a slab that still has its pages, is handed out once,
\* and the slab's owner, read without a lock, is still its owner under it.
ObjectsHold == SlabTypeOK /\ ObjectsAreBacked /\ OwnerIsStable

=============================================================================
