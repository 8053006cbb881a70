------------------------------ MODULE MCMemory ------------------------------
(***************************************************************************)
(* The three allocators, checked one at a time: "part" says which one the  *)
(* behaviour is about, the others keep their initial state.  The part      *)
(* "boot" stops after page_buddy_init and tries every set of reserved      *)
(* pages.                                                                  *)
(***************************************************************************)
EXTENDS Page, Slab, TLC

VARIABLE part

all == <<part, pageVars, slabVars, earlyVars>>

BootLayouts == SUBSET Pages
PartLayouts == {{0, 5}, {4}}
Symmetry == Permutations(CPUs) \cup Permutations(Cores) \cup Permutations(Slabs)

MemoryInit ==
    /\ part \in {"boot", "page", "slab", "early"}
    /\ PageInit /\ SlabInit /\ EarlyInit
    /\ part = "page" => reserved \in PartLayouts
    /\ part \in {"slab", "early"} => reserved = {}
    /\ part # "early" => ecur = 0

MemoryNext ==
    \/ part = "page" /\ PageNext /\ UNCHANGED <<part, slabVars, earlyVars>>
    \/ part = "slab" /\ SlabNext /\ UNCHANGED <<part, pageVars, earlyVars>>
    \/ part = "early" /\ EarlyNext /\ UNCHANGED <<part, pageVars, slabVars>>

MemorySpec == MemoryInit /\ [][MemoryNext]_all

\* A page is in one pool, one CPU's cache, one block handed out or reserved, tails
\* point at their head, free buddies are merged, and the boot allocator's regions
\* do not overlap (Page).
PagesInOnePlace == PageTypeOK /\ EarlyTypeOK /\ PagesAreOnce /\ TailsFollowHead /\ FreeBuddiesMerge /\ EarlyRegionsDisjoint
=============================================================================
