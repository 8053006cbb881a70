-------------------------------- MODULE Page --------------------------------
(***************************************************************************)
(* The physical page allocator of kernel/mm/page.c: a buddy system with    *)
(* one locked pool per order, a per-CPU cache of recently freed blocks in  *)
(* front of it, and reference counts on single pages.                      *)
(*                                                                         *)
(* The actors are the CPUs: the kernel is not preempted in kernel mode and *)
(* the allocator never sleeps, so a CPU runs one call at a time.  A step   *)
(* is what one critical section of a pool lock, of a cache or of the page  *)
(* locks does; a block in flight between two of them belongs to no list.   *)
(* Pages are numbered from KERNBASE, which is aligned to the largest block;*)
(* the ones below __managed_start are locked like the reserved ones.  The  *)
(* lists are sets: which of its free blocks a pool gives out is left open. *)
(***************************************************************************)
EXTENDS Integers, FiniteSets

CONSTANTS CPUs,       \* the CPUs calling the allocator
          NPages,     \* number of managed pages
          MaxOrder,   \* PAGE_BUDDY_MAX_ORDER
          CacheOrder, \* PCPU_CACHE_MAX_ORDER
          HotSize,    \* PCPU_HOT_PAGE_CACHE_SIZE: order-0 blocks a CPU keeps
          CacheSize,  \* PCPU_CACHE_SIZE: blocks of another order it keeps
          Layouts,    \* the sets of pages the device tree may reserve
          MaxRefs     \* bound on the references to one page

ASSUME PageSizes ==
    /\ NPages \in Nat \ {0} /\ MaxOrder \in Nat /\ CacheOrder \in 0 .. MaxOrder
    /\ HotSize \in Nat /\ CacheSize \in Nat /\ MaxRefs \in Nat \ {0}
    /\ Layouts \subseteq SUBSET (0 .. NPages - 1)

VARIABLES reserved,  \* the pages with PAGE_FLAG_LOCKED
          desc,      \* __pages: the page descriptors
          pool,      \* the headers in __buddy_pools[order]
          cached,    \* the headers in __pcpu_caches[cpu][order]
          call,      \* the call each CPU is in
          owned      \* the blocks in their callers' hands: <<header, order>>

pageVars == <<reserved, desc, pool, cached, call, owned>>

Pages == 0 .. NPages - 1
Orders == 0 .. MaxOrder
Block(p, o) == p .. p + 2 ^ o - 1
Idle == [pc |-> "idle", page |-> 0, order |-> 0, cur |-> 0, type |-> "anon"]

-----------------------------------------------------------------------------
(* page_buddy_init: the blocks of the free ranges between reserved pages.   *)

FreeRuns(locked) ==
    { <<a, b>> \in Pages \X (1 .. NPages) :
        /\ a < b /\ (a .. b - 1) \cap locked = {}
        /\ a = 0 \/ a - 1 \in locked
        /\ b = NPages \/ b \in locked }

\* __page_buddy_init_range: growing blocks up to the first aligned address of
\* each order, blocks of the largest order, then shrinking blocks.
InitRange(lo, hi) ==
    LET up[o \in Orders] ==
            IF o = 0 THEN [pa |-> lo, blocks |-> {}]
            ELSE LET s == up[o - 1]
                     size == 2 ^ (o - 1)
                 IN  IF hi - s.pa >= size /\ (s.pa \div size) % 2 = 1
                     THEN [pa |-> s.pa + size, blocks |-> s.blocks \cup {<<s.pa, o - 1>>}]
                     ELSE s
        start == up[MaxOrder].pa
        large == (hi - start) \div 2 ^ MaxOrder
        middle == { <<start + k * 2 ^ MaxOrder, MaxOrder>> : k \in 0 .. large - 1 }
        down[d \in 0 .. MaxOrder] ==   \* after the orders MaxOrder - 1 .. MaxOrder - d
            IF d = 0 THEN [pa |-> start + large * 2 ^ MaxOrder, blocks |-> {}]
            ELSE LET s == down[d - 1]
                     size == 2 ^ (MaxOrder - d)
                 IN  IF hi - s.pa >= size
                     THEN [pa |-> s.pa + size, blocks |-> s.blocks \cup {<<s.pa, MaxOrder - d>>}]
                     ELSE s
    IN  up[MaxOrder].blocks \cup middle \cup down[MaxOrder].blocks

InitBlocks(locked) == UNION { InitRange(r[1], r[2]) : r \in FreeRuns(locked) }

BlockOf(blocks, p) == CHOOSE b \in blocks : p \in Block(b[1], b[2])

\* What a descriptor says; a field of the union that the type does not select is 0.
Descriptor(t, o, st, h, n) == [type |-> t, order |-> o, state |-> st, head |-> h, ref |-> n]
Locked == Descriptor("locked", 0, "none", 0, 0)
Header(o, st) == Descriptor("buddy", o, st, 0, 0)       \* __page_as_buddy_header
TailOf(h) == Descriptor("tail", 0, "none", h, 0)          \* __page_as_buddy_tail
InUse(t, o) == Descriptor(t, IF t = "slab" THEN o ELSE 0, "none", 0, 1)  \* __page_reinit

\* The descriptors when the pages of ps become tails of h.
WithTails(d, ps, h) == [q \in Pages |-> IF q \in ps THEN TailOf(h) ELSE d[q]]

PageInit ==
    /\ reserved \in Layouts
    /\ LET blocks == InitBlocks(reserved) IN
       /\ pool = [o \in Orders |-> { b[1] : b \in { x \in blocks : x[2] = o } }]
       /\ desc = [p \in Pages |->
                    IF p \in reserved THEN Locked
                    ELSE LET b == BlockOf(blocks, p)
                         IN  IF b[1] = p THEN Header(b[2], "free") ELSE TailOf(b[1])]
    /\ cached = [c \in CPUs |-> [o \in 0 .. CacheOrder |-> {}]]
    /\ call = [c \in CPUs |-> Idle]
    /\ owned = {}

-----------------------------------------------------------------------------

\* The block p as its caller gets it: the header only when the type keeps its
\* tails (__page_type_supports_tail), else every page.  __slab_make records the
\* order of a slab as soon as it has the pages.
Reinit(p, o, t) ==
    LET whole == IF t = "slab" THEN {p} ELSE Block(p, o)
    IN  desc' = [q \in Pages |-> IF q \in whole THEN InUse(t, o) ELSE desc[q]]

\* __page_has_valid_tail_structure
HasValidTails(p, o) == desc[p].type \in {"buddy", "slab"} /\ desc[p].order = o

\* __page_as_buddy_group, or only the header when the tails are still right.
AsBuddyGroup(p, o, st) ==
    LET tails == IF HasValidTails(p, o) THEN {} ELSE Block(p, o) \ {p}
    IN  desc' = [WithTails(desc, tails, p) EXCEPT ![p] = Header(o, st)]

\* __page_is_freeable
Freeable(p) == desc[p].type # "locked" /\ desc[p].ref <= 1

CacheLimit(o) == IF o = 0 THEN HotSize ELSE CacheSize

-----------------------------------------------------------------------------
(* Allocation.                                                              *)

\* __buddy_get by way of __pcpu_cache_get: a hit in this CPU's cache.
CacheGet(c, o, t) ==
    /\ call[c].pc = "idle" /\ o <= CacheOrder
    /\ \E p \in cached[c][o] :
        /\ cached' = [cached EXCEPT ![c][o] = @ \ {p}]
        /\ Reinit(p, o, t)
        /\ owned' = owned \cup {<<p, o>>}
    /\ UNCHANGED <<reserved, pool, call>>

\* The cache is empty or the order too large: search the pools from here up.
GetFromPools(c, o, t) ==
    /\ call[c].pc = "idle" /\ (o <= CacheOrder => cached[c][o] = {})
    /\ call' = [call EXCEPT ![c] = [pc |-> "get", page |-> 0, order |-> o, cur |-> o, type |-> t]]
    /\ UNCHANGED <<reserved, desc, pool, cached, owned>>

\* One turn of the search loop of __buddy_get, under that pool's lock.
BuddyPop(c) ==
    LET k == call[c].cur IN
    /\ call[c].pc = "get"
    /\ \/ \E p \in pool[k] :
           /\ pool' = [pool EXCEPT ![k] = @ \ {p}]
           /\ desc' = [desc EXCEPT ![p].state = "intermediate"]
           /\ call' = [call EXCEPT ![c].pc = "split", ![c].page = p]
       \/ /\ pool[k] = {} /\ k < MaxOrder
          /\ call' = [call EXCEPT ![c].cur = k + 1]
          /\ UNCHANGED <<pool, desc>>
       \/ /\ pool[k] = {} /\ k = MaxOrder      \* page_alloc returns NULL
          /\ call' = [call EXCEPT ![c] = Idle]
          /\ UNCHANGED <<pool, desc>>
    /\ UNCHANGED <<reserved, cached, owned>>

\* __buddy_split writes both headers without a lock.
BuddySplit(c) ==
    LET p == call[c].page
        k == call[c].cur - 1
        b == p + 2 ^ k
    IN
    /\ call[c].pc = "split" /\ call[c].cur > call[c].order
    /\ desc' = [desc EXCEPT ![p].order = k, ![b] = Header(k, "intermediate")]
    /\ call' = [call EXCEPT ![c].pc = "push", ![c].cur = k]
    /\ UNCHANGED <<reserved, pool, cached, owned>>

\* The later half goes to its pool with its tails pointing to it
\* (__page_split_commit_later_half and __buddy_push_page).
PushHalf(c) ==
    LET k == call[c].cur
        b == call[c].page + 2 ^ k
    IN
    /\ call[c].pc = "push"
    /\ desc' = [WithTails(desc, Block(b, k) \ {b}, b) EXCEPT ![b] = Header(k, "free")]
    /\ pool' = [pool EXCEPT ![k] = @ \cup {b}]
    /\ call' = [call EXCEPT ![c].pc = "split"]
    /\ UNCHANGED <<reserved, cached, owned>>

\* The block has the order asked for: page_alloc returns it.
BuddyGot(c) ==
    LET p == call[c].page IN
    /\ call[c].pc = "split" /\ call[c].cur = call[c].order
    /\ Reinit(p, call[c].order, call[c].type)
    /\ owned' = owned \cup {<<p, call[c].order>>}
    /\ call' = [call EXCEPT ![c] = Idle]
    /\ UNCHANGED <<reserved, pool, cached>>

-----------------------------------------------------------------------------
(* Deallocation.                                                            *)

\* __pcpu_cache_put, or the header marked and __buddy_merge_and_insert begun.
CacheOrMerge(c, p, o) ==
    IF o <= CacheOrder /\ Cardinality(cached[c][o]) < CacheLimit(o)
    THEN /\ AsBuddyGroup(p, o, "cached")
         /\ cached' = [cached EXCEPT ![c][o] = @ \cup {p}]
         /\ call' = [call EXCEPT ![c] = Idle]
    ELSE /\ AsBuddyGroup(p, o, "intermediate")
         /\ call' = [call EXCEPT ![c] = [Idle EXCEPT !.pc = "merge", !.page = p, !.cur = o]]
         /\ UNCHANGED cached

\* __page_free of a whole block by its owner.
PageFree(c, p, o) ==
    /\ call[c].pc = "idle" /\ <<p, o>> \in owned
    /\ \A q \in Block(p, o) : Freeable(q)
    /\ CacheOrMerge(c, p, o)
    /\ owned' = owned \ {<<p, o>>}
    /\ UNCHANGED <<reserved, pool>>

\* __page_ref_inc and page_ref_inc_unlocked: refused once the count is 0.
RefInc(c, p) ==
    /\ call[c].pc = "idle" /\ <<p, 0>> \in owned /\ desc[p].type = "anon"
    /\ desc[p].ref \in 1 .. MaxRefs - 1
    /\ desc' = [desc EXCEPT ![p].ref = @ + 1]
    /\ UNCHANGED <<reserved, pool, cached, call, owned>>

\* page_ref_dec_unlocked: only a count of two or more goes down.
RefDecUnlocked(c, p) ==
    /\ call[c].pc = "idle" /\ <<p, 0>> \in owned /\ desc[p].type = "anon" /\ desc[p].ref >= 2
    /\ desc' = [desc EXCEPT ![p].ref = @ - 1]
    /\ UNCHANGED <<reserved, pool, cached, call, owned>>

\* __page_ref_dec: the count goes down under the page lock ...
RefDec(c, p) ==
    /\ call[c].pc = "idle" /\ <<p, 0>> \in owned /\ desc[p].type = "anon" /\ desc[p].ref >= 1
    /\ desc' = [desc EXCEPT ![p].ref = @ - 1]
    /\ IF desc[p].ref = 1
       THEN /\ call' = [call EXCEPT ![c] = [Idle EXCEPT !.pc = "put", !.page = p]]
            /\ owned' = owned \ {<<p, 0>>}
       ELSE UNCHANGED <<call, owned>>
    /\ UNCHANGED <<reserved, pool, cached>>

\* ... and the page goes back after the lock is dropped (__buddy_put).
BuddyPut(c) ==
    /\ call[c].pc = "put" /\ Freeable(call[c].page)
    /\ CacheOrMerge(c, call[c].page, 0)
    /\ UNCHANGED <<reserved, pool, owned>>

\* __get_buddy_addr
BuddyOf(p, k) == IF (p \div 2 ^ k) % 2 = 0 THEN p + 2 ^ k ELSE p - 2 ^ k

\* LIST_ENTRY_IS_DETACHED
Linked(p) == \/ \E o \in Orders : p \in pool[o]
             \/ \E c \in CPUs, o \in 0 .. CacheOrder : p \in cached[c][o]

\* __lock_get_buddy_page: may the block at b be merged with one of order k?
\* Bug: a buddy in a CPU's cache is taken for a free one.
IgnoresState(b, k) ==
    b \in Pages /\ desc[b].type = "buddy" /\ desc[b].order = k /\ Linked(b)

MergesWith(b, k) ==
    /\ b \in Pages /\ desc[b].type = "buddy" /\ desc[b].order = k
    /\ Linked(b) /\ desc[b].state = "free"

\* One turn of __buddy_merge_and_insert under the lock of pool k: take the buddy
\* out of the pool, or put the block in.
MergeStep(c) ==
    LET p == call[c].page
        k == call[c].cur
        b == BuddyOf(p, k)
    IN
    /\ call[c].pc = "merge"
    /\ IF k < MaxOrder /\ MergesWith(b, k)
       THEN /\ pool' = [pool EXCEPT ![k] = @ \ {b}]
            /\ desc' = [desc EXCEPT ![b].state = "intermediate"]
            /\ call' = [call EXCEPT ![c].pc = "join"]
       ELSE /\ pool' = [pool EXCEPT ![k] = @ \cup {p}]
            /\ desc' = [desc EXCEPT ![p].state = "free"]
            /\ call' = [call EXCEPT ![c] = Idle]
    /\ UNCHANGED <<reserved, cached, owned>>

\* __buddy_merge and __page_merge_commit_later_half, under both page locks.
JoinHalves(c) ==
    LET p == call[c].page
        k == call[c].cur
        m == IF p < BuddyOf(p, k) THEN p ELSE BuddyOf(p, k)
    IN
    /\ call[c].pc = "join"
    /\ desc' = [WithTails(desc, Block(m + 2 ^ k, k), m) EXCEPT ![m].order = k + 1]
    /\ call' = [call EXCEPT ![c].pc = "merge", ![c].page = m, ![c].cur = k + 1]
    /\ UNCHANGED <<reserved, pool, cached, owned>>

PageNext ==
    \E c \in CPUs :
        \/ \E o \in Orders, t \in {"anon", "slab"} : CacheGet(c, o, t) \/ GetFromPools(c, o, t)
        \/ BuddyPop(c) \/ BuddySplit(c) \/ PushHalf(c) \/ BuddyGot(c)
        \/ \E b \in owned : PageFree(c, b[1], b[2])
        \/ \E p \in Pages : RefInc(c, p) \/ RefDec(c, p) \/ RefDecUnlocked(c, p)
        \/ BuddyPut(c) \/ MergeStep(c) \/ JoinHalves(c)

PageSpec == PageInit /\ [][PageNext]_pageVars

-----------------------------------------------------------------------------

PageTypeOK ==
    /\ reserved \in Layouts
    /\ desc \in [Pages -> [type : {"locked", "buddy", "tail", "anon", "slab"}, order : Orders,
                            state : {"none", "free", "intermediate", "cached"},
                            head : Pages, ref : 0 .. MaxRefs]]
    /\ pool \in [Orders -> SUBSET Pages]
    /\ cached \in [CPUs -> [0 .. CacheOrder -> SUBSET Pages]]
    /\ owned \subseteq Pages \X Orders
    /\ call \in [CPUs -> [pc : {"idle", "get", "split", "push", "put", "merge", "join"},
                            page : Pages, order : Orders, cur : Orders, type : {"anon", "slab"}]]

PoolBlocks == { <<p, o>> \in Pages \X Orders : p \in pool[o] }
CacheBlocks(c) == { <<p, o>> \in Pages \X (0 .. CacheOrder) : p \in cached[c][o] }

\* The blocks a CPU holds between two critical sections.
InFlight(c) ==
    LET k == call[c].cur
        p == call[c].page
    IN  CASE call[c].pc \in {"split", "merge"} -> {<<p, k>>}
          [] call[c].pc = "put" -> {<<p, 0>>}
          [] call[c].pc = "push" -> {<<p, k>>, <<p + 2 ^ k, k>>}
          [] call[c].pc = "join" -> {<<p, k>>, <<BuddyOf(p, k), k>>}
          [] OTHER -> {}

\* Every page that is not reserved lies in exactly one block, and every block in
\* exactly one place: a pool, a CPU's cache, a caller's hands or a call in
\* progress.  No page is lost and none is given out twice, whatever the pools'
\* and caches' critical sections do in between (__buddy_get against
\* __buddy_merge_and_insert).
PagesAreOnce ==
    LET holders == {PoolBlocks, owned} \cup { CacheBlocks(c) : c \in CPUs }
                                      \cup { InFlight(c) : c \in CPUs }
    IN  /\ \A p \in Pages \ reserved :
            Cardinality({ b \in UNION holders : p \in Block(b[1], b[2]) }) = 1
        /\ \A b \in UNION holders : b[1] % 2 ^ b[2] = 0 /\ Block(b[1], b[2]) \cap reserved = {}
        /\ \A p \in Pages \ reserved :
            Cardinality({ o \in Orders : p \in pool[o] })
              + Cardinality({ c \in CPUs : \E o \in 0 .. CacheOrder : p \in cached[c][o] })
              + Cardinality({ c \in CPUs : \E b \in InFlight(c) : b[1] = p })
              + Cardinality({ b \in owned : b[1] = p }) <= 1

\* What freeing without rewriting the tails relies on
\* (__page_as_buddy_group_preserve_tails): the tails of a block that is free,
\* cached or a slab point to its header, and its header records its order.
TailsFollowHead ==
    \A b \in PoolBlocks \cup UNION { CacheBlocks(c) : c \in CPUs }
             \cup { x \in owned : desc[x[1]].type = "slab" } :
        /\ desc[b[1]].order = b[2]
        /\ b \in PoolBlocks => desc[b[1]].type = "buddy" /\ desc[b[1]].state = "free"
        /\ \A q \in Block(b[1], b[2]) \ {b[1]} : desc[q] = TailOf(b[1])

\* Two buddies never lie side by side in a pool: whoever frees the second one
\* merges them, although each may be freed while the other is in flight.
FreeBuddiesMerge ==
    \A b \in PoolBlocks : b[2] < MaxOrder => BuddyOf(b[1], b[2]) \notin pool[b[2]]

(***************************************************************************)
(* The boot allocator of kernel/mm/early_allocator.c, used by one CPU      *)
(* before the page allocator exists: it advances a pointer, keeps what     *)
(* alignment leaves over as power-of-two chunks in free lists, and serves  *)
(* small requests from them.  Addresses count the smallest unit.           *)
(***************************************************************************)
CONSTANTS MemEnd,      \* first address after the memory
          SmallOrder,  \* EARLYALLOC_SMALLEST_ORDER
          LargeOrder,  \* EARLYALLOC_LARGEST_ORDER
          Starts,      \* where the memory may begin
          MaxSize      \* largest request

ASSUME EarlySizes ==
    /\ SmallOrder \in Nat /\ LargeOrder \in Nat /\ SmallOrder <= LargeOrder
    /\ MemEnd \in Nat /\ Starts \subseteq 0 .. MemEnd /\ MaxSize \in Nat

VARIABLES ecur,    \* earalloc_params.current
          chunks,  \* earalloc_params.free_lists: <<address, order>>
          given    \* the regions handed out: <<address, size asked for>>

earlyVars == <<ecur, chunks, given>>

AlignUp(a, n) == ((a + n - 1) \div n) * n
ChunkOrders == SmallOrder .. LargeOrder
SizeOrder(n) == CHOOSE k \in 0 .. n : 2 ^ k >= n /\ \A j \in 0 .. k - 1 : 2 ^ j < n
Bytes(a, n) == a .. a + n - 1

EarlyInit ==
    /\ \E a \in Starts : ecur = AlignUp(a, 2 ^ SmallOrder) /\ ecur < MemEnd
    /\ chunks = {} /\ given = {}

\* __free_region_to_chunks: from lo on, the largest aligned chunk that fits; an
\* address where none does is skipped.
RegionChunks(lo, hi) ==
    LET at[a \in lo .. hi] ==
            LET fits == { k \in ChunkOrders : a % 2 ^ k = 0 /\ a + 2 ^ k <= hi }
            IN  IF a = hi THEN {}
                ELSE IF fits = {} THEN at[a + 1]
                ELSE LET k == CHOOSE k \in fits : \A j \in fits : j <= k
                     IN  {<<a, k>>} \cup at[a + 2 ^ k]
    IN  at[lo]

\* Advance the pointer past n bytes aligned to a boundary, which must be there.
Advance(n, boundary, asked) ==
    LET a == AlignUp(ecur, boundary) IN
    /\ a + n <= MemEnd
    /\ chunks' = chunks \cup RegionChunks(ecur, a)
    /\ ecur' = a + n
    /\ given' = given \cup {<<a, asked>>}

\* A small request: a chunk of the order, or a larger one split down to it with
\* the upper halves going back (__get_chunk_from_freelist), or the pointer.
EarlyAllocSmall(n) ==
    LET k == SizeOrder(IF n < 2 ^ SmallOrder THEN 2 ^ SmallOrder ELSE n)
        larger == { c[2] : c \in { x \in chunks : x[2] >= k } }
    IN
    /\ n > 0 /\ k <= LargeOrder
    /\ IF larger = {} THEN Advance(2 ^ k, 2 ^ k, n)
       ELSE LET o == CHOOSE o \in larger : \A j \in larger : o <= j IN
            \E c \in { x \in chunks : x[2] = o } :
                /\ chunks' = (chunks \ {c}) \cup { <<c[1] + 2 ^ j, j>> : j \in k .. o - 1 }
                /\ given' = given \cup {<<c[1], n>>}
                /\ UNCHANGED ecur

\* A request larger than the largest chunk (__alloc_by_advancing).
EarlyAllocLarge(n, boundary) ==
    /\ SizeOrder(n) > LargeOrder
    /\ Advance(n, boundary, n)

EarlyNext ==
    \E n \in 1 .. MaxSize :
        \/ EarlyAllocSmall(n)
        \/ \E k \in 0 .. LargeOrder : EarlyAllocLarge(n, 2 ^ k)

EarlySpec == EarlyInit /\ [][EarlyNext]_earlyVars

EarlyTypeOK ==
    /\ ecur \in 0 .. MemEnd
    /\ chunks \subseteq (0 .. MemEnd) \X ChunkOrders
    /\ given \subseteq (0 .. MemEnd) \X (1 .. MaxSize)

\* No two regions handed out overlap, none overlaps a free chunk or the memory
\* after the pointer, which becomes the page allocator's (early_alloc_end_ptr),
\* and a free chunk stays aligned to its size however often it is split.
EarlyRegionsDisjoint ==
    /\ \A g, h \in given : g = h \/ Bytes(g[1], g[2]) \cap Bytes(h[1], h[2]) = {}
    /\ \A g \in given : g[1] + g[2] <= ecur
    /\ \A c \in chunks :
        /\ c[1] % 2 ^ c[2] = 0 /\ c[1] + 2 ^ c[2] <= ecur
        /\ \A g \in given : Bytes(g[1], g[2]) \cap Bytes(c[1], 2 ^ c[2]) = {}
        /\ \A d \in chunks : c = d \/ Bytes(c[1], 2 ^ c[2]) \cap Bytes(d[1], 2 ^ d[2]) = {}
=============================================================================
