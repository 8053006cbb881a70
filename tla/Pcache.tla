------------------------------- MODULE Pcache -------------------------------
(***************************************************************************)
(* The page cache (kernel/mm/pcache.c): one pcache with its red-black tree, *)
(* LRU and dirty lists, the users that get, read, write and put pages, the  *)
(* flush worker, the flusher thread, and the teardown of the pcache while   *)
(* they run.                                                                *)
(*                                                                          *)
(* A step is one critical section of the pcache spinlock (the page lock and *)
(* the tree lock nest inside it), or one step outside of it: a tree lookup, *)
(* a device transfer, the end of an I/O.  A page frame and its pcache_node  *)
(* are one thing; a frame outlives its node.  Page contents are reduced to  *)
(* whether the copy in memory is newer than the one on the device.  Of the  *)
(* clock only this is kept: which pages have last_flushed > start_jiffs of  *)
(* the worker; it may move, or not, before any transfer ends.               *)
(* Completions are taken at their word (module Completion), and so are the  *)
(* channel sleeps of the scheduler.                                         *)
(***************************************************************************)
EXTENDS Integers, Sequences, FiniteSets, SequencesExt

CONSTANTS Users,     \* threads calling the pcache operations
          Blocks,    \* page-aligned block numbers below blk_count
          Frames,    \* page frames the allocator can hand out
          MaxPages,  \* pcache->max_pages
          None       \* NULL

ASSUME PcacheAssumption ==
    /\ MaxPages \in Nat \ {0} /\ None \notin Frames \cup Blocks
    /\ IsFiniteSet(Users) /\ IsFiniteSet(Frames)

VARIABLES
    page_map,         \* the tree: block -> page or None
    frame_owner,      \* of a frame: "free", "fresh", "cached", "orphan"
    blkno,            \* pcnode->blkno
    ref,              \* page->ref_count
    dirty, uptodate, io_in_progress,   \* the flags of pcache_node, as sets
    lru, dirty_list,                   \* the two lists a node can be linked in
    page_count, lru_count, dirty_count,
    active, flush_requested,
    flush_complete,   \* pcache->flush_completion is done
    registered,       \* on __global_pcache_list
    wait_refcount,
    pc, at, want,     \* of a user: where it is, with which page, for which block
    wpc, wpage,       \* the flush worker and the page it writes
    fpc,              \* the flusher thread
    td,               \* progress of pcache_teardown
    recent,           \* pages with last_flushed > start_jiffs of the worker
    unsaved           \* history: pages with data the device does not have and
                      \* that the code has not given up (see MarkDirtyReturns)

pagevars == <<page_map, frame_owner, blkno, ref>>
flagvars == <<dirty, uptodate, io_in_progress>>
listvars == <<lru, dirty_list, lru_count, dirty_count>>
flushvars == <<flush_requested, flush_complete, wpc>>
lifevars == <<active, registered, wait_refcount, fpc, td>>
uservars == <<pc, at, want>>
pcVars == <<pagevars, flagvars, listvars, page_count, flushvars, wpage, lifevars,
          uservars, recent, unsaved>>

Valid(p) == frame_owner[p] = "cached"
InLists(p) == p \in Range(lru) \cup Range(dirty_list)
Without(s, p) == SelectSeq(s, LAMBDA q : q # p)
SetOwner(S, o) == [p \in Frames |-> IF p \in S THEN o ELSE frame_owner[p]]
SetRef(S, n) == [p \in Frames |-> IF p \in S THEN n ELSE ref[p]]
Unmap(S) == [b \in Blocks |-> IF page_map[b] \in S THEN None ELSE page_map[b]]
GoesTo(u, l) == pc' = [pc EXCEPT ![u] = l]

\* A step of u that changes nothing but its place.
Move(u, l) ==
    /\ GoesTo(u, l)
    /\ UNCHANGED <<pagevars, flagvars, listvars, page_count, flushvars, wpage,
                   lifevars, at, want, recent, unsaved>>

\* pcache_init() on a zeroed structure.
PcacheInit ==
    /\ page_map = [b \in Blocks |-> None]
    /\ lru = <<>> /\ dirty_list = <<>>
    /\ page_count = 0 /\ lru_count = 0 /\ dirty_count = 0
    /\ active = TRUE /\ flush_requested = FALSE /\ flush_complete = TRUE
    /\ registered = TRUE /\ wait_refcount = 0

PcInit ==
    /\ PcacheInit
    /\ frame_owner = [p \in Frames |-> "free"]
    /\ blkno = [p \in Frames |-> None]
    /\ ref = [p \in Frames |-> 0]
    /\ dirty = {} /\ uptodate = {} /\ io_in_progress = {}
    /\ pc = [u \in Users |-> "idle"]
    /\ at = [u \in Users |-> None]
    /\ want = [u \in Users |-> None]
    /\ wpc = "idle" /\ wpage = None
    /\ fpc = "sleep" /\ td = "no"
    /\ recent = {}
    /\ unsaved = {}

-----------------------------------------------------------------------------
\* Helpers of the critical sections.

\* __pcache_queue_work(): at most one work item is outstanding.
QueueWork ==
    IF flush_requested THEN UNCHANGED flushvars
    ELSE /\ flush_requested' = TRUE
         /\ flush_complete' = FALSE
         /\ wpc' = "queued"

\* __pcache_remove_lru(): unlinks from whichever list, counts by the dirty flag.
RemoveLru(p) ==
    /\ lru' = Without(lru, p)
    /\ dirty_list' = Without(dirty_list, p)
    /\ dirty_count' = IF p \in dirty THEN dirty_count - 1 ELSE dirty_count
    /\ lru_count' = IF p \in dirty THEN lru_count ELSE lru_count - 1

Unlink(p) == IF InLists(p) THEN RemoveLru(p) ELSE UNCHANGED listvars

PushLru(p) ==
    /\ lru' = Append(lru, p)
    /\ lru_count' = lru_count + 1
    /\ UNCHANGED <<dirty_list, dirty_count>>

PushDirty(p) ==
    /\ dirty_list' = Append(Without(dirty_list, p), p)
    /\ lru' = Without(lru, p)
    /\ dirty_count' = IF InLists(p) THEN dirty_count ELSE dirty_count + 1
    /\ UNCHANGED lru_count

\* mark_page_dirty() on a clean page: off the LRU list, on the dirty list.
ClaimDirty(p) ==
    /\ lru' = Without(lru, p)
    /\ lru_count' = IF InLists(p) THEN lru_count - 1 ELSE lru_count
    /\ dirty_list' = Append(Without(dirty_list, p), p)
    /\ dirty_count' = dirty_count + 1

\* slab_free() of the nodes of V: their flags, block number and history go.
FreeNodes(V) ==
    /\ blkno' = [p \in Frames |-> IF p \in V THEN None ELSE blkno[p]]
    /\ dirty' = dirty \ V /\ uptodate' = uptodate \ V
    /\ recent' = recent \ V
    /\ unsaved' = unsaved \ V

\* Where wakeup_on_chan(pcache) leaves the sleepers of pcache_get_page().
WakeChan(l) == IF l = "asleep" THEN "insert" ELSE l

\* __pcache_node_io_end() as user or worker: last_flushed = now, wake io_waiters.
IoEndTime(p) ==
    recent' \in IF wpc = "idle" \/ wpc = "queued" THEN {{}}
               ELSE {recent, recent \cup {p}}
IoWake(p) == [u \in Users |->
                IF at[u] = p /\ pc[u] = "iosleep" THEN "iocheck" ELSE pc[u]]

-----------------------------------------------------------------------------
\* pcache_get_page().

\* The caller starts, or goes back to retry_lookup.  Only an active pcache that
\* is not being torn down has callers.
Asks(u, b) ==
    \/ pc[u] = "idle" /\ td = "no" /\ active
    \/ pc[u] = "lookup" /\ want[u] = b

\* The lookup holds the tree lock only; nothing keeps the page until Validate.
Lookup(u, b) ==
    /\ Asks(u, b) /\ page_map[b] # None
    /\ at' = [at EXCEPT ![u] = page_map[b]]
    /\ want' = [want EXCEPT ![u] = b]
    /\ GoesTo(u, "validate")
    /\ UNCHANGED <<pagevars, flagvars, listvars, page_count, flushvars, wpage,
                   lifevars, recent, unsaved>>

\* Under the locks: still this pcache's page, still the block asked for.
StillWanted(p, b) == Valid(p) /\ blkno[p] = b

Validate(u) ==
    LET p == at[u] IN
    /\ pc[u] = "validate" /\ StillWanted(p, want[u])
    /\ IF p \notin dirty THEN Unlink(p) ELSE UNCHANGED listvars
    /\ ref' = [ref EXCEPT ![p] = @ + 1]
    /\ want' = [want EXCEPT ![u] = None]
    /\ GoesTo(u, "held")
    /\ UNCHANGED <<page_map, frame_owner, blkno, flagvars, page_count, flushvars, wpage,
                   lifevars, at, recent, unsaved>>

ValidateFails(u) ==
    /\ pc[u] = "validate" /\ ~StillWanted(at[u], want[u])
    /\ at' = [at EXCEPT ![u] = None]
    /\ GoesTo(u, "lookup")
    /\ UNCHANGED <<pagevars, flagvars, listvars, page_count, flushvars, wpage,
                   lifevars, want, recent, unsaved>>

\* A miss; or the node found was freed before its page field was read, and the
\* freed memory says NULL.
Missed(u, b) ==
    \/ Asks(u, b) /\ page_map[b] = None
    \/ pc[u] = "validate" /\ want[u] = b /\ ~Valid(at[u])

\* __pcache_page_alloc() and the initialisation of the fresh node.
AllocFresh(u, b) ==
    /\ Missed(u, b)
    /\ \E p \in Frames :
        /\ frame_owner[p] = "free"
        /\ frame_owner' = SetOwner({p}, "fresh")
        /\ ref' = SetRef({p}, 1)
        /\ blkno' = [blkno EXCEPT ![p] = b]
        /\ at' = [at EXCEPT ![u] = p]
    /\ want' = [want EXCEPT ![u] = b]
    /\ GoesTo(u, "insert")
    /\ UNCHANGED <<page_map, flagvars, listvars, page_count, flushvars, wpage,
                   lifevars, recent, unsaved>>

AllocFails(u, b) ==
    /\ Missed(u, b) /\ \A p \in Frames : frame_owner[p] # "free"
    /\ at' = [at EXCEPT ![u] = None]
    /\ want' = [want EXCEPT ![u] = None]
    /\ GoesTo(u, "idle")
    /\ UNCHANGED <<pagevars, flagvars, listvars, page_count, flushvars, wpage,
                   lifevars, recent, unsaved>>

\* No room and nothing to evict: kick the worker if it can help, and sleep.
SleepForRoom(u) ==
    /\ pc[u] = "insert" /\ page_count >= MaxPages /\ lru = <<>>
    /\ IF dirty_count > 0 THEN QueueWork ELSE UNCHANGED flushvars
    /\ GoesTo(u, "asleep")
    /\ UNCHANGED <<pagevars, flagvars, listvars, page_count, wpage, lifevars, at,
                   want, recent, unsaved>>

\* __pcache_evict_lru() while the pcache is full: the last page of the list.
Victims == IF page_count >= MaxPages THEN {Last(lru)} ELSE {}

CanInsert(u) == pc[u] = "insert" /\ (page_count < MaxPages \/ lru # <<>>)

\* Insertion into the tree, attachment and the caller's reference.
InsertNew(u) ==
    LET p == at[u]
        V == Victims IN
    /\ CanInsert(u) /\ page_map[want[u]] \in V \cup {None}
    /\ frame_owner' = [SetOwner(V, "free") EXCEPT ![p] = "cached"]
    /\ ref' = [SetRef(V, 0) EXCEPT ![p] = 2]
    /\ page_map' = [Unmap(V) EXCEPT ![want[u]] = p]
    /\ page_count' = page_count - Cardinality(V) + 1
    /\ lru' = IF V = {} THEN lru ELSE Front(lru)
    /\ lru_count' = lru_count - Cardinality(V)
    /\ FreeNodes(V)
    /\ want' = [want EXCEPT ![u] = None]
    /\ GoesTo(u, "held")
    /\ UNCHANGED <<io_in_progress, dirty_list, dirty_count, flushvars, wpage,
                   lifevars, at>>

\* Another thread inserted the block first: drop the fresh page and start over.
InsertLost(u) ==
    LET V == Victims IN
    /\ CanInsert(u) /\ page_map[want[u]] \notin V \cup {None}
    /\ frame_owner' = SetOwner(V \cup {at[u]}, "free")
    /\ ref' = SetRef(V \cup {at[u]}, 0)
    /\ page_map' = Unmap(V)
    /\ page_count' = page_count - Cardinality(V)
    /\ lru' = IF V = {} THEN lru ELSE Front(lru)
    /\ lru_count' = lru_count - Cardinality(V)
    /\ FreeNodes(V \cup {at[u]})
    /\ at' = [at EXCEPT ![u] = None]
    /\ GoesTo(u, "lookup")
    /\ UNCHANGED <<io_in_progress, dirty_list, dirty_count, flushvars, wpage,
                   lifevars, want>>

-----------------------------------------------------------------------------
\* pcache_read_page() on a held page.

Usable(p) == active /\ Valid(p) /\ ref[p] >= 2

\* The contents are there, under I/O or not.
ReadHit(u) ==
    /\ pc[u] = "held" /\ Usable(at[u]) /\ at[u] \in uptodate
    /\ Move(u, "ready")

\* The error returns: torn down, discarded, no reference, odd state in I/O.
ReadRefused(u) ==
    LET p == at[u] IN
    /\ pc[u] = "held" /\ (~Usable(p) \/ p \in (io_in_progress \cap dirty) \ uptodate)
    /\ Move(u, "put")

\* Somebody else reads the page: __pcache_node_io_wait().
ReadWait(u) ==
    LET p == at[u] IN
    /\ pc[u] = "held" /\ Usable(p)
    /\ p \in io_in_progress /\ p \notin uptodate /\ p \notin dirty
    /\ Move(u, "iocheck")

\* The test of io_in_progress and the queueing are both under the tree's READ
\* lock, which io_end() holds as a reader too: they are separate steps.
IoCheck(u) ==
    /\ pc[u] = "iocheck"
    /\ Move(u, IF at[u] \in io_in_progress THEN "iopush" ELSE "held")

IoSleep(u) ==
    /\ pc[u] = "iopush"
    /\ Move(u, "iosleep")

ReadBegin(u) ==
    LET p == at[u] IN
    /\ pc[u] = "held" /\ Usable(p)
    /\ p \notin io_in_progress /\ p \notin uptodate
    /\ io_in_progress' = io_in_progress \cup {p}
    /\ GoesTo(u, "reading")
    /\ UNCHANGED <<pagevars, dirty, uptodate, listvars, page_count, flushvars, wpage,
                   lifevars, at, want, recent, unsaved>>

\* The device read, outside of the locks.
ReadDevice(u) ==
    /\ pc[u] = "reading"
    /\ unsaved' = unsaved \ {at[u]}
    /\ GoesTo(u, "readpost")
    /\ UNCHANGED <<pagevars, flagvars, listvars, page_count, flushvars, wpage,
                   lifevars, at, want, recent>>

ReadError(u) ==
    LET p == at[u] IN
    /\ pc[u] = "reading"
    /\ io_in_progress' = io_in_progress \ {p}
    /\ IoEndTime(p)
    /\ pc' = [IoWake(p) EXCEPT ![u] = "put"]
    /\ UNCHANGED <<pagevars, dirty, uptodate, listvars, page_count, flushvars, wpage,
                   lifevars, at, want, unsaved>>

\* Back under the locks; the I/O is ended after they are released.
ReadPost(u) ==
    LET p == at[u] IN
    /\ pc[u] = "readpost" /\ Valid(p)
    /\ Unlink(p)
    /\ dirty' = dirty \ {p}
    /\ uptodate' = uptodate \cup {p}
    /\ GoesTo(u, "readend")
    /\ UNCHANGED <<pagevars, io_in_progress, page_count, flushvars, wpage, lifevars,
                   at, want, recent, unsaved>>

ReadEnd(u) ==
    LET p == at[u] IN
    /\ pc[u] = "readend"
    /\ io_in_progress' = io_in_progress \ {p}
    /\ IoEndTime(p)
    /\ pc' = [IoWake(p) EXCEPT ![u] = "ready"]
    /\ UNCHANGED <<pagevars, dirty, uptodate, listvars, page_count, flushvars, wpage,
                   lifevars, at, want, unsaved>>
-----------------------------------------------------------------------------
\* Writing, marking, putting.

\* The caller copies its data into the page; no pcache lock is held.
WritePage(u) ==
    /\ pc[u] = "ready"
    /\ unsaved' = unsaved \cup {at[u]}
    /\ GoesTo(u, "wrote")
    /\ UNCHANGED <<pagevars, flagvars, listvars, page_count, flushvars, wpage,
                   lifevars, at, want, recent>>

\* pcache_mark_page_dirty() on a page that is neither dirty nor in I/O.
MarkDirty(u) ==
    LET p == at[u] IN
    /\ pc[u] = "wrote" /\ Valid(p) /\ p \notin dirty /\ p \notin io_in_progress
    /\ dirty' = dirty \cup {p}
    /\ uptodate' = uptodate \cup {p}
    /\ ClaimDirty(p)
    /\ GoesTo(u, "put")
    /\ UNCHANGED <<pagevars, io_in_progress, page_count, flushvars, wpage, lifevars,
                   at, want, recent, unsaved>>

\* It returns at once when the page is dirty already, in I/O or no longer
\* cached; the callers ignore what it returns.  A page in I/O is marked clean
\* when the I/O ends, so what was written to it meanwhile is given up here.
MarkDirtyReturns(u) ==
    LET p == at[u] IN
    /\ pc[u] = "wrote" /\ (Valid(p) => p \in dirty \cup io_in_progress)
    /\ unsaved' = unsaved \ io_in_progress
    /\ GoesTo(u, "put")
    /\ UNCHANGED <<pagevars, flagvars, listvars, page_count, flushvars, wpage,
                   lifevars, at, want, recent>>

Putting(u) == pc[u] \in {"ready", "put"}

Leave(u, newpc) ==
    /\ pc' = [newpc EXCEPT ![u] = "idle"]
    /\ at' = [at EXCEPT ![u] = None]
    /\ UNCHANGED want

\* pcache_put_page() when the cache's own reference is all that is left: a clean
\* page goes on the LRU list, a dirty one must be on the dirty list.
PutLists(p) ==
    CASE p \in dirty /\ ~InLists(p) -> PushDirty(p)
      [] p \notin dirty /\ ~InLists(p) -> PushLru(p)
      [] p \notin dirty \cup uptodate /\ InLists(p) -> RemoveLru(p)
      [] OTHER -> UNCHANGED listvars

IsStale(p) == ref[p] = 2 /\ p \notin dirty \cup uptodate /\ ~InLists(p)

PutPage(u) ==
    LET p == at[u]
        last == ref[p] = 2
        wakes == last /\ p \notin dirty /\ ~InLists(p) IN
    /\ Putting(u) /\ Valid(p) /\ ref[p] >= 2 /\ ~IsStale(p)
    /\ ref' = [ref EXCEPT ![p] = @ - 1]
    /\ IF last THEN PutLists(p) ELSE UNCHANGED listvars
    /\ Leave(u, IF wakes THEN [v \in Users |-> WakeChan(pc[v])] ELSE pc)
    /\ UNCHANGED <<page_map, frame_owner, blkno, flagvars, page_count, flushvars, wpage,
                   lifevars, recent, unsaved>>

\* ... and the last user of a stale page drops it from the cache.
PutStale(u) ==
    LET p == at[u] IN
    /\ Putting(u) /\ Valid(p) /\ IsStale(p)
    /\ frame_owner' = SetOwner({p}, "free")
    /\ ref' = SetRef({p}, 0)
    /\ page_map' = Unmap({p})
    /\ page_count' = page_count - 1
    /\ FreeNodes({p})
    /\ Leave(u, [v \in Users |-> WakeChan(pc[v])])
    /\ UNCHANGED <<io_in_progress, listvars, flushvars, wpage, lifevars>>

\* A page discarded under its user is "invalid": the reference is kept for ever.
PutInvalid(u) ==
    /\ Putting(u) /\ (~Valid(at[u]) \/ ref[at[u]] < 2)
    /\ Leave(u, pc)
    /\ UNCHANGED <<pagevars, flagvars, listvars, page_count, flushvars, wpage,
                   lifevars, recent, unsaved>>

\* pcache_invalidate_page() and pcache_invalidate_blk().
Invalidate(b) ==
    LET p == page_map[b] IN
    /\ td = "no" /\ p # None /\ p \notin io_in_progress
    /\ Unlink(p)
    /\ dirty' = dirty \ {p} /\ uptodate' = uptodate \ {p}
    /\ unsaved' = unsaved \ {p}
    /\ UNCHANGED <<pagevars, io_in_progress, page_count, flushvars, wpage, lifevars,
                   uservars, recent>>

\* pcache_discard_blk(): the cache's reference is dropped with the page.
Discard(b) ==
    LET p == page_map[b] IN
    /\ td = "no" /\ p # None /\ p \notin io_in_progress
    /\ Unlink(p)
    /\ page_map' = [page_map EXCEPT ![b] = None]
    /\ page_count' = page_count - 1
    /\ frame_owner' = SetOwner({p}, IF ref[p] = 1 THEN "free" ELSE "orphan")
    /\ ref' = [ref EXCEPT ![p] = @ - 1]
    /\ FreeNodes({p})
    /\ UNCHANGED <<io_in_progress, flushvars, wpage, lifevars, uservars>>

\* pcache_flush(): queue the work and wait for its completion.
Flush(u) ==
    /\ pc[u] = "idle" /\ td = "no" /\ active
    /\ QueueWork
    /\ GoesTo(u, "flushing")
    /\ UNCHANGED <<pagevars, flagvars, listvars, page_count, wpage, lifevars, at, want,
                   recent, unsaved>>

FlushReturns(u) ==
    /\ pc[u] = "flushing" /\ flush_complete
    /\ Move(u, "idle")

-----------------------------------------------------------------------------
\* __pcache_flush_worker().

WorkerStart ==
    /\ wpc = "queued"
    /\ wpc' = "loop"
    /\ recent' = {}
    /\ UNCHANGED <<pagevars, flagvars, listvars, page_count, flush_requested,
                   flush_complete, wpage, lifevars, uservars, unsaved>>

\* __pcache_pop_dirty() looks at the newest entry only.
PopDirty == IF dirty_list = <<>> THEN None
            ELSE IF Last(dirty_list) \in recent THEN None ELSE Last(dirty_list)

WorkerPop ==
    LET p == PopDirty IN
    /\ wpc = "loop" /\ p # None
    /\ dirty_list' = Front(dirty_list)
    /\ dirty_count' = dirty_count - 1
    /\ ref' = [ref EXCEPT ![p] = @ + 1]
    /\ io_in_progress' = io_in_progress \cup {p}
    /\ wpage' = p /\ wpc' = "write"
    /\ UNCHANGED <<page_map, frame_owner, blkno, dirty, uptodate, lru, lru_count, page_count,
                   flush_requested, flush_complete, lifevars, uservars, recent,
                   unsaved>>

\* write_begin, write_page and write_end, outside of the locks.
WorkerWrite ==
    /\ wpc = "write"
    /\ unsaved' = unsaved \ {wpage}
    /\ wpc' = "written"
    /\ UNCHANGED <<pagevars, flagvars, listvars, page_count, flush_requested,
                   flush_complete, wpage, lifevars, uservars, recent>>

WorkerEnd ==
    LET p == wpage
        last == ref[p] = 2 /\ ~InLists(p)
        pc1 == IoWake(p) IN
    /\ wpc = "written"
    /\ dirty' = dirty \ {p}
    /\ uptodate' = uptodate \cup {p}
    /\ io_in_progress' = io_in_progress \ {p}
    /\ IoEndTime(p)
    /\ ref' = [ref EXCEPT ![p] = @ - 1]
    /\ IF last THEN PushLru(p) ELSE UNCHANGED listvars
    /\ pc' = IF last THEN [u \in Users |-> WakeChan(pc1[u])] ELSE pc1
    /\ wpage' = None /\ wpc' = "loop"
    /\ UNCHANGED <<page_map, frame_owner, blkno, page_count, flush_requested, flush_complete,
                   lifevars, at, want, unsaved>>

\* Bug: a failed write does not drop the worker's reference.
WorkerErrorKeepsRef ==
    LET p == wpage IN
    /\ wpc = "write"
    /\ io_in_progress' = io_in_progress \ {p}
    /\ IoEndTime(p)
    /\ PushDirty(p)
    /\ pc' = IoWake(p)
    /\ wpage' = None /\ wpc' = "loop"
    /\ UNCHANGED <<page_map, frame_owner, blkno, ref, dirty, uptodate, page_count, flush_requested,
                   flush_complete, lifevars, at, want, unsaved>>

\* A failed write: the page goes back to the dirty list.
WorkerError ==
    LET p == wpage IN
    /\ wpc = "write"
    /\ io_in_progress' = io_in_progress \ {p}
    /\ IoEndTime(p)
    /\ PushDirty(p)
    /\ ref' = [ref EXCEPT ![p] = @ - 1]
    /\ pc' = IoWake(p)
    /\ wpage' = None /\ wpc' = "loop"
    /\ UNCHANGED <<page_map, frame_owner, blkno, dirty, uptodate, page_count, flush_requested,
                   flush_complete, lifevars, at, want, unsaved>>

\* __pcache_flush_done().
WorkerDone ==
    /\ wpc = "loop" /\ PopDirty = None
    /\ flush_requested' = FALSE /\ flush_complete' = TRUE
    /\ wpc' = "idle"
    /\ recent' = {}
    /\ UNCHANGED <<pagevars, flagvars, listvars, page_count, wpage, lifevars,
                   uservars, unsaved>>

-----------------------------------------------------------------------------
\* __flusher_thread(): schedule flushes, wait for the pending ones, sleep.

\* Whether a dirty pcache is due (rate, interval, forced round) is left open.
FlusherRound ==
    /\ fpc = "sleep" /\ registered /\ active
    /\ \/ flush_requested /\ UNCHANGED flushvars
       \/ dirty_count > 0 /\ QueueWork
    /\ fpc' = "wait"
    /\ UNCHANGED <<pagevars, flagvars, listvars, page_count, wpage, active, registered,
                   wait_refcount, td, uservars, recent, unsaved>>

\* __pcache_pick_pending_before() and the reference, under the global lock.
FlusherPick ==
    /\ fpc = "wait" /\ registered /\ flush_requested
    /\ wait_refcount' = wait_refcount + 1
    /\ fpc' = "waiting"
    /\ UNCHANGED <<pagevars, flagvars, listvars, page_count, flushvars, wpage, active,
                   registered, td, uservars, recent, unsaved>>

FlusherWoken ==
    /\ fpc = "waiting" /\ flush_complete
    /\ wait_refcount' = wait_refcount - 1
    /\ pc' = [u \in Users |-> WakeChan(pc[u])]
    /\ fpc' = "wait"
    /\ UNCHANGED <<pagevars, flagvars, listvars, page_count, flushvars, wpage, active,
                   registered, td, at, want, recent, unsaved>>

\* Nothing pending that was requested before the wait began; which request is
\* that old is left open.
FlusherDone ==
    /\ fpc = "wait" /\ fpc' = "sleep"
    /\ UNCHANGED <<pagevars, flagvars, listvars, page_count, flushvars, wpage, active,
                   registered, wait_refcount, td, uservars, recent, unsaved>>

-----------------------------------------------------------------------------
\* pcache_teardown(), called when nobody uses the owner of the pcache any more.

TeardownStep(from, to) ==
    /\ td = from /\ td' = to
    /\ UNCHANGED <<flushvars, wpage, wait_refcount, fpc, uservars>>

Unregister ==
    /\ \A u \in Users : pc[u] = "idle"
    /\ TeardownStep("no", "refs")
    /\ registered' = FALSE
    /\ UNCHANGED <<pagevars, flagvars, listvars, page_count, active, recent, unsaved>>

\* Sleeps until the flusher has given up its reference.
WaitRefs ==
    /\ wait_refcount = 0
    /\ TeardownStep("refs", "mark")
    /\ UNCHANGED <<pagevars, flagvars, listvars, page_count, active, registered,
                   recent, unsaved>>

\* Bug: teardown does not wait for the flush worker.
MarkInactiveOnly ==
    /\ TeardownStep("mark", "evict")
    /\ active' = FALSE
    /\ UNCHANGED <<pagevars, flagvars, listvars, page_count, registered, recent, unsaved>>

MarkInactive ==
    /\ TeardownStep("mark", IF flush_requested THEN "flush" ELSE "evict")
    /\ active' = FALSE
    /\ UNCHANGED <<pagevars, flagvars, listvars, page_count, registered, recent, unsaved>>

WaitFlush ==
    /\ flush_complete
    /\ TeardownStep("flush", "evict")
    /\ UNCHANGED <<pagevars, flagvars, listvars, page_count, active, registered,
                   recent, unsaved>>

\* Steps 4 and 5: evict the LRU list, then drain what is left in the tree.
EvictAll ==
    LET V == Range(lru) IN
    /\ TeardownStep("evict", "drain")
    /\ frame_owner' = SetOwner(V, "free") /\ ref' = SetRef(V, 0) /\ page_map' = Unmap(V)
    /\ page_count' = page_count - Cardinality(V)
    /\ lru' = <<>> /\ lru_count' = lru_count - Len(lru)
    /\ FreeNodes(V)
    /\ UNCHANGED <<io_in_progress, dirty_list, dirty_count, active, registered>>

Drain ==
    LET V == {page_map[b] : b \in Blocks} \ {None} IN
    /\ TeardownStep("drain", "gone")
    /\ frame_owner' = [p \in Frames |-> IF p \in V
                                 THEN IF ref[p] = 1 THEN "free" ELSE "orphan"
                                 ELSE frame_owner[p]]
    /\ ref' = [p \in Frames |-> IF p \in V THEN ref[p] - 1 ELSE ref[p]]
    /\ page_map' = [b \in Blocks |-> None]
    /\ page_count' = 0 /\ lru_count' = 0 /\ dirty_count' = 0
    /\ lru' = <<>> /\ dirty_list' = <<>>
    /\ FreeNodes(V)
    /\ UNCHANGED <<io_in_progress, active, registered>>

\* The owner is reused: pcache_init() again, on the empty lists Drain leaves.
PcacheReinit ==
    /\ td = "gone" /\ td' = "no"
    /\ active' = TRUE /\ registered' = TRUE
    /\ flush_requested' = FALSE /\ flush_complete' = TRUE /\ wait_refcount' = 0
    /\ UNCHANGED <<pagevars, flagvars, listvars, page_count, wpc, wpage, fpc,
                   uservars, recent, unsaved>>

-----------------------------------------------------------------------------
Get(u) ==
    \/ \E b \in Blocks : Lookup(u, b) \/ AllocFresh(u, b) \/ AllocFails(u, b)
    \/ Validate(u) \/ ValidateFails(u) \/ SleepForRoom(u) \/ InsertNew(u) \/ InsertLost(u)

Read(u) ==
    \/ ReadHit(u) \/ ReadRefused(u) \/ ReadWait(u) \/ IoCheck(u) \/ IoSleep(u)
    \/ ReadBegin(u) \/ ReadDevice(u) \/ ReadError(u) \/ ReadPost(u) \/ ReadEnd(u)

Use(u) ==
    \/ WritePage(u) \/ MarkDirty(u) \/ MarkDirtyReturns(u)
    \/ PutPage(u) \/ PutStale(u) \/ PutInvalid(u)
    \/ Flush(u) \/ FlushReturns(u)

Worker == WorkerStart \/ WorkerPop \/ WorkerWrite \/ WorkerEnd \/ WorkerError \/ WorkerDone

Flusher == FlusherRound \/ FlusherPick \/ FlusherWoken \/ FlusherDone

Teardown ==
    \/ Unregister \/ WaitRefs \/ MarkInactive \/ WaitFlush \/ EvictAll \/ Drain
    \/ PcacheReinit

PcNext ==
    \/ \E u \in Users : Get(u) \/ Read(u) \/ Use(u)
    \/ \E b \in Blocks : Invalidate(b) \/ Discard(b)
    \/ Worker \/ Flusher \/ Teardown

-----------------------------------------------------------------------------
\* Users whose reference is on the page.
Holding(p) ==
    {u \in Users : at[u] = p /\ pc[u] \notin {"validate", "insert", "asleep"}}

\* Users and worker that drive an I/O on the page.
Driving(p) ==
    {u \in Users : at[u] = p /\ pc[u] \in {"reading", "readpost", "readend"}}
        \cup (IF wpage = p THEN {"worker"} ELSE {})

\* The tree, the lists and the counters describe the same pages: a cached page
\* is in the tree under its block, a cached page is dirty exactly when it is on
\* the dirty list or being written by the worker, a page on the LRU list may be
\* freed at once, each page is listed once, and the cache is never above its
\* limit.  (asserts of __pcache_push_lru, __pcache_pop_dirty, pcache_put_page)
ListsAgree ==
    /\ \A b \in Blocks : page_map[b] # None =>
           Valid(page_map[b]) /\ blkno[page_map[b]] = b
    /\ \A p \in Frames : Valid(p) =>
           /\ page_map[blkno[p]] = p
           /\ p \in dirty <=> p \in Range(dirty_list) \cup {wpage}
    /\ \A p \in Range(lru) :
           Valid(p) /\ ref[p] = 1 /\ p \in uptodate /\ p \notin dirty \cup io_in_progress
    /\ \A p \in Range(dirty_list) : Valid(p) /\ p \notin io_in_progress
    /\ lru_count = Len(lru) /\ Len(lru) = Cardinality(Range(lru))
    /\ dirty_count = Len(dirty_list) /\ Len(dirty_list) = Cardinality(Range(dirty_list))
    /\ page_count = Cardinality({p \in Frames : Valid(p)})
    /\ page_count <= MaxPages

\* A page in use is never freed or evicted: a cached page has one reference for
\* the cache, one per user that got it and one for the worker that writes it; a
\* page discarded under its users stays allocated.  (pcache_get_page: "The
\* reference count of the page will be increased by 1 if found (2 minimum)")
RefsAreExact ==
    \A p \in Frames :
        LET users == Cardinality(Holding(p)) IN
        /\ Valid(p) => ref[p] = 1 + users + (IF wpage = p THEN 1 ELSE 0)
        /\ frame_owner[p] = "orphan" => ref[p] >= 1 /\ ref[p] >= users /\ wpage # p
        /\ frame_owner[p] \in {"free", "fresh"} => users = 0 /\ wpage # p

\* io_in_progress is a lock on the page's contents: it is set exactly while one
\* reader or the worker transfers the page, and only for a cached page.
IoHasOneOwner ==
    \A p \in Frames :
        /\ Cardinality(Driving(p)) <= 1
        /\ p \in io_in_progress <=> Driving(p) # {}
        /\ p \in io_in_progress => Valid(p)

\* A thread that sleeps in pcache_get_page() because the cache is full is not
\* forgotten: whatever put a page on the LRU list has woken it.
SleeperHasReason ==
    (\E u \in Users : pc[u] = "asleep") => lru = <<>>

\* What a user has written is not lost silently: the copy in memory is newer
\* than the device only for a page that is dirty, or about to be marked, or
\* whose marking met an I/O in progress (the one window the code leaves open).
UnsavedIsDirty ==
    \A p \in unsaved : Valid(p) =>
        \/ p \in dirty
        \/ \E u \in Users : at[u] = p /\ pc[u] = "wrote"

\* When pcache_teardown() starts to free pages, and after it returns, neither
\* the worker nor the flusher thread uses the pcache.  (comment 3b: "after this
\* wait no worker can be running write_page on our private_data")
TeardownIsAlone ==
    td \in {"evict", "drain", "gone"} =>
        wpc = "idle" /\ wait_refcount = 0 /\ ~flush_requested /\ fpc # "waiting"

-----------------------------------------------------------------------------
(* For TLC: users, blocks and frames are interchangeable. *)

PcSpec == PcInit /\ [][PcNext]_pcVars

Symmetry == Permutations(Users) \cup Permutations(Blocks) \cup Permutations(Frames)

\* A cached page is referenced by whom the count says, listed where its flags say
\* and in the hands of one I/O.
CacheHolds == RefsAreExact /\ ListsAgree /\ IoHasOneOwner

\* What was written stays dirty until it is on the device; who waits for room has a
\* reason; a cache that is torn down has no user left.
CacheLosesNothing == UnsavedIsDirty /\ SleeperHasReason /\ TeardownIsAlone
=============================================================================
