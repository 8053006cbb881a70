--------------------------------- MODULE Log ---------------------------------
(***************************************************************************)
(* The xv6fs write-ahead log (kernel/vfs/xv6fs/log.c) with the part of the  *)
(* buffer cache (kernel/bio.c) it stands on: begin_op/end_op admission and  *)
(* group commit, log absorption, the four stages of a commit, recovery at   *)
(* mount, and a crash between any two disk writes.                          *)
(*                                                                          *)
(* A file system d has home blocks and log slots 1..LogSize; the header     *)
(* block is kept apart as the sequence of block numbers it holds.  A block  *)
(* write is atomic and durable when the synchronous request returns.  Block *)
(* contents are abstract values.  The buffer lock is held over a read,      *)
(* change and log_write of the caller, so those are one step.               *)
(***************************************************************************)
EXTENDS Integers, Sequences, FiniteSets, SequencesExt

CONSTANTS Devs, Threads, Blocks, Values, InitValue,
          LogSize,       \* XV6FS_LOGSIZE: slots of the in-memory header
          DiskLog,       \* log->size: blocks of the on-disk log, header included
          MaxOpBlocks,   \* MAXOPBLOCKS: "max # of blocks any FS op writes"
          None           \* no buffer / not cached

ASSUME SizesAssumption ==
    /\ LogSize \in Nat /\ DiskLog \in Nat /\ MaxOpBlocks \in Nat \ {0}
    /\ MaxOpBlocks <= LogSize
    /\ InitValue \in Values

Slots == 1..LogSize
Addrs == Blocks \cup Slots

ASSUME NamesAssumption ==
    /\ IsFiniteSet(Threads)
    /\ Threads \cap Devs = {} /\ Blocks \cap Slots = {}
    /\ None \notin Values /\ None \notin Devs \X Addrs

VARIABLES
    mnt,          \* stage of xv6fs_initlog: "off", "install", "up"
    outstanding,  \* log->outstanding
    committing,   \* log->committing
    lh,           \* log->lh in memory: the block numbers, in slot order
    waitq,        \* threads on log->wait_queue
    pc,           \* where each thread is in begin_op / end_op
    dev,          \* the file system a thread works on
    mine,         \* blocks the thread's operation has logged so far
    tail,         \* loop index of the commit, and of the recovery of a device
    flight,       \* the buffer a thread's bsync() has popped and not written
    tempq,        \* temp_queue of end_op: threads still to be woken
    cache,        \* contents of the cached buffers, None when not cached
    pinned,       \* home blocks whose buffer is pinned by bpin()
    dirtyList,    \* bcache.dirty_list
    disk,         \* contents of home blocks and log slots on the disk
    head          \* the header block on the disk

vars == <<mnt, outstanding, committing, lh, waitq, pc, dev, mine, tail, flight,
          tempq, cache, pinned, dirtyList, disk, head>>

logvars == <<outstanding, committing, lh, waitq>>
bufvars == <<cache, pinned, dirtyList>>
diskvars == <<disk, head>>

\* Contents that bread() returns: the cached buffer's, else the disk's.
Bread(d, a) == IF cache[d][a] # None THEN cache[d][a] ELSE disk[d][a]

\* bwrite_async(): queue the buffer for writeback unless it is dirty already.
MarkDirty(d, a) ==
    IF <<d, a>> \in Range(dirtyList) THEN dirtyList ELSE Append(dirtyList, <<d, a>>)

MemoryInit ==
    /\ outstanding = [d \in Devs |-> 0]
    /\ committing = [d \in Devs |-> FALSE]
    /\ lh = [d \in Devs |-> <<>>]
    /\ waitq = [d \in Devs |-> {}]
    /\ pc = [t \in Threads |-> "idle"]
    /\ dev = [t \in Threads |-> None]
    /\ mine = [t \in Threads |-> {}]
    /\ tail = [x \in Threads \cup Devs |-> 1]
    /\ flight = [t \in Threads |-> None]
    /\ tempq = [t \in Threads |-> {}]
    /\ cache = [d \in Devs |-> [a \in Addrs |-> None]]
    /\ pinned = [d \in Devs |-> {}]
    /\ dirtyList = <<>>

\* A file system made by mkfs, not mounted yet.
Init ==
    /\ MemoryInit
    /\ mnt = [d \in Devs |-> "off"]
    /\ disk = [d \in Devs |-> [a \in Addrs |-> InitValue]]
    /\ head = [d \in Devs |-> <<>>]

----------------------------------------------------------------------------
\* xv6fs_initlog: __xv6fs_read_head takes the committed block numbers.
ReadHead(d) ==
    /\ mnt[d] = "off"
    /\ lh' = [lh EXCEPT ![d] = head[d]]
    /\ tail' = [tail EXCEPT ![d] = 1]
    /\ mnt' = [mnt EXCEPT ![d] = "install"]
    /\ UNCHANGED <<outstanding, committing, waitq, pc, dev, mine, flight, tempq,
                   bufvars, diskvars>>

\* One turn of __xv6fs_install_trans(log, 1): bread, copy, bwrite.
RecoverBlock(d) ==
    /\ mnt[d] = "install"
    /\ tail[d] <= Len(lh[d])
    /\ LET b == lh[d][tail[d]]
           v == Bread(d, tail[d])
       IN /\ cache' = [cache EXCEPT ![d][tail[d]] = v, ![d][b] = v]
          /\ disk' = [disk EXCEPT ![d][b] = v]
    /\ tail' = [tail EXCEPT ![d] = @ + 1]
    /\ UNCHANGED <<mnt, logvars, pc, dev, mine, flight, tempq, pinned,
                   dirtyList, head>>

\* Bug: the header is cleared while blocks are still to be installed.
RecoverEraseEarly(d) ==
    /\ mnt[d] = "install"
    /\ tail[d] >= Len(lh[d])
    /\ lh' = [lh EXCEPT ![d] = <<>>]
    /\ head' = [head EXCEPT ![d] = <<>>]
    /\ mnt' = [mnt EXCEPT ![d] = "up"]
    /\ tail' = [tail EXCEPT ![d] = 1]
    /\ UNCHANGED <<outstanding, committing, waitq, pc, dev, mine, flight, tempq,
                   bufvars, disk>>

\* End of __xv6fs_recover_from_log: lh.n = 0 and the header is cleared.
RecoverErase(d) ==
    /\ mnt[d] = "install"
    /\ tail[d] > Len(lh[d])
    /\ lh' = [lh EXCEPT ![d] = <<>>]
    /\ head' = [head EXCEPT ![d] = <<>>]
    /\ mnt' = [mnt EXCEPT ![d] = "up"]
    /\ tail' = [tail EXCEPT ![d] = 1]
    /\ UNCHANGED <<outstanding, committing, waitq, pc, dev, mine, flight, tempq,
                   bufvars, disk>>

----------------------------------------------------------------------------
\* begin_op's test: would one more operation possibly exhaust the log?
LogTight(d) == Len(lh[d]) + (outstanding[d] + 1) * MaxOpBlocks > LogSize

\* The thread is at the top of begin_op's loop, newly called or just woken.
AtBegin(t, d) ==
    /\ mnt[d] = "up"
    /\ pc[t] = "idle" \/ (pc[t] = "begin" /\ dev[t] = d)

\* xv6fs_begin_op finds a commit running or too little space: tq_wait().
BeginWait(t, d) ==
    /\ AtBegin(t, d)
    /\ committing[d] \/ LogTight(d)
    /\ waitq' = [waitq EXCEPT ![d] = @ \cup {t}]
    /\ pc' = [pc EXCEPT ![t] = "wait"]
    /\ dev' = [dev EXCEPT ![t] = d]
    /\ UNCHANGED <<mnt, outstanding, committing, lh, mine, tail, flight, tempq,
                   bufvars, diskvars>>

Admit(t, d) ==
    /\ outstanding' = [outstanding EXCEPT ![d] = @ + 1]
    /\ pc' = [pc EXCEPT ![t] = "op"]
    /\ dev' = [dev EXCEPT ![t] = d]
    /\ mine' = [mine EXCEPT ![t] = {}]
    /\ UNCHANGED <<mnt, committing, lh, waitq, tail, flight, tempq, bufvars,
                   diskvars>>

\* xv6fs_begin_op returns with the operation counted.
BeginOp(t, d) == AtBegin(t, d) /\ ~committing[d] /\ ~LogTight(d) /\ Admit(t, d)

\* xv6fs_log_write's panic: the test comes before the search for absorption.
LogFull(d) == Len(lh[d]) >= LogSize \/ Len(lh[d]) >= DiskLog - 1

\* An operation changes block b in its buffer and calls xv6fs_log_write: the
\* block is appended to the header and pinned unless it is there already.
LogWrite(t, b, v) ==
    LET d == dev[t] IN
    /\ pc[t] = "op"
    /\ ~LogFull(d)
    /\ Cardinality(mine[t] \cup {b}) <= MaxOpBlocks
    /\ cache' = [cache EXCEPT ![d][b] = v]
    /\ lh' = IF b \in Range(lh[d]) THEN lh ELSE [lh EXCEPT ![d] = Append(@, b)]
    /\ pinned' = [pinned EXCEPT ![d] = @ \cup {b}]
    /\ mine' = [mine EXCEPT ![t] = @ \cup {b}]
    /\ UNCHANGED <<mnt, outstanding, committing, waitq, pc, dev, tail, flight,
                   tempq, dirtyList, diskvars>>

----------------------------------------------------------------------------
\* xv6fs_end_op: the last operation starts the commit; __xv6fs_commit does
\* nothing for an empty log.
EndOp(t) ==
    LET d == dev[t] IN
    /\ pc[t] = "op"
    /\ ~committing[d]
    /\ outstanding' = [outstanding EXCEPT ![d] = @ - 1]
    /\ committing' = [committing EXCEPT ![d] = outstanding[d] = 1]
    /\ pc' = [pc EXCEPT ![t] = IF outstanding[d] > 1 THEN "idle"
                               ELSE IF lh[d] = <<>> THEN "release" ELSE "writelog"]
    /\ tail' = [tail EXCEPT ![t] = 1]
    /\ mine' = [mine EXCEPT ![t] = {}]
    /\ UNCHANGED <<mnt, lh, waitq, dev, flight, tempq, bufvars, diskvars>>

\* One turn of __xv6fs_write_log: copy the block into its log slot's buffer.
WriteLog(t) ==
    LET d == dev[t] IN
    /\ pc[t] = "writelog"
    /\ tail[t] <= Len(lh[d])
    /\ LET b == lh[d][tail[t]]
           v == Bread(d, b)
       IN cache' = [cache EXCEPT ![d][b] = v, ![d][tail[t]] = v]
    /\ dirtyList' = MarkDirty(d, tail[t])
    /\ tail' = [tail EXCEPT ![t] = @ + 1]
    /\ UNCHANGED <<mnt, logvars, pc, dev, mine, flight, tempq, pinned, diskvars>>

\* One turn of __xv6fs_install_trans(log, 0): copy the slot into the home
\* buffer, queue it for writeback and unpin it.
InstallTrans(t) ==
    LET d == dev[t] IN
    /\ pc[t] = "install"
    /\ tail[t] <= Len(lh[d])
    /\ LET b == lh[d][tail[t]]
           v == Bread(d, tail[t])
       IN /\ cache' = [cache EXCEPT ![d][tail[t]] = v, ![d][b] = v]
          /\ dirtyList' = MarkDirty(d, b)
          /\ pinned' = [pinned EXCEPT ![d] = @ \ {b}]
    /\ tail' = [tail EXCEPT ![t] = @ + 1]
    /\ UNCHANGED <<mnt, logvars, pc, dev, mine, flight, tempq, diskvars>>

\* The copy loop is over: go on with bsync().
InBsync(t) == pc[t] \in {"writelog", "install"} /\ tail[t] > Len(lh[dev[t]])

\* bsync() takes the newest dirty buffer off the list.
BsyncPop(t) ==
    /\ InBsync(t)
    /\ flight[t] = None
    /\ dirtyList # <<>>
    /\ flight' = [flight EXCEPT ![t] = Last(dirtyList)]
    /\ dirtyList' = Front(dirtyList)
    /\ UNCHANGED <<mnt, logvars, pc, dev, mine, tail, tempq, cache, pinned,
                   diskvars>>

\* bsync() locks the buffer and writes it to the disk.
BsyncWrite(t) ==
    /\ flight[t] # None
    /\ LET d == flight[t][1]
           a == flight[t][2]
       IN disk' = [disk EXCEPT ![d][a] = cache[d][a]]
    /\ flight' = [flight EXCEPT ![t] = None]
    /\ UNCHANGED <<mnt, logvars, pc, dev, mine, tail, tempq, bufvars, head>>

\* Bug: the commit goes on without waiting for the writeback.
BsyncDoneEarly(t) ==
    /\ InBsync(t)
    /\ flight[t] = None
    /\ pc' = [pc EXCEPT ![t] = IF @ = "writelog" THEN "commit" ELSE "erase"]
    /\ tail' = [tail EXCEPT ![t] = 1]
    /\ UNCHANGED <<mnt, logvars, dev, mine, flight, tempq, bufvars, diskvars>>

\* bsync() finds the dirty list empty and returns.
BsyncDone(t) ==
    /\ InBsync(t)
    /\ flight[t] = None
    /\ dirtyList = <<>>
    /\ pc' = [pc EXCEPT ![t] = IF @ = "writelog" THEN "commit" ELSE "erase"]
    /\ tail' = [tail EXCEPT ![t] = 1]
    /\ UNCHANGED <<mnt, logvars, dev, mine, flight, tempq, bufvars, diskvars>>

\* __xv6fs_write_head with the transaction's blocks: the commit point.
WriteHead(t) ==
    LET d == dev[t] IN
    /\ pc[t] = "commit"
    /\ head' = [head EXCEPT ![d] = lh[d]]
    /\ pc' = [pc EXCEPT ![t] = "install"]
    /\ UNCHANGED <<mnt, logvars, dev, mine, tail, flight, tempq, bufvars, disk>>

\* lh.n = 0 and __xv6fs_write_head: the transaction is erased from the log.
EraseHead(t) ==
    LET d == dev[t] IN
    /\ pc[t] = "erase"
    /\ lh' = [lh EXCEPT ![d] = <<>>]
    /\ head' = [head EXCEPT ![d] = <<>>]
    /\ pc' = [pc EXCEPT ![t] = "release"]
    /\ UNCHANGED <<mnt, outstanding, committing, waitq, dev, mine, tail, flight,
                   tempq, bufvars, disk>>

\* end_op under the lock again: committing = 0 and tq_bulk_move().
Release(t) ==
    LET d == dev[t] IN
    /\ pc[t] = "release"
    /\ committing' = [committing EXCEPT ![d] = FALSE]
    /\ tempq' = [tempq EXCEPT ![t] = waitq[d]]
    /\ waitq' = [waitq EXCEPT ![d] = {}]
    /\ pc' = [pc EXCEPT ![t] = "wake"]
    /\ UNCHANGED <<mnt, outstanding, lh, dev, mine, tail, flight, bufvars,
                   diskvars>>

\* tq_wakeup_all(&temp_queue): the woken thread loops in begin_op again.
WakeOne(t, u) ==
    /\ pc[t] = "wake"
    /\ u \in tempq[t]
    /\ tempq' = [tempq EXCEPT ![t] = @ \ {u}]
    /\ pc' = [pc EXCEPT ![u] = "begin"]
    /\ UNCHANGED <<mnt, logvars, dev, mine, tail, flight, bufvars, diskvars>>

\* Bug: end_op returns after waking a single waiter.
WakeDoneEarly(t) ==
    /\ pc[t] = "wake"
    /\ pc' = [pc EXCEPT ![t] = "idle"]
    /\ UNCHANGED <<mnt, logvars, dev, mine, tail, flight, tempq, bufvars,
                   diskvars>>

\* end_op returns.
WakeDone(t) ==
    /\ pc[t] = "wake"
    /\ tempq[t] = {}
    /\ pc' = [pc EXCEPT ![t] = "idle"]
    /\ UNCHANGED <<mnt, logvars, dev, mine, tail, flight, tempq, bufvars,
                   diskvars>>

----------------------------------------------------------------------------
\* bget() recycles the buffer of a block with reference count 0.  NBUF is 100
\* times XV6FS_LOGSIZE and buffers are recycled oldest first, so a buffer made
\* dirty by the running commit is not reached before its bsync().
Recycle(d, a) ==
    /\ cache[d][a] # None
    /\ a \notin pinned[d]
    /\ \A t \in Threads : flight[t] # <<d, a>>
    /\ <<d, a>> \notin Range(dirtyList)
    /\ cache' = [cache EXCEPT ![d][a] = None]
    /\ UNCHANGED <<mnt, logvars, pc, dev, mine, tail, flight, tempq, pinned,
                   dirtyList, diskvars>>

\* Power failure or a panic, at any point: memory is lost, the disk keeps what
\* was written.
Crash ==
    /\ outstanding' = [d \in Devs |-> 0]
    /\ committing' = [d \in Devs |-> FALSE]
    /\ lh' = [d \in Devs |-> <<>>]
    /\ waitq' = [d \in Devs |-> {}]
    /\ pc' = [t \in Threads |-> "idle"]
    /\ dev' = [t \in Threads |-> None]
    /\ mine' = [t \in Threads |-> {}]
    /\ tail' = [x \in Threads \cup Devs |-> 1]
    /\ flight' = [t \in Threads |-> None]
    /\ tempq' = [t \in Threads |-> {}]
    /\ cache' = [d \in Devs |-> [a \in Addrs |-> None]]
    /\ pinned' = [d \in Devs |-> {}]
    /\ dirtyList' = <<>>
    /\ mnt' = [d \in Devs |-> "off"]
    /\ UNCHANGED diskvars

MountStep(d) == ReadHead(d) \/ RecoverBlock(d) \/ RecoverErase(d)

CommitStep(t) ==
    \/ WriteLog(t) \/ InstallTrans(t)
    \/ BsyncPop(t) \/ BsyncWrite(t) \/ BsyncDone(t)
    \/ WriteHead(t) \/ EraseHead(t) \/ Release(t)
    \/ (\E u \in Threads : WakeOne(t, u)) \/ WakeDone(t)

Next ==
    \/ \E d \in Devs : MountStep(d)
    \/ \E t \in Threads, d \in Devs : BeginOp(t, d) \/ BeginWait(t, d)
    \/ \E t \in Threads, b \in Blocks, v \in Values : LogWrite(t, b, v)
    \/ \E t \in Threads : EndOp(t) \/ CommitStep(t)
    \/ \E d \in Devs, a \in Addrs : Recycle(d, a)
    \/ Crash

\* Every operation ends and a commit goes on as long as the disk answers.
Spec ==
    /\ Init /\ [][Next]_vars
    /\ \A t \in Threads : WF_vars(EndOp(t)) /\ WF_vars(CommitStep(t))

----------------------------------------------------------------------------
OpsOn(d) == {t \in Threads : pc[t] = "op" /\ dev[t] = d}

TypeOK ==
    /\ mnt \in [Devs -> {"off", "install", "up"}]
    /\ outstanding \in [Devs -> Nat] /\ committing \in [Devs -> BOOLEAN]
    /\ lh \in [Devs -> Seq(Blocks)] /\ head \in [Devs -> Seq(Blocks)]
    /\ waitq \in [Devs -> SUBSET Threads] /\ tempq \in [Threads -> SUBSET Threads]
    /\ pc \in [Threads -> {"idle", "begin", "wait", "op", "writelog", "commit",
                           "install", "erase", "release", "wake"}]
    /\ dev \in [Threads -> Devs \cup {None}]
    /\ mine \in [Threads -> SUBSET Blocks]
    /\ tail \in [Threads \cup Devs -> Nat \ {0}]
    /\ flight \in [Threads -> (Devs \X Addrs) \cup {None}]
    /\ dirtyList \in Seq(Devs \X Addrs)
    /\ cache \in [Devs -> [Addrs -> Values \cup {None}]]
    /\ pinned \in [Devs -> SUBSET Blocks]
    /\ disk \in [Devs -> [Addrs -> Values]]

\* The block array a recovery would produce: the slots the header names
\* replace the home blocks.
DurableBlock(d, b) ==
    IF b \in Range(head[d])
    THEN disk[d][CHOOSE i \in DOMAIN head[d] : head[d][i] = b]
    ELSE disk[d][b]

DurableView == [d \in Devs |-> [b \in Blocks |-> DurableBlock(d, b)]]

CurrentView ==
    [d \in Devs |-> IF mnt[d] = "up" THEN [b \in Blocks |-> Bread(d, b)]
                                     ELSE DurableView[d]]

Abstract == INSTANCE AtomicDisk
              WITH current <- CurrentView, durable <- DurableView,
                   active <- [d \in Devs |-> OpsOn(d)]

\* Whatever the order of buffered writes, and wherever a crash hits, commit or
\* recovery included, the file system is a block array whose operations become
\* durable together, at a moment when none is in progress (log.c:8-10).
AtomicCommits == Abstract!ASpec

\* While no operation and no commit is in progress everything that was written
\* is durable: end_op of the last operation returns after the commit.
QuietIsDurable ==
    \A d \in Devs :
        mnt[d] = "up" /\ outstanding[d] = 0 /\ ~committing[d]
            => /\ head[d] = <<>> /\ lh[d] = <<>> /\ pinned[d] = {}
               /\ \A b \in Blocks : Bread(d, b) = disk[d][b]

\* The header has room for all that the running operations may still log: the
\* blocks that are in it on behalf of operations that have ended, and a full
\* reservation for each one that runs (begin_op's test, log.c:164).
Leftover(d) == Range(lh[d]) \ UNION {mine[t] : t \in OpsOn(d)}
ReservationsFit ==
    \A d \in Devs :
        /\ \A t \in OpsOn(d) : Cardinality(mine[t]) <= MaxOpBlocks
        /\ Cardinality(Leftover(d)) + outstanding[d] * MaxOpBlocks <= LogSize

\* No operation runs while its log is being committed, so end_op's
\* panic("xv6fs: log.committing") is unreachable, and the count is exact.
CommitExcludesOps ==
    \A d \in Devs :
        /\ outstanding[d] = Cardinality(OpsOn(d))
        /\ committing[d] => OpsOn(d) = {}

\* A thread sleeps in begin_op only while something that will wake it is under
\* way: a running operation, a commit, or a committer that still has it on its
\* temp_queue.
NoStrandedWaiter ==
    \A t \in Threads :
        pc[t] = "wait" =>
            \/ t \in waitq[dev[t]] /\ (committing[dev[t]] \/ outstanding[dev[t]] > 0)
            \/ \E c \in Threads : pc[c] = "wake" /\ t \in tempq[c]

\* Quiet means durable, reservations fit, no operation runs in a commit, and who
\* sleeps in begin_op has somebody to wake it: what end_op and begin_op rely on when
\* they look at the counters.
LogHolds == TypeOK /\ QuietIsDurable /\ ReservationsFit /\ CommitExcludesOps /\ NoStrandedWaiter

\* A log that becomes free of operations again and again lets every waiter go.
WaiterReleased ==
    \A t \in Threads, d \in Devs :
        []<>(outstanding[d] = 0)
            => ((pc[t] = "wait" /\ dev[t] = d) ~> (pc[t] # "wait"))

=============================================================================
