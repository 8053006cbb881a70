------------------------------- MODULE Xv6fs -------------------------------
(***************************************************************************)
(* The blocks, inodes and one directory of an xv6fs file system:           *)
(* kernel/vfs/xv6fs/truncate.c (block map, allocation, truncation),        *)
(* block_cache.c (extents of free blocks), inode.c and superblock.c.       *)
(*                                                                         *)
(* Three copies of the metadata exist.  xmem is what the inodes in memory  *)
(* say, buf what the buffers say, xdisk what the last commit left on the   *)
(* disk; a crash keeps only xdisk.  Log shows that a commit is atomic and  *)
(* happens when no operation is under way, so a commit is part of the last *)
(* end_op here.  What an operation does between begin_op and end_op, with  *)
(* its inodes locked, is one step.                                         *)
(*                                                                         *)
(* The data of files goes through the page cache and not through the log;  *)
(* only which block it goes to matters here.                               *)
(***************************************************************************)
EXTENDS Integers, FiniteSets, Sequences, FiniteSetsExt

CONSTANTS
    Ops,            \* threads in file system calls
    NInodes,        \* inode numbers 1..NInodes; 1 is the root directory
    NDataBlocks,    \* data blocks 1..NDataBlocks
    NDirect,        \* XV6FS_NDIRECT
    NIndirect,      \* XV6FS_NINDIRECT
    BatchSize,      \* ITRUNC_BATCH_SIZE
    DirNames,       \* names in the directory, 1 and perhaps others
    NewCalls,       \* the calls that create files: create, mknod, symlink
    OpsPerCommit,   \* bound: calls that share one commit (the log has room for a few)
    WriteAt,        \* file blocks that are written
    SizesCut        \* sizes (in blocks) files are truncated or extended to

Blocks == 1..NDataBlocks
XInos == 1..NInodes
XFiles == 2..NInodes
MaxFile == NDirect + NIndirect + NIndirect * NIndirect
Ind == NDirect + 1          \* addrs[XV6FS_NDIRECT]
DInd == NDirect + 2         \* addrs[XV6FS_NDIRECT + 1]

ASSUME XGeometry == NDirect \in Nat \ {0} /\ NIndirect \in Nat \ {0} /\ BatchSize \in Nat \ {0}

VARIABLES
    xmem,           \* XInos -> struct xv6fs_inode: used, size, links, addrs
    buf,            \* the buffers: bitmap, pointer blocks, dinodes, directory entries
    logged,         \* pointer blocks changed and logged since the last commit
    xdisk,          \* what the last commit wrote
    extents,        \* struct xv6fs_block_cache: the extents of free blocks, and the cursor
    op,             \* Ops -> the call in progress
    group,          \* calls begun since the last commit
    full            \* balloc has failed: the disk was full once

xv6fsVars == <<xmem, buf, logged, xdisk, extents, op, group, full>>

NoAddrs == [k \in 1..NDirect + 2 |-> 0]
NoPtrs == [j \in 0..NIndirect - 1 |-> 0]
FreeDinode == [type |-> "free", size |-> 0, links |-> 0, addrs |-> NoAddrs]
RootDinode == [FreeDinode EXCEPT !.type = "dir", !.links = 1]
NoOp == [pc |-> "idle", call |-> "none", ino |-> 0, arg |-> 0]

EmptyDisk == [used |-> {}, ptr |-> [b \in Blocks |-> NoPtrs],
              dinode |-> [i \in XInos |-> IF i = 1 THEN RootDinode ELSE FreeDinode],
              names |-> [n \in DirNames |-> 0]]
-----------------------------------------------------------------------------
(* The extents of free blocks.  An extent is <<start, length>>.            *)

\* bcache_insert_extent of one block (xv6fs_bcache_mark_free): merged with the extent
\* that ends before it and the one that starts after it.
InsertExtent(tree, b) ==
    LET prev == {e \in tree : e[1] + e[2] = b}
        next == {e \in tree : e[1] = b + 1}
        start == IF prev = {} THEN b ELSE (CHOOSE e \in prev : TRUE)[1]
        len(S) == IF S = {} THEN 0 ELSE (CHOOSE e \in S : TRUE)[2]
    IN  (tree \ (prev \cup next)) \cup {<<start, len(prev) + 1 + len(next)>>}

\* xv6fs_bcache_init scans the bitmap for runs.
ScanBitmap(used) ==
    {<<s, n>> \in Blocks \X Blocks :
        /\ s + n - 1 \in Blocks /\ s..(s + n - 1) \cap used = {}
        /\ (s - 1) \notin Blocks \ used /\ (s + n) \notin Blocks \ used}

\* bcache_find_extent_ge, bcache_find_extent_containing, and the first and last extent.
FirstExtent(S) == CHOOSE e \in S : \A f \in S : e[1] =< f[1]
LastExtent(S) == CHOOSE e \in S : \A f \in S : e[1] >= f[1]
FindGe(tree, b) == {e \in tree : e[1] >= b}
FindContaining(tree, b) == {e \in tree : e[1] =< b /\ b < e[1] + e[2]}

\* xv6fs_bcache_find_free_block_near, or without a hint xv6fs_bcache_find_free_block from
\* the cursor on.
PickExtent(x, hint) ==
    CASE hint # 0 /\ FindContaining(x.tree, hint) # {} -> FirstExtent(FindContaining(x.tree, hint))
      [] hint # 0 /\ FindContaining(x.tree, hint) = {} /\ FindGe(x.tree, hint) # {} ->
           FirstExtent(FindGe(x.tree, hint))
      [] hint # 0 /\ FindContaining(x.tree, hint) = {} /\ FindGe(x.tree, hint) = {} -> LastExtent(x.tree)
      [] hint = 0 ->
           IF FindGe(x.tree, x.cursor) # {} THEN FirstExtent(FindGe(x.tree, x.cursor)) ELSE FirstExtent(x.tree)

\* bcache_alloc_from_extent takes the last block of the extent; the search without a hint
\* moves the cursor behind it.
TakeLast(x, e, hint) ==
    LET b == e[1] + e[2] - 1
    IN  [tree |-> (x.tree \ {e}) \cup (IF e[2] = 1 THEN {} ELSE {<<e[1], e[2] - 1>>}),
         cursor |-> IF hint # 0 THEN x.cursor ELSE IF b + 1 > NDataBlocks THEN 1 ELSE b + 1,
         got |-> b]
TakeFrom(x, hint) == TakeLast(x, PickExtent(x, hint), hint)
-----------------------------------------------------------------------------
(* Allocation and the block map.  w is the work of an operation: the       *)
(* buffers, the inode's addrs, the extents and the pointer blocks logged;  *)
(* w.got is the block found or allocated, 0 for none.                      *)

Work(i) == [buf |-> buf, addrs |-> xmem[i].addrs, x |-> extents, logged |-> logged, got |-> 0]

\* __xv6fs_balloc: out of the cache, into the bitmap, and zeroed through the log.
MarkUsed(w, t) ==
    [w EXCEPT !.got = t.got, !.x = [tree |-> t.tree, cursor |-> t.cursor],
              !.buf.used = @ \cup {t.got}, !.buf.ptr[t.got] = NoPtrs,
              !.logged = @ \cup {t.got}]
Balloc(w, hint) ==
    IF w.x.tree = {} THEN [w EXCEPT !.got = 0] ELSE MarkUsed(w, TakeFrom(w.x, hint))

\* __xv6fs_bfree.
Bfree(w, b) == [w EXCEPT !.buf.used = @ \ {b}, !.x.tree = InsertExtent(@, b)]

\* The hint of xv6fs_bmap: the last direct block there is.
Hint(addrs) ==
    LET S == {k \in 1..NDirect : addrs[k] # 0} IN
    IF S = {} THEN 0 ELSE addrs[CHOOSE k \in S : \A m \in S : m =< k]

\* The block allocated becomes entry j of pointer block p (bp->data[j] = addr and
\* xv6fs_log_write), or address k of the inode; nothing is stored when there was none.
SetPtr(w, p, j) ==
    IF w.got = 0 THEN w ELSE [w EXCEPT !.buf.ptr[p][j] = w.got, !.logged = @ \cup {p}]
SetAddr(w, k) == IF w.got = 0 THEN w ELSE [w EXCEPT !.addrs[k] = w.got]

\* __xv6fs_bmap_ind below a pointer block that exists.
BmapLeaf(w, p, j) ==
    IF w.buf.ptr[p][j] # 0 THEN [w EXCEPT !.got = w.buf.ptr[p][j]]
    ELSE SetPtr(Balloc(w, p), p, j)

\* An address of the inode, allocated when it is 0.
BmapAddr(w, k) ==
    IF w.addrs[k] # 0 THEN [w EXCEPT !.got = w.addrs[k]]
    ELSE SetAddr(Balloc(w, Hint(w.addrs)), k)

\* Entry j below the block just found; nothing when it could not be allocated.
BmapBelow(w, j) == IF w.got = 0 THEN w ELSE BmapLeaf(w, w.got, j)

\* xv6fs_bmap: direct, single indirect, double indirect.
Bmap(w, bn) ==
    LET rel == bn - NDirect - NIndirect
    IN  CASE bn < NDirect -> BmapAddr(w, bn + 1)
          [] bn >= NDirect /\ rel < 0 -> BmapBelow(BmapAddr(w, Ind), bn - NDirect)
          [] rel >= 0 ->
               BmapBelow(BmapBelow(BmapAddr(w, DInd), rel \div NIndirect), rel % NIndirect)

\* xv6fs_bmap_read: the same walk without allocating; 0 for a hole.
BmapRead(ptr, addrs, bn) ==
    LET rel == bn - NDirect - NIndirect
        at(p, j) == IF p = 0 THEN 0 ELSE ptr[p][j]
    IN  CASE bn < NDirect -> addrs[bn + 1]
          [] bn >= NDirect /\ rel < 0 -> at(addrs[Ind], bn - NDirect)
          [] rel >= 0 -> at(at(addrs[DInd], rel \div NIndirect), rel % NIndirect)

\* The blocks of an inode, as addresses or through pointer blocks: the reference that the
\* properties use.  A pointer block counts as one of them.
Ptrs(ptr, p) == IF p = 0 THEN {} ELSE {ptr[p][j] : j \in 0..NIndirect - 1} \ {0}
BlocksOf(ptr, addrs) ==
    ({addrs[k] : k \in 1..NDirect + 2} \cup Ptrs(ptr, addrs[Ind]) \cup Ptrs(ptr, addrs[DInd])
     \cup UNION {Ptrs(ptr, p) : p \in Ptrs(ptr, addrs[DInd])}) \ {0}
-----------------------------------------------------------------------------
(* Truncation.                                                             *)

FirstIn(S) == CHOOSE j \in S : \A k \in S : j =< k
Entries(w, p) == {j \in 0..NIndirect - 1 : w.buf.ptr[p][j] # 0}

\* a[j] = 0, with the xv6fs_log_write that comes before the next commit.
ClearPtr(w, p, j) == [w EXCEPT !.buf.ptr[p][j] = 0, !.logged = @ \cup {p}]

FreeEntry(w, p, j) == ClearPtr(Bfree(w, w.buf.ptr[p][j]), p, j)
FreeAddr(w, k) == [Bfree(w, w.addrs[k]) EXCEPT !.addrs[k] = 0]

\* xv6fs_itrunc frees one block after the other: direct blocks, what the indirect block
\* holds and then the block itself, the same for the double indirect one.
FreeNext(w) ==
    LET direct == {k \in 1..NDirect : w.addrs[k] # 0}
        ind == w.addrs[Ind]
        dind == w.addrs[DInd]
        j == FirstIn(Entries(w, dind))
        p == w.buf.ptr[dind][j]
    IN  IF direct # {} THEN FreeAddr(w, FirstIn(direct))
        ELSE IF ind # 0 THEN IF Entries(w, ind) # {} THEN FreeEntry(w, ind, FirstIn(Entries(w, ind)))
                             ELSE FreeAddr(w, Ind)
        ELSE IF dind # 0 THEN IF Entries(w, dind) = {} THEN FreeAddr(w, DInd)
                              ELSE IF Entries(w, p) # {} THEN FreeEntry(w, p, FirstIn(Entries(w, p)))
                              ELSE FreeEntry(w, dind, j)
        ELSE w

\* Up to BatchSize of them, which is what one transaction may free.
FreeBatch(w) ==
    LET after[k \in 0..BatchSize] == IF k = 0 THEN w ELSE FreeNext(after[k - 1])
    IN  after[BatchSize]

\* __xv6fs_itrunc_ind_partial: the entries from start on, and the block too when start is 0.
CutInd(w, p, start) ==
    LET cut(v, j) == IF v.buf.ptr[p][j] = 0 THEN v ELSE FreeEntry(v, p, j)
        after[k \in start..NIndirect] == IF k = start THEN w ELSE cut(after[k - 1], k - 1)
    IN  after[NIndirect]

CutAddrInd(w, start) ==
    IF w.addrs[Ind] = 0 THEN w
    ELSE LET v == CutInd(w, w.addrs[Ind], start) IN IF start = 0 THEN FreeAddr(v, Ind) ELSE v

\* The double indirect part of __xv6fs_truncate_partial, from block rel of it on.
CutDInd(w, rel) ==
    LET d == w.addrs[DInd]
        l1 == rel \div NIndirect
        l2 == rel % NIndirect
        cut(v, j) ==
            IF v.buf.ptr[d][j] = 0 \/ j < l1 THEN v
            ELSE IF j = l1 /\ l2 > 0 THEN CutInd(v, v.buf.ptr[d][j], l2)
            ELSE FreeEntry(CutInd(v, v.buf.ptr[d][j], 0), d, j)
        after[k \in 0..NIndirect] == IF k = 0 THEN w ELSE cut(after[k - 1], k - 1)
        v == after[NIndirect]
    IN  IF d = 0 THEN w ELSE IF rel =< 0 \/ Entries(v, d) = {} THEN FreeAddr(v, DInd) ELSE v

\* __xv6fs_truncate_partial: the blocks from first on, in one transaction.
TruncatePartial(w, first) ==
    LET direct[k \in 0..NDirect] ==
          IF k = 0 THEN w
          ELSE IF k - 1 >= first /\ direct[k - 1].addrs[k] # 0 THEN FreeAddr(direct[k - 1], k)
          ELSE direct[k - 1]
        ind == IF first < NDirect + NIndirect
               THEN CutAddrInd(direct[NDirect], IF first =< NDirect THEN 0 ELSE first - NDirect)
               ELSE direct[NDirect]
    IN  CutDInd(ind, first - NDirect - NIndirect)
-----------------------------------------------------------------------------
(* Operations.                                                             *)

Xv6fsInit ==
    /\ xmem = [i \in XInos |-> IF i = 1 THEN RootDinode ELSE FreeDinode]
    /\ buf = EmptyDisk
    /\ logged = {}
    /\ xdisk = EmptyDisk
    /\ extents = [tree |-> ScanBitmap({}), cursor |-> 1]
    /\ op = [t \in Ops |-> NoOp]
    /\ group = 0
    /\ full = FALSE

\* Files locked or named by a call; the directory is locked by create and unlink.
Locked == {op[t].ino : t \in Ops}
Outstanding(t) == {u \in Ops \ {t} : op[u].pc = "op"}

\* xv6fs_begin_op, which waits while the log has no room for another call.  A call on a file locks it (write takes the lock after, truncate before;
\* the order matters to Log and not here).
BeginOp(t, call, i, arg) ==
    /\ op[t].pc = "idle" /\ i \notin Locked
    /\ group < OpsPerCommit /\ group' = group + 1
    /\ op' = [op EXCEPT ![t] = [pc |-> "op", call |-> call, ino |-> i, arg |-> arg]]
    /\ UNCHANGED <<xmem, buf, logged, xdisk, extents, full>>

BeginFileOp(t) ==
    \E i \in XFiles :
        \/ /\ xmem[i].type = "file" /\ xmem[i].links > 0
           /\ \/ \E bn \in WriteAt : BeginOp(t, "write", i, bn)
              \/ \E s \in SizesCut : BeginOp(t, "truncate", i, s)
        \/ xmem[i].type # "free" /\ xmem[i].links = 0 /\ BeginOp(t, "destroy", i, 0)

\* xv6fs_lookup has found the name, or not, under the directory's lock.  One name is given
\* to files, which can have the other one as well; a device and a symlink are the first
\* name's only.
BeginDirOp(t) ==
    \E n \in DirNames :
        \/ buf.names[n] # 0 /\ BeginOp(t, "unlink", 1, n)
        \/ buf.names[n] = 0 /\ n = 1 /\ \E call \in NewCalls : BeginOp(t, call, 1, n)
        \/ /\ buf.names[n] = 0 /\ n # 1
           /\ \E m \in DirNames : buf.names[m] # 0
           /\ BeginOp(t, "link", 1, n)

\* xv6fs_end_op: the last operation out commits.  Pointer blocks reach the disk only when
\* they were logged.
EndOp(t, w, next) ==
    /\ op' = [op EXCEPT ![t] = next]
    /\ extents' = w.x
    /\ buf' = w.buf
    /\ IF Outstanding(t) = {}
       THEN /\ xdisk' = [w.buf EXCEPT !.ptr = [b \in Blocks |-> IF b \in w.logged THEN w.buf.ptr[b]
                                                                ELSE xdisk.ptr[b]]]
            /\ logged' = {} /\ group' = 0
       ELSE xdisk' = xdisk /\ logged' = w.logged /\ group' = group

\* xv6fs_iupdate writes the inode into its buffer and logs it.
Iupdated(w, i, d) == [w EXCEPT !.buf.dinode[i] = d]

\* xv6fs_file_write of one block: bmap, the page in the page cache, size, iupdate.  Without
\* space the call returns and the inode is not written.
XWrite(t) ==
    LET i == op[t].ino
        bn == op[t].arg
        w == Bmap(Work(i), bn)
        d == [xmem[i] EXCEPT !.addrs = w.addrs, !.size = IF bn < @ THEN @ ELSE bn + 1]
    IN  /\ op[t].pc = "op" /\ op[t].call = "write"
        /\ \/ /\ w.got # 0
              /\ xmem' = [xmem EXCEPT ![i] = d]
              /\ EndOp(t, Iupdated(w, i, d), NoOp)
              /\ UNCHANGED full
           \/ /\ w.got = 0
              /\ xmem' = [xmem EXCEPT ![i].addrs = w.addrs]
              /\ EndOp(t, w, NoOp)
              /\ full' = TRUE

\* Bug: a batch of xv6fs_itrunc is committed without the inode.
BatchForgetsInode(w, i, d) == w
\* xv6fs_iupdate at the end of a batch.
BatchUpdated(w, i, d) == Iupdated(w, i, d)

\* xv6fs_truncate to 0, and xv6fs_destroy_inode: xv6fs_itrunc, one batch per transaction.
\* After the last one the size is 0; destroy frees the dinode in the same transaction.
XTruncBatch(t) ==
    LET i == op[t].ino
        w == FreeBatch(Work(i))
        more == BlocksOf(w.buf.ptr, w.addrs) # {}
        d == [xmem[i] EXCEPT !.addrs = w.addrs, !.size = IF more THEN @ ELSE 0,
                             !.type = IF ~more /\ op[t].call = "destroy" THEN "free" ELSE @]
    IN  /\ op[t].pc = "op"
        /\ op[t].call = "destroy" \/ (op[t].call = "truncate" /\ op[t].arg = 0)
        /\ xmem' = [xmem EXCEPT ![i] = IF d.type = "free" THEN FreeDinode ELSE d]
        /\ EndOp(t, BatchUpdated(w, i, d), IF more THEN [op[t] EXCEPT !.pc = "again"] ELSE NoOp)
        /\ UNCHANGED full

\* The next transaction of xv6fs_itrunc.
XTruncAgain(t) ==
    /\ op[t].pc = "again"
    /\ group < OpsPerCommit /\ group' = group + 1
    /\ op' = [op EXCEPT ![t].pc = "op"]
    /\ UNCHANGED <<xmem, buf, logged, xdisk, extents, full>>

\* xv6fs_truncate to another size: shrink, or allocate every block up to it; without space
\* the blocks allocated so far stay with the inode in memory.
XTruncate(t) ==
    LET i == op[t].ino
        new == op[t].arg
        old == xmem[i].size
        grown[n \in old..MaxFile] ==
            IF n = old THEN [Work(i) EXCEPT !.got = 1]
            ELSE IF grown[n - 1].got = 0 THEN grown[n - 1] ELSE Bmap(grown[n - 1], n - 1)
        w == IF new < old THEN [TruncatePartial(Work(i), new) EXCEPT !.got = 1]
             ELSE IF new > old THEN grown[new] ELSE [Work(i) EXCEPT !.got = 1]
        d == [xmem[i] EXCEPT !.addrs = w.addrs, !.size = new]
    IN  /\ op[t].pc = "op" /\ op[t].call = "truncate" /\ new # 0
        /\ \/ /\ w.got # 0
              /\ xmem' = [xmem EXCEPT ![i] = d]
              /\ EndOp(t, Iupdated(w, i, d), NoOp)
              /\ UNCHANGED full
           \/ /\ w.got = 0
              /\ xmem' = [xmem EXCEPT ![i].addrs = w.addrs]
              /\ EndOp(t, w, NoOp)
              /\ full' = TRUE

\* __xv6fs_dirlink: the directory's first block, which holds all entries here, is allocated
\* with the first of them.  w.got is 0 when that fails.
Dirlink(w, n, i) ==
    LET v == Bmap([w EXCEPT !.addrs = xmem[1].addrs], 0)
        d == [xmem[1] EXCEPT !.addrs = v.addrs, !.size = 1]
    IN  IF v.got = 0 THEN v ELSE [Iupdated(v, 1, d) EXCEPT !.buf.names[n] = i]

\* xv6fs_alloc_inode takes the first dinode that is free.
FreeDinodes == {i \in XFiles : buf.dinode[i].type = "free" /\ xmem[i].type = "free"}
XNewIno == FirstIn(FreeDinodes)
NewDinode(type) == [FreeDinode EXCEPT !.type = type, !.links = 1]

\* The new inode and its name, or what is left when the directory cannot grow: an inode
\* with a link count of 1 and no name, which nothing frees (w is the work before, z the
\* work done to undo it).
LinkNew(t, w, z, d, n) ==
    LET v == Dirlink(w, n, XNewIno) IN
    \/ /\ v.got # 0
       /\ xmem' = [xmem EXCEPT ![1] = v.buf.dinode[1], ![XNewIno] = d]
       /\ EndOp(t, v, NoOp)
       /\ UNCHANGED full
    \/ /\ v.got = 0
       /\ xmem' = [xmem EXCEPT ![XNewIno] = z.buf.dinode[XNewIno]]
       /\ EndOp(t, z, NoOp)
       /\ full' = TRUE

\* Without a free dinode the call fails.
NoDinode(t) ==
    /\ FreeDinodes = {}
    /\ EndOp(t, Work(1), NoOp)
    /\ UNCHANGED <<xmem, full>>

\* xv6fs_create, and xv6fs_mknod, which differs in what the inode says only.
MakeNode(t, type) ==
    LET w == Iupdated(Work(1), XNewIno, NewDinode(type)) IN
    \/ NoDinode(t)
    \/ FreeDinodes # {} /\ LinkNew(t, w, w, NewDinode(type), op[t].arg)

XCreate(t) == op[t].pc = "op" /\ op[t].call = "create" /\ MakeNode(t, "file")
XMknod(t) == op[t].pc = "op" /\ op[t].call = "mknod" /\ MakeNode(t, "node")

\* xv6fs_symlink: a block for the target first, then the name.  When either fails the
\* inode is truncated and stays allocated.
XSymlink(t) ==
    LET i == XNewIno
        w == Bmap([Work(1) EXCEPT !.addrs = NoAddrs], 0)
        d == [NewDinode("link") EXCEPT !.addrs = w.addrs, !.size = 1]
        left == Iupdated(Work(1), i, NewDinode("link"))
        undone == Iupdated(Bfree(w, w.got), i, NewDinode("link"))
    IN  /\ op[t].pc = "op" /\ op[t].call = "symlink"
        /\ \/ NoDinode(t)
           \/ /\ FreeDinodes # {} /\ w.got = 0
              /\ xmem' = [xmem EXCEPT ![i] = NewDinode("link")]
              /\ EndOp(t, left, NoOp)
              /\ full' = TRUE
           \/ /\ FreeDinodes # {} /\ w.got # 0
              /\ LinkNew(t, Iupdated(w, i, d), undone, d, op[t].arg)

\* xv6fs_link gives the file of another name a second one.
XLink(t) ==
    LET i == buf.names[CHOOSE m \in DirNames : buf.names[m] # 0]
        d == [xmem[i] EXCEPT !.links = @ + 1]
    IN  /\ op[t].pc = "op" /\ op[t].call = "link" /\ i \notin Locked
        /\ xmem' = [xmem EXCEPT ![i] = d]
        /\ EndOp(t, Dirlink(Iupdated(Work(1), i, d), op[t].arg, i), NoOp)
        /\ UNCHANGED full

\* xv6fs_unlink: the entry is cleared and the link count written in the same transaction.
XUnlink(t) ==
    LET n == op[t].arg
        i == buf.names[n]
        d == [xmem[i] EXCEPT !.links = @ - 1]
    IN  /\ op[t].pc = "op" /\ op[t].call = "unlink" /\ i \notin Locked
        /\ xmem' = [xmem EXCEPT ![i] = d]
        /\ EndOp(t, [Iupdated(Work(1), i, d) EXCEPT !.buf.names[n] = 0], NoOp)
        /\ UNCHANGED full

\* xv6fs_free_inode and, later, xv6fs_get_inode: an inode nobody uses is read again.
Reload(i) ==
    /\ i \notin Locked /\ xmem[i].links > 0
    /\ xmem[i] # buf.dinode[i]
    /\ xmem' = [xmem EXCEPT ![i] = buf.dinode[i]]
    /\ UNCHANGED <<buf, logged, xdisk, extents, op, group, full>>

\* The machine stops; xv6fs_mount reads the disk as the last commit left it (initlog and
\* xv6fs_bcache_init).  An inode that was unlinked stays allocated: nothing recovers
\* orphans, and no inode in memory stands for it.
XCrash ==
    /\ \E t \in Ops : op[t].pc # "idle"
    /\ buf' = xdisk /\ logged' = {} /\ UNCHANGED xdisk
    /\ xmem' = [i \in XInos |-> IF xdisk.dinode[i].links = 0 THEN FreeDinode ELSE xdisk.dinode[i]]
    /\ extents' = [tree |-> ScanBitmap(xdisk.used), cursor |-> 1]
    /\ op' = [t \in Ops |-> NoOp]
    /\ group' = 0
    /\ full' = full

Xv6fsNext ==
    \/ \E t \in Ops :
         \/ BeginFileOp(t) \/ BeginDirOp(t)
         \/ XWrite(t) \/ XTruncBatch(t) \/ XTruncAgain(t) \/ XTruncate(t) \/ XCreate(t) \/ XMknod(t)
         \/ XSymlink(t) \/ XLink(t) \/ XUnlink(t)
    \/ \E i \in XFiles : Reload(i)
    \/ XCrash

Xv6fsSpec == Xv6fsInit /\ [][Xv6fsNext]_xv6fsVars
-----------------------------------------------------------------------------
DiskBlocksOf(i) == BlocksOf(xdisk.ptr, xdisk.dinode[i].addrs)
Live == {i \in XInos : xdisk.dinode[i].type # "free"}

\* How often a block occurs in an inode: the number of its addresses and pointers.
RefsFrom(ptr, addrs) ==
    LET top == {k \in 1..NDirect + 2 : addrs[k] # 0}
        below(p) == {j \in 0..NIndirect - 1 : p # 0 /\ ptr[p][j] # 0}
    IN  Cardinality(top) + Cardinality(below(addrs[Ind])) + Cardinality(below(addrs[DInd]))
        + MapThenSumSet(LAMBDA p : Cardinality(below(p)), Ptrs(ptr, addrs[DInd]))

\* The disk is consistent after every commit, so at whatever moment the machine stops: a
\* block belongs to one place of one inode and is marked used, and the directory names
\* only allocated inodes with that many links.
DiskIsConsistent ==
    /\ \A i \in Live :
         /\ DiskBlocksOf(i) \subseteq xdisk.used
         /\ RefsFrom(xdisk.ptr, xdisk.dinode[i].addrs) = Cardinality(DiskBlocksOf(i))
         /\ \A k \in Live \ {i} : DiskBlocksOf(i) \cap DiskBlocksOf(k) = {}
    /\ \A n \in DirNames : xdisk.names[n] # 0 => xdisk.dinode[xdisk.names[n]].type # "free"
    /\ \A i \in Live \ {1} : xdisk.dinode[i].links >= Cardinality({n \in DirNames : xdisk.names[n] = i})

\* The cache of free blocks is exactly the bitmap's free blocks, each in one extent, and
\* extents that touch are merged, whatever was allocated and freed in which order.
ExtentsAreExact == extents.tree = ScanBitmap(buf.used)

\* No block is lost or left behind: while the disk has not been full, whenever no call is
\* under way every used block belongs to an inode, and reading behind the end of a file
\* (xv6fs_bmap_read) finds holes only, so a file that grows again shows no old data.
UsedIsOwned ==
    (~full /\ \A t \in Ops : op[t].pc = "idle") =>
        /\ buf.used \subseteq UNION {BlocksOf(buf.ptr, buf.dinode[i].addrs) : i \in XInos}
        /\ \A i \in XFiles : \A bn \in buf.dinode[i].size..MaxFile - 1 :
              BmapRead(buf.ptr, buf.dinode[i].addrs, bn) = 0
=============================================================================
