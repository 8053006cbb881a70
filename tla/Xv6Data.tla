------------------------------ MODULE Xv6Data ------------------------------
(***************************************************************************)
(* The contents of one xv6fs file: kernel/vfs/xv6fs/file.c, the page cache *)
(* callbacks of superblock.c, and the file calls of kernel/vfs/file.c.     *)
(*                                                                         *)
(* A page of the file's page cache holds the contents of Bpp blocks, which *)
(* the flusher and the last close write to the blocks directly.  A block   *)
(* that is new is zeroed through the log, so the zeros reach it when the   *)
(* transaction commits, after its own end_op if other calls are under way. *)
(* Calls write and read whole blocks under the inode's lock: one step.     *)
(* Where the blocks lie is the subject of Xv6fs, how pages move between    *)
(* the lists of the page cache that of Pcache.                             *)
(***************************************************************************)
EXTENDS Integers, FiniteSets

CONSTANTS
    Openers,        \* open files on this file
    FileBlocks,     \* bound: its blocks are 0..FileBlocks-1
    Bpp,            \* BSIZE_PER_PAGE
    DataValues,     \* contents of a block; 0 is zeros, -1 what a free block holds
    LoneWriter,     \* TRUE: nothing is flushed while a transaction is not committed
    LoneTruncate    \* TRUE: O_TRUNC is used when nobody has the file open

ASSUME DataShape == FileBlocks % Bpp = 0 /\ {0, -1} \cap DataValues = {}

VARIABLES
    fsize,          \* inode->size, in blocks
    mapped,         \* blocks of the file that have a disk block
    onDisk,         \* block -> what its disk block holds
    zeroing,        \* new blocks whose zeros are logged and not committed
    page,           \* page -> [cached, dirty, data]: i_data
    fpos2,          \* Openers -> f_pos, -1 when closed
    truth           \* block -> what was written last since the file was truncated

dataVars == <<fsize, mapped, onDisk, zeroing, page, fpos2, truth>>

FileBns == 0..FileBlocks - 1
Pages == 0..(FileBlocks \div Bpp) - 1
Slots2 == 0..Bpp - 1
PageOf(bn) == bn \div Bpp
NoPage == [cached |-> FALSE, dirty |-> FALSE, data |-> [k \in Slots2 |-> 0]]

DataInit ==
    /\ fsize = 0 /\ mapped = {} /\ zeroing = {}
    /\ onDisk = [bn \in FileBns |-> -1]
    /\ page = [p \in Pages |-> NoPage]
    /\ fpos2 = [f \in Openers |-> -1]
    /\ truth = [bn \in FileBns |-> 0]

IsOpen(f) == fpos2[f] >= 0
-----------------------------------------------------------------------------
(* The page cache callbacks.                                               *)

\* xv6fs_pcache_read_page: a block without a disk block reads as zeros.
ReadPage(p, map) == [k \in Slots2 |-> IF p * Bpp + k \in map THEN onDisk[p * Bpp + k] ELSE 0]

\* pcache_get_page and pcache_read_page: the page as the cache has it, or from the disk.
GetPage(p, map) ==
    IF page[p].cached THEN page[p]
    ELSE [cached |-> TRUE, dirty |-> FALSE, data |-> ReadPage(p, map)]

\* xv6fs_pcache_write_page for each page of a set: every block of the page that has a disk
\* block, written or not.
WritePage(S) ==
    [bn \in FileBns |-> IF PageOf(bn) \in S /\ bn \in mapped
                        THEN page[PageOf(bn)].data[bn % Bpp] ELSE onDisk[bn]]

\* Writing back dirty pages; nothing holds the log still meanwhile.
Flush(S) ==
    /\ LoneWriter => zeroing = {}
    /\ onDisk' = WritePage(S)
    /\ page' = [p \in Pages |-> IF p \in S THEN [page[p] EXCEPT !.dirty = FALSE] ELSE page[p]]

DirtyPages == {p \in Pages : page[p].dirty}
-----------------------------------------------------------------------------
(* Calls on the file.                                                      *)

\* sys_vfs_open without O_TRUNC; xv6fs_open starts the page cache.
DataOpen(f) ==
    /\ ~IsOpen(f) /\ fpos2' = [fpos2 EXCEPT ![f] = 0]
    /\ UNCHANGED <<fsize, mapped, onDisk, zeroing, page, truth>>

\* With O_TRUNC: vfs_itruncate and xv6fs_truncate to 0.  The blocks are freed; pages that
\* are cached stay, dirty or not.  Nobody writes the zeros of a freed block any more.
DataOpenTrunc(f) ==
    /\ ~IsOpen(f) /\ fpos2' = [fpos2 EXCEPT ![f] = 0]
    /\ LoneTruncate => \A g \in Openers : ~IsOpen(g)
    /\ fsize' = 0 /\ mapped' = {} /\ zeroing' = {}
    /\ onDisk' = [bn \in FileBns |-> -1]
    /\ truth' = [bn \in FileBns |-> 0]
    /\ UNCHANGED page

\* Bug: the page is not read before a part of it is written.
GetPageBlind(p, map) == IF page[p].cached THEN page[p] ELSE [NoPage EXCEPT !.cached = TRUE]

\* The page a write works on: it is read first, because the write covers a part of it.
PageToWrite(p, map) == GetPage(p, map)

\* vfs_filewrite and xv6fs_file_write: bmap, the page, size and position.  The transaction
\* is committed by end_op, or later when other calls are under way.
DataWrite(f, v) ==
    LET bn == fpos2[f]
        p == PageOf(bn)
        new == {bn} \ mapped
    IN  /\ IsOpen(f) /\ bn < FileBlocks
        /\ mapped' = mapped \cup {bn}
        /\ page' = [page EXCEPT ![p] = [PageToWrite(p, mapped') EXCEPT !.dirty = TRUE,
                                                                       !.data[bn % Bpp] = v]]
        /\ fsize' = IF bn + 1 > fsize THEN bn + 1 ELSE fsize
        /\ fpos2' = [fpos2 EXCEPT ![f] = bn + 1]
        /\ truth' = [truth EXCEPT ![bn] = v]
        /\ \/ /\ zeroing' = zeroing \cup new
              /\ UNCHANGED onDisk
           \/ /\ new # {} /\ zeroing' = {}
              /\ onDisk' = [b \in FileBns |-> IF b \in zeroing \cup new THEN 0 ELSE onDisk[b]]

\* What vfs_fileread and xv6fs_file_read return for the block at pos: -2 at the end.
FileReadBlock(pos) ==
    IF pos >= fsize THEN -2 ELSE GetPage(PageOf(pos), mapped).data[pos % Bpp]

\* xv6fs_file_fault: the page of a mapping, zeros behind the end of the file.
FaultPage(p) ==
    [k \in Slots2 |-> IF p * Bpp + k >= fsize THEN 0 ELSE GetPage(p, mapped).data[k]]

\* vfs_fileread moves the position by what it got.
DataRead(f) ==
    /\ IsOpen(f) /\ fpos2[f] < fsize
    /\ page' = [page EXCEPT ![PageOf(fpos2[f])] = GetPage(PageOf(fpos2[f]), mapped)]
    /\ fpos2' = [fpos2 EXCEPT ![f] = @ + 1]
    /\ UNCHANGED <<fsize, mapped, onDisk, zeroing, truth>>

\* vfs_fput: xv6fs_file_fflush writes every dirty page back.
DataClose(f) ==
    /\ IsOpen(f) /\ fpos2' = [fpos2 EXCEPT ![f] = -1]
    /\ Flush(DirtyPages)
    /\ UNCHANGED <<fsize, mapped, zeroing, truth>>
-----------------------------------------------------------------------------
(* Meanwhile.                                                              *)

\* The flusher (pcache.c) writes one dirty page back.
DataFlush(p) ==
    /\ page[p].dirty /\ Flush({p})
    /\ UNCHANGED <<fsize, mapped, zeroing, fpos2, truth>>

\* A clean page nobody uses is evicted.
DataEvict(p) ==
    /\ page[p].cached /\ ~page[p].dirty
    /\ page' = [page EXCEPT ![p] = NoPage]
    /\ UNCHANGED <<fsize, mapped, onDisk, zeroing, fpos2, truth>>

\* xv6fs_free_inode when the last file is closed: pcache_teardown drops all pages, dirty or
\* not ("fflush was called in vfs_fput").
DataFreeInode ==
    /\ \A f \in Openers : ~IsOpen(f)
    /\ page' = [p \in Pages |-> NoPage]
    /\ UNCHANGED <<fsize, mapped, onDisk, zeroing, fpos2, truth>>

\* The last call out of the transaction commits: __xv6fs_install_trans.
DataCommit ==
    /\ zeroing # {} /\ zeroing' = {}
    /\ onDisk' = [b \in FileBns |-> IF b \in zeroing THEN 0 ELSE onDisk[b]]
    /\ UNCHANGED <<fsize, mapped, page, fpos2, truth>>

DataNext ==
    \/ \E f \in Openers :
         \/ DataOpen(f) \/ DataOpenTrunc(f) \/ DataRead(f) \/ DataClose(f)
         \/ \E v \in DataValues : DataWrite(f, v)
    \/ \E p \in Pages : DataFlush(p) \/ DataEvict(p)
    \/ DataFreeInode
    \/ DataCommit

DataSpec == DataInit /\ [][DataNext]_dataVars
-----------------------------------------------------------------------------
\* Whoever reads a block of the file, or touches a mapping of it, finds what was written
\* there last: however writes, O_TRUNC, the flusher, evictions, closes and commits
\* interleave, data that left the page cache is on the disk.
ReadIsExact ==
    /\ \A bn \in 0..fsize - 1 : FileReadBlock(bn) = truth[bn]
    /\ \A p \in Pages : FaultPage(p) = [k \in Slots2 |-> truth[p * Bpp + k]]

\* After the last close every block of the file is on the disk as it was written: vfs_fput
\* flushes, which "ensures all data is written to disk before the inode can be torn down".
ClosedIsOnDisk ==
    ((\A f \in Openers : ~IsOpen(f)) /\ zeroing = {}) => \A bn \in mapped : onDisk[bn] = truth[bn]
=============================================================================
