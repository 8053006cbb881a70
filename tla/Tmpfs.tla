------------------------------- MODULE Tmpfs -------------------------------
(***************************************************************************)
(* The data and the directories of tmpfs: kernel/vfs/tmpfs/file.c,         *)
(* truncate.c and inode.c.                                                 *)
(*                                                                         *)
(* A small file lives in the inode (embedded); when it outgrows that it    *)
(* moves to the pages of its page cache, which for tmpfs is the only copy. *)
(* A page that is not cached reads as zeros, so bytes is the content of    *)
(* all pages, cached or not.  Every operation runs under the inode's lock  *)
(* (or, on directories, the superblock's), so it is one step; which inodes *)
(* are in use meanwhile is the business of Vfs.  Pages are not evicted:    *)
(* that needs more pages than the page cache's limit.                      *)
(***************************************************************************)
EXTENDS Integers, FiniteSets, Sequences

CONSTANTS
    TmpInos,        \* inodes 1..n; 1 is the root
    TmpNames,       \* names
    EmbLen,         \* TMPFS_INODE_EMBEDDED_DATA_LEN
    PageLen,        \* PAGE_SIZE
    MaxSize,        \* TMPFS_MAX_FILE_SIZE
    Bytes,          \* values of a byte; 0 is the one of a fresh page
    TruncateTo,     \* sizes files are truncated to
    Sparse,         \* TRUE: files are also written behind their end
    CopyFails       \* TRUE: user memory may be bad half way through a write

ASSUME TmpSizes == EmbLen < PageLen /\ MaxSize % PageLen = 0 /\ 0 \in Bytes

VARIABLES
    tino,           \* TmpInos -> struct tmpfs_inode
    tdir,           \* TmpInos -> TmpNames -> inode, 0 for none (struct tmpfs_dentry)
    fpos,           \* the position of one open file on the first regular file
    written         \* TmpInos -> the bytes the calls that returned have put there

tmpfsVars == <<tino, tdir, fpos, written>>

Offsets == 0..MaxSize - 1
Zeros == [o \in Offsets |-> 0]
NoInode == [kind |-> "free", links |-> 0, size |-> 0, embedded |-> FALSE, active |-> FALSE, bytes |-> Zeros]
NoNames == [n \in TmpNames |-> 0]

\* tmpfs_mount: an empty root with two links.
TmpfsInit ==
    /\ tino = [i \in TmpInos |-> IF i = 1 THEN [NoInode EXCEPT !.kind = "dir", !.links = 2] ELSE NoInode]
    /\ tdir = [i \in TmpInos |-> NoNames]
    /\ fpos = 0
    /\ written = [i \in TmpInos |-> Zeros]

TmpFiles == {i \in TmpInos : tino[i].kind = "file"}
TmpDirs == {i \in TmpInos : tino[i].kind = "dir"}
-----------------------------------------------------------------------------
(* Files.                                                                  *)

Cut(n, limit) == IF n > limit THEN limit ELSE n
Clamp(n) == IF n < 0 THEN 0 ELSE n
Slice(bytes, pos, n) == [k \in 1..Clamp(n) |-> bytes[pos + k - 1]]

\* __tmpfs_file_read: what a read of n bytes at pos returns; <<-1>> is -EIO.
FileRead(f, pos, n) ==
    IF pos >= f.size THEN << >>
    ELSE IF f.embedded THEN Slice(f.bytes, pos, Cut(Cut(n, f.size - pos), EmbLen - pos))
    ELSE IF ~f.active THEN <<-1>>
    ELSE Slice(f.bytes, pos, Cut(n, f.size - pos))

\* __tmpfs_file_fault: the page of a mapping at page p of the file, filled up with zeros;
\* <<-1>> is a failed fault.
FileFault(f, p) ==
    LET off == p * PageLen
        have == IF f.embedded THEN Cut(Cut(PageLen, f.size - off), EmbLen - off)
                              ELSE Cut(PageLen, f.size - off)
    IN  IF off >= f.size THEN [k \in 1..PageLen |-> 0]
        ELSE IF ~f.embedded /\ ~f.active THEN <<-1>>
        ELSE [k \in 1..PageLen |-> IF k =< have THEN f.bytes[off + k - 1] ELSE 0]

\* __tmpfs_migrate_to_allocated_blocks: the size bytes are saved, the union is cleared,
\* the page cache comes up and takes them.  Without memory the data is gone and the page
\* cache inactive.
Migrate(f, ok) ==
    [f EXCEPT !.embedded = FALSE, !.active = ok,
              !.bytes = [o \in Offsets |-> IF ok /\ o < f.size THEN f.bytes[o] ELSE 0]]

PutBytes(bytes, pos, n, v) == [o \in Offsets |-> IF o >= pos /\ o < pos + n THEN v ELSE bytes[o]]

\* __tmpfs_file_write into the inode, and after a migration into the pages.  done is the
\* number of bytes copied before user memory turned out bad; then the size stays as it is.
WriteEmbedded(f, pos, n, v) ==
    [f EXCEPT !.bytes = PutBytes(@, pos, n, v), !.size = IF pos + n > @ THEN pos + n ELSE @]

WritePages(f, pos, n, done, v) ==
    [f EXCEPT !.bytes = PutBytes(@, pos, done, v), !.size = IF done = n /\ pos + n > @ THEN pos + n ELSE @]

FitsEmbedded(f, end) == f.embedded /\ end =< EmbLen

\* What can have been copied when the copy fails: whole chunks up to a page boundary.
Chunks(pos, n) == IF CopyFails THEN {k \in 0..n : k = n \/ (pos + k) % PageLen = 0} ELSE {n}

\* vfs_filewrite through the open file: the position moves by what was written.  Past
\* TMPFS_MAX_FILE_SIZE the call fails.
TmpWrite(i, n, v) ==
    LET f == tino[i] IN
    /\ i \in TmpFiles /\ fpos + n =< MaxSize
    /\ Sparse \/ fpos =< f.size
    /\ \/ /\ FitsEmbedded(f, fpos + n)
          /\ tino' = [tino EXCEPT ![i] = WriteEmbedded(f, fpos, n, v)]
          /\ written' = [written EXCEPT ![i] = PutBytes(@, fpos, n, v)]
          /\ fpos' = fpos + n
       \/ /\ ~FitsEmbedded(f, fpos + n) /\ (f.embedded \/ f.active)
          /\ \E done \in Chunks(fpos, n) :
               /\ tino' = [tino EXCEPT ![i] =
                             WritePages(IF f.embedded THEN Migrate(f, TRUE) ELSE f, fpos, n, done, v)]
               /\ written' = [written EXCEPT ![i] = PutBytes(@, fpos, done, v)]
               /\ fpos' = fpos + done
       \/ /\ f.embedded /\ ~FitsEmbedded(f, fpos + n)
          /\ tino' = [tino EXCEPT ![i] = Migrate(f, FALSE)]
          /\ UNCHANGED <<written, fpos>>
    /\ UNCHANGED tdir

\* vfs_fileread: the position moves by what the driver returned.
TmpRead(i, n) ==
    LET r == FileRead(tino[i], fpos, n) IN
    /\ i \in TmpFiles /\ r \notin {<<>>, <<-1>>}
    /\ fpos' = fpos + Len(r)
    /\ UNCHANGED <<tino, tdir, written>>

\* __tmpfs_file_llseek: SEEK_SET, SEEK_CUR and SEEK_END.
Llseek(f, off, whence) ==
    off + (CASE whence = "set" -> 0 [] whence = "cur" -> fpos [] whence = "end" -> f.size)

\* vfs_filelseek refuses a negative position.
TmpSeek(i, off, whence) ==
    LET p == Llseek(tino[i], off, whence) IN
    /\ i \in TmpFiles /\ p \in Offsets \ {fpos} /\ fpos' = p
    /\ UNCHANGED <<tino, tdir, written>>

\* __tmpfs_truncate_shrink discards the pages behind the new size; the rest of the last
\* page, and an embedded file, keep their bytes.
Shrink(f, new) ==
    IF f.embedded \/ ~f.active THEN f
    ELSE [f EXCEPT !.bytes = [o \in Offsets |->
             IF o \div PageLen >= (new + PageLen - 1) \div PageLen THEN 0 ELSE @[o]]]

\* __tmpfs_truncate_grow: in the inode the gap is zeroed, otherwise the file moves.
Grow(f, new, ok) ==
    IF f.embedded /\ new =< EmbLen
    THEN [f EXCEPT !.bytes = [o \in Offsets |-> IF o >= f.size /\ o < new THEN 0 ELSE @[o]]]
    ELSE IF f.embedded THEN Migrate(f, ok) ELSE f

\* Behind the end of a file there is nothing.
Forget(bytes, size) == [o \in Offsets |-> IF o < size THEN bytes[o] ELSE 0]

\* __tmpfs_truncate.
TmpTruncate(i, new) ==
    LET f == tino[i] IN
    /\ i \in TmpFiles
    /\ \/ /\ f.size < new
          /\ tino' = [tino EXCEPT ![i] = [Grow(f, new, TRUE) EXCEPT !.size = new]]
       \/ /\ f.size < new /\ f.embedded /\ new > EmbLen
          /\ tino' = [tino EXCEPT ![i] = Grow(f, new, FALSE)]
       \/ /\ f.size > new
          /\ tino' = [tino EXCEPT ![i] = [Shrink(f, new) EXCEPT !.size = new]]
    /\ written' = [written EXCEPT ![i] = Forget(@, tino'[i].size)]
    /\ UNCHANGED <<tdir, fpos>>
-----------------------------------------------------------------------------
(* Directories.                                                            *)

\* __tmpfs_dir_lookup_by_name.
Find(d, n) == tdir[d][n]

\* __tmpfs_alloc_link_inode: the name must be free; the lowest inode structure is taken.
FreeTmpInos == {i \in TmpInos : tino[i].kind = "free"}
NewTmpIno == CHOOSE i \in FreeTmpInos : \A j \in FreeTmpInos : i =< j
CanAdd(d, n) == d \in TmpDirs /\ Find(d, n) = 0 /\ FreeTmpInos # {}

\* __tmpfs_make_regfile, tmpfs_make_directory, tmpfs_make_cdev, tmpfs_make_bdev and the
\* two kinds of symlinks.
Made(kind) ==
    [NoInode EXCEPT !.kind = kind, !.links = IF kind = "dir" THEN 2 ELSE 1,
                    !.embedded = kind = "file"]

\* __tmpfs_create, __tmpfs_mknod, __tmpfs_symlink (when the target has its memory).
TmpCreate(d, n, kind) ==
    /\ CanAdd(d, n) /\ kind \in {"file", "node", "symlink"}
    /\ kind = "file" => TmpFiles = {}
    /\ tino' = [tino EXCEPT ![NewTmpIno] = Made(kind)]
    /\ tdir' = [tdir EXCEPT ![d][n] = NewTmpIno]
    /\ written' = [written EXCEPT ![NewTmpIno] = Zeros]
    /\ fpos' = IF kind = "file" THEN 0 ELSE fpos

\* __tmpfs_mkdir.
TmpMkdir(d, n) ==
    /\ CanAdd(d, n)
    /\ tino' = [tino EXCEPT ![NewTmpIno] = Made("dir"), ![d].links = @ + 1]
    /\ tdir' = [tdir EXCEPT ![d][n] = NewTmpIno]
    /\ UNCHANGED <<fpos, written>>

\* __tmpfs_link.
TmpLink(i, d, n) ==
    /\ d \in TmpDirs /\ tino[i].kind \notin {"free", "dir"} /\ Find(d, n) = 0
    /\ tino' = [tino EXCEPT ![i].links = @ + 1]
    /\ tdir' = [tdir EXCEPT ![d][n] = i]
    /\ UNCHANGED <<fpos, written>>

\* __tmpfs_destroy_inode, when the last name goes: pages and symlink target are freed.
Destroyed(f) == IF f.links = 0 THEN NoInode ELSE f

\* __tmpfs_unlink.
TmpUnlink(d, n) ==
    LET i == Find(d, n) IN
    /\ d \in TmpDirs /\ i # 0 /\ i \notin TmpDirs
    /\ tino' = [tino EXCEPT ![i] = Destroyed([@ EXCEPT !.links = @ - 1])]
    /\ tdir' = [tdir EXCEPT ![d][n] = 0]
    /\ written' = [written EXCEPT ![i] = IF tino'[i].kind = "free" THEN Zeros ELSE @]
    /\ fpos' = IF tino'[i].kind = "free" /\ i \in TmpFiles THEN 0 ELSE fpos

\* __tmpfs_rmdir of an empty directory (the caller has looked); it asserts two links.
TmpRmdir(d, n) ==
    LET i == Find(d, n) IN
    /\ d \in TmpDirs /\ i # 0 /\ i \in TmpDirs /\ tdir[i] = NoNames
    /\ tino' = [tino EXCEPT ![i] = Destroyed([@ EXCEPT !.links = @ - 2]), ![d].links = @ - 1]
    /\ tdir' = [tdir EXCEPT ![d][n] = 0]
    /\ UNCHANGED <<fpos, written>>

\* __tmpfs_move, when memory suffices.  Its only caller, the smoke test, moves a file.
TmpMove(d, n, e, m) ==
    LET i == Find(d, n) IN
    /\ {d, e} \subseteq TmpDirs /\ i # 0 /\ i \notin TmpDirs /\ Find(e, m) = 0
    /\ tdir' = [tdir EXCEPT ![d][n] = 0, ![e][m] = i]
    /\ UNCHANGED <<tino, fpos, written>>
-----------------------------------------------------------------------------
TmpfsNext ==
    \/ \E i \in TmpInos, n \in 1..PageLen, v \in Bytes \ {0} : TmpWrite(i, n, v)
    \/ \E i \in TmpInos, n \in 1..PageLen : TmpRead(i, n)
    \/ \E i \in TmpInos, off \in -1..PageLen, whence \in {"set", "cur", "end"} : TmpSeek(i, off, whence)
    \/ \E i \in TmpInos, s \in TruncateTo : TmpTruncate(i, s)
    \/ \E d \in TmpInos, n \in TmpNames :
         \/ \E kind \in {"file", "node", "symlink"} : TmpCreate(d, n, kind)
         \/ TmpMkdir(d, n) \/ TmpUnlink(d, n) \/ TmpRmdir(d, n)
         \/ \E i \in TmpInos : TmpLink(i, d, n)
         \/ \E e \in TmpInos, m \in TmpNames : TmpMove(d, n, e, m)

TmpfsSpec == TmpfsInit /\ [][TmpfsNext]_tmpfsVars
-----------------------------------------------------------------------------
\* Reading a file, or touching a mapping of it, returns what was written there last, and
\* zeros where nothing was written: whatever writes, truncations and moves from the inode
\* to pages came before (__tmpfs_file_read, tmpfs_pcache_read_page's "unwritten data is
\* zeros").  A file whose move failed for lack of memory gives errors, never wrong data.
UnwrittenIsZero ==
    \A i \in TmpFiles :
        /\ \A pos \in Offsets : \A n \in 1..PageLen :
             FileRead(tino[i], pos, n) \in
               {<<-1>>, Slice(written[i], pos, Cut(n, tino[i].size - pos))}
        /\ \A p \in 0..(MaxSize \div PageLen) - 1 :
             FileFault(tino[i], p) \in
               {<<-1>>, Slice(Forget(written[i], tino[i].size), p * PageLen, PageLen)}

\* The tree is sound after any sequence of directory operations: a name leads to an
\* inode in use, a directory has one name and its link count is two plus its
\* subdirectories (what __tmpfs_rmdir asserts), any other inode has as many names as links.
TreeIsSound ==
    LET names(i) == {<<d, n>> \in TmpInos \X TmpNames : tdir[d][n] = i}
        subdirs(d) == {n \in TmpNames : tdir[d][n] # 0 /\ tino[tdir[d][n]].kind = "dir"}
    IN  \A i \in TmpInos :
          /\ tino[i].kind = "free" => names(i) = {} /\ tdir[i] = NoNames
          /\ tino[i].kind = "dir" => /\ tino[i].links = 2 + Cardinality(subdirs(i))
                                     /\ i # 1 => Cardinality(names(i)) = 1
          /\ tino[i].kind \notin {"free", "dir"} => tino[i].links = Cardinality(names(i))
=============================================================================
