-------------------------------- MODULE Vfs --------------------------------
(***************************************************************************)
(* The inode cache of one mounted file system: kernel/vfs/fs.c and         *)
(* kernel/vfs/inode.c, driven by the directory operations of xv6fs         *)
(* (backendless FALSE: an inode nobody holds is evicted and read again)    *)
(* and of tmpfs (backendless TRUE: a linked inode lives in the cache       *)
(* alone).                                                                 *)
(*                                                                         *)
(* A section under the superblock's write lock, or a look-up under its     *)
(* read lock, is one step: the state it touches is only written under that *)
(* lock.  The places where vfs_iput and the look-up drop the lock are the  *)
(* ones that matter, and there the steps end.  Reference counts are atomic *)
(* and change outside the locks too.                                       *)
(*                                                                         *)
(* No caller of vfs_dirty_inode, vfs_move or vfs_unmount_lazy exists        *)
(* outside the smoke tests; they are left out.                             *)
(***************************************************************************)
EXTENDS Integers, FiniteSets, Sequences

CONSTANTS
    VfsThreads,     \* threads in file system calls
    Inos,           \* inode numbers, 1..n; 1 is the root
    Objs,           \* struct vfs_inode memory, 1..m; 1 is the root's
    Names,          \* names a directory can hold
    VfsMixes,       \* workloads: the calls made, the names used, the inodes on the disk
    QuietUnmount    \* TRUE: umount is called when nobody else uses the file system

Root == 1
NoIno == 0
NoObj == 0

VARIABLES
    inode,          \* Objs -> struct vfs_inode
    disk,           \* Inos -> the on-disk inode (for tmpfs only the numbers given out)
    entries,        \* Inos -> Names -> inode number, the directory entries
    call,           \* VfsThreads -> the call in progress and the inode held open
    deferred,       \* references queued for __vfs_iput_work_func
    sb,             \* struct vfs_superblock
    mix             \* the workload of this behaviour

vfsVars == <<inode, disk, entries, call, deferred, sb, mix>>

FreeInode == [live |-> FALSE, cached |-> FALSE, ino |-> NoIno, dir |-> FALSE, ref |-> 0,
              links |-> 0, destroying |-> FALSE, orphan |-> FALSE, parent |-> NoObj]

\* __vfs_inode_init, and vfs_add_inode's valid = 1: what a new inode starts with.
FreshInode(i, isDir, links, parent) ==
    [FreeInode EXCEPT !.live = TRUE, !.cached = TRUE, !.ino = i, !.dir = isDir, !.ref = 1,
                      !.links = links, !.parent = IF isDir THEN parent ELSE NoObj]

FreeOnDisk == [type |-> "free", links |-> 0]
Idle == [pc |-> "idle", op |-> "none", dir |-> NoIno, name |-> "none", ino |-> NoIno,
         obj |-> NoObj, held |-> NoObj]

NoEntries == [n \in Names |-> NoIno]
LinksOfNewDir == IF sb.backendless THEN 2 ELSE 1

\* __vfs_inode_hash_get.
HashGet(i) == {o \in Objs : inode[o].live /\ inode[o].cached /\ inode[o].ino = i}

\* slab_alloc hands out the lowest inode structure that is free and that no queued work
\* still points to.
FreeObjs == {o \in Objs : ~inode[o].live /\ o \notin deferred}
NewObj == CHOOSE o \in FreeObjs : \A p \in FreeObjs : o =< p

VfsInit ==
    /\ inode = [o \in Objs |-> IF o = Root THEN FreshInode(1, TRUE, 2, NoObj) ELSE FreeInode]
    /\ disk = [i \in Inos |-> IF i = 1 THEN [type |-> "dir", links |-> 2] ELSE FreeOnDisk]
    /\ entries = [i \in Inos |-> NoEntries]
    /\ call = [t \in VfsThreads |-> Idle]
    /\ deferred = {}
    /\ sb \in [backendless: BOOLEAN, mounted: {TRUE}, orphans: {{}}]
    /\ mix \in VfsMixes
-----------------------------------------------------------------------------
(* Resolving a name: vfs_ilookup, then vfs_get_dentry_inode.               *)

IsIdle(t) == call[t].pc = "idle"

\* The directory a call starts in: the root, or the directory the thread has as its
\* current one (held).
StartDirs(t) ==
    {1} \cup {inode[o].ino : o \in {p \in Objs : call[t].held = p /\ inode[p].dir}}

Begin(t, op, d, n, i, pc) ==
    call' = [call EXCEPT ![t] = [@ EXCEPT !.pc = pc, !.op = op, !.dir = d, !.name = n, !.ino = i]]

\* A call that holds no inode any more returns.
Done(c) == [c EXCEPT !.pc = "idle", !.op = "none", !.dir = NoIno, !.name = "none",
                     !.ino = NoIno, !.obj = NoObj]

\* vfs_ilookup: under the read lock and the directory's lock the driver finds the number.
\* The directory stays pinned by the root or by the thread's own reference.
Lookup(t, op, d, n) ==
    /\ IsIdle(t) /\ sb.mounted /\ op \in mix.calls
    /\ entries[d][n] # NoIno
    /\ Begin(t, op, d, n, entries[d][n], "dentry")
    /\ UNCHANGED <<inode, disk, entries, deferred, sb, mix>>

\* The system calls that look a name up: sys_vfs_open and sys_vfs_chdir, sys_vfs_unlink,
\* sys_vfs_link (whose second name is given when the inode is held).
SysOpen(t) ==
    call[t].held = NoObj /\ \E d \in StartDirs(t), n \in mix.names : Lookup(t, "open", d, n)
SysUnlink(t) == \E d \in StartDirs(t), n \in mix.names : Lookup(t, "unlink", d, n)
SysLink(t) == \E d \in StartDirs(t), n \in mix.names : Lookup(t, "link", d, n)

\* What the next step of a call is once it holds the inode.
AfterGet(op) == IF op = "open" THEN "open" ELSE "locked"

\* vfs_get_inode_cached: a reference is taken first (never from 0, unless the file system
\* has no backend and the inode is still linked), and only then is the inode looked at.
CanDup(o) ==
    inode[o].ref > 0 \/ (sb.backendless /\ inode[o].links > 0 /\ ~inode[o].destroying)
Usable(o) == CanDup(o) /\ ~inode[o].destroying

\* A dying inode: the reference just taken is given to the deferred work queue.
Deferring(o) == CanDup(o) /\ inode[o].destroying
TakeRef(o) == inode' = [inode EXCEPT ![o].ref = @ + 1]

GetCached(t) ==
    /\ call[t].pc = "dentry"
    /\ \/ \E o \in HashGet(call[t].ino) :
            /\ Usable(o)
            /\ TakeRef(o)
            /\ call' = [call EXCEPT ![t].pc = AfterGet(call[t].op), ![t].obj = o]
            /\ UNCHANGED deferred
       \/ \E o \in HashGet(call[t].ino) :
            /\ Deferring(o) /\ o \notin deferred
            /\ TakeRef(o)
            /\ deferred' = deferred \cup {o}
            /\ call' = [call EXCEPT ![t].pc = "load"]
       \/ /\ \A o \in HashGet(call[t].ino) : ~CanDup(o)
          /\ call' = [call EXCEPT ![t].pc = "load"]
          /\ UNCHANGED <<inode, deferred>>
    /\ UNCHANGED <<disk, entries, sb, mix>>

\* xv6fs_get_inode finds the inode allocated on the disk; tmpfs_get_inode never does.
OnDisk(i) == ~sb.backendless /\ disk[i].type # "free"

\* __vfs_set_parent_from_dentry and vfs_mkdir: a cached directory holds its parent.
WithParentRef(f, isDir, p) == IF isDir THEN [f EXCEPT ![p].ref = @ + 1] ELSE f

\* The write-locked half of __vfs_get_dentry_inode_impl: look in the cache again, then
\* load the inode.  One that is being destroyed makes vfs_add_inode return -EAGAIN and
\* the call fails.
LoadInode(t) ==
    LET i == call[t].ino
        d == CHOOSE p \in HashGet(call[t].dir) : TRUE
    IN  /\ call[t].pc = "load"
        /\ \/ /\ sb.mounted
              /\ \E o \in HashGet(i) :
                   /\ Usable(o)
                   /\ TakeRef(o)
                   /\ call' = [call EXCEPT ![t].pc = AfterGet(call[t].op), ![t].obj = o]
           \/ /\ sb.mounted /\ HashGet(i) = {} /\ OnDisk(i) /\ FreeObjs # {}
              /\ inode' = WithParentRef(
                     [inode EXCEPT ![NewObj] = FreshInode(i, disk[i].type = "dir", disk[i].links, d)],
                     disk[i].type = "dir", d)
              /\ call' = [call EXCEPT ![t].pc = AfterGet(call[t].op), ![t].obj = NewObj]
           \/ /\ \/ ~sb.mounted
                 \/ \E o \in HashGet(i) : ~Usable(o)
                 \/ HashGet(i) = {} /\ ~OnDisk(i)
              /\ call' = [call EXCEPT ![t] = Done(@)]
              /\ UNCHANGED inode
        /\ UNCHANGED <<disk, entries, deferred, sb, mix>>

\* vfs_fileopen or vfs_chdir keep the reference; the file or the fs_struct owns it now.
KeepOpen(t) ==
    /\ call[t].pc = "open"
    /\ call' = [call EXCEPT ![t] = [Done(@) EXCEPT !.held = call[t].obj]]
    /\ UNCHANGED <<inode, disk, entries, deferred, sb, mix>>
-----------------------------------------------------------------------------
(* Creating, linking and unlinking: the sections under the write lock.     *)

\* xv6fs_iupdate: the link count goes to the disk with every change.
Iupdate(d, i, n) == [d EXCEPT ![i].links = n]

\* xv6fs_alloc_inode takes the first inode number free on the disk; tmpfs never uses a
\* number twice.
FreeInos == {i \in mix.inos : disk[i].type = "free"}
NewIno == CHOOSE i \in FreeInos : \A j \in FreeInos : i =< j

\* xv6fs_create, __tmpfs_create and the calls like them: a new inode with one link.
MadeFile(o, i) == [inode EXCEPT ![o] = FreshInode(i, FALSE, 1, NoObj)]

\* xv6fs_mkdir and __tmpfs_mkdir: the new directory holds its parent, whose link count its
\* ".." raises.
MadeDir(o, i, p) ==
    [WithParentRef([inode EXCEPT ![o] = FreshInode(i, TRUE, LinksOfNewDir, p)], TRUE, p)
       EXCEPT ![p].links = @ + 1]

\* What the creating calls have in common.  When the number is still cached by an inode that
\* is being destroyed, vfs_alloc_inode returns -EAGAIN; the caller drops everything, yields
\* and tries again, which is this step not being taken.
NewInode(t, op, d, n, isDir) ==
    LET o == NewObj
        i == NewIno
        p == CHOOSE q \in HashGet(d) : TRUE
    IN  /\ IsIdle(t) /\ sb.mounted /\ op \in mix.calls
        /\ HashGet(d) # {} /\ entries[d][n] = NoIno
        /\ FreeInos # {} /\ FreeObjs # {} /\ HashGet(i) = {}
        /\ inode' = IF isDir THEN MadeDir(o, i, p) ELSE MadeFile(o, i)
        /\ disk' = Iupdate([disk EXCEPT ![i] = [type |-> IF isDir THEN "dir" ELSE "file",
                                                links |-> inode'[o].links]],
                           d, inode'[p].links)
        /\ entries' = [entries EXCEPT ![d][n] = i, ![i] = NoEntries]
        /\ call' = [call EXCEPT ![t] =
                      IF op = "create" THEN [@ EXCEPT !.held = o]
                      ELSE [@ EXCEPT !.pc = "put", !.op = op, !.obj = o]]
        /\ UNCHANGED <<deferred, sb, mix>>

\* vfs_create keeps the new inode for the open file; the new inode of vfs_mkdir, vfs_mknod
\* (which does not look whether the name exists: its callers do not use one that does) and
\* vfs_symlink is put by the system call.
Create(t, d, n) == call[t].held = NoObj /\ NewInode(t, "create", d, n, FALSE)
Mkdir(t, d, n) == NewInode(t, "mkdir", d, n, TRUE)
Mknod(t, d, n) == NewInode(t, "mknod", d, n, FALSE)
Symlink(t, d, n) == NewInode(t, "symlink", d, n, FALSE)

\* The system calls: vfs_nameiparent leads to a directory that stays pinned meanwhile.
SysOpenCreate(t) == \E d \in StartDirs(t), n \in mix.names : Create(t, d, n)
SysMkdir(t) == \E d \in StartDirs(t), n \in mix.names : Mkdir(t, d, n)
SysMknod(t) == \E d \in StartDirs(t), n \in mix.names : Mknod(t, d, n)
SysSymlink(t) == \E d \in StartDirs(t), n \in mix.names : Symlink(t, d, n)

PutNext(t) == call' = [call EXCEPT ![t].pc = "put"]

\* vfs_dir_isempty.
IsEmptyDir(i) == entries[i] = NoEntries

\* xv6fs_unlink, __tmpfs_unlink: the entry must still exist and name the inode looked up.
EntryNames(d, n, i) == entries[d][n] = i

\* Bug: a directory in use can be removed.
RmdirBusyToo(o) == IsEmptyDir(inode[o].ino)

\* vfs_unlink refuses a directory with entries or with another user.
Removable(o) == IsEmptyDir(inode[o].ino) /\ inode[o].ref =< 1

\* vfs_make_orphan: the last name goes while somebody else holds the inode.
Orphaned(o, left) == inode[o].orphan \/ (left = 0 /\ inode[o].ref > 1)

\* vfs_unlink's locked section: rmdir or unlink, and vfs_make_orphan when somebody else
\* still holds the inode.  The reference of the look-up is put afterwards in every case.
UnlinkLocked(t) ==
    LET c == call[t]
        o == c.obj
        p == CHOOSE q \in HashGet(c.dir) : TRUE
        left == IF inode[o].dir THEN 0 ELSE inode[o].links - 1
    IN  /\ c.pc = "locked" /\ c.op = "unlink"
        /\ \/ /\ EntryNames(c.dir, c.name, c.ino)
              /\ inode[o].dir => Removable(o)
              /\ entries' = [entries EXCEPT ![c.dir][c.name] = NoIno]
              /\ inode' = [inode EXCEPT ![o].links = left,
                                        ![o].orphan = Orphaned(o, left),
                                        ![p].links = IF inode[o].dir THEN @ - 1 ELSE @]
              /\ disk' = Iupdate(Iupdate(disk, c.ino, left), c.dir, inode'[p].links)
              /\ sb' = [sb EXCEPT !.orphans = {q \in Objs : inode'[q].live /\ inode'[q].orphan}]
           \/ /\ ~EntryNames(c.dir, c.name, c.ino) \/ (inode[o].dir /\ ~Removable(o))
              /\ UNCHANGED <<inode, disk, entries, sb>>
        /\ PutNext(t)
        /\ UNCHANGED <<deferred, mix>>

\* vfs_link's locked section: directories are refused, the new name must be free.
LinkLocked(t, n) ==
    LET c == call[t]
        o == c.obj
    IN  /\ c.pc = "locked" /\ c.op = "link"
        /\ \/ /\ ~inode[o].dir /\ entries[1][n] = NoIno
              /\ inode' = [inode EXCEPT ![o].links = @ + 1]
              /\ disk' = Iupdate(disk, c.ino, inode[o].links + 1)
              /\ entries' = [entries EXCEPT ![1][n] = c.ino]
           \/ /\ inode[o].dir \/ entries[1][n] # NoIno
              /\ UNCHANGED <<inode, disk, entries>>
        /\ PutNext(t)
        /\ UNCHANGED <<deferred, sb, mix>>
-----------------------------------------------------------------------------
(* vfs_iput.                                                               *)

\* vfs_inode_put_ref: the file is closed, the process leaves its directory.
Close(t) ==
    /\ IsIdle(t) /\ call[t].held # NoObj
    /\ call' = [call EXCEPT ![t] = [@ EXCEPT !.pc = "put", !.op = "close", !.obj = call[t].held,
                                             !.held = NoObj]]
    /\ UNCHANGED <<inode, disk, entries, deferred, sb, mix>>

\* The inode stays in the cache with no reference: all linked inodes of a backendless
\* file system, and the root.
StaysCached(o) == inode[o].links > 0 /\ (sb.backendless \/ o = Root)

\* vfs_remove_inode and free_inode, then the same for the parent of a directory.
FreeAndGoUp(t, o) ==
    /\ inode' = [inode EXCEPT ![o] = FreeInode]
    /\ call' = [call EXCEPT ![t] = IF inode[o].parent = NoObj THEN Done(@)
                                   ELSE [@ EXCEPT !.pc = "put", !.obj = inode[o].parent]]

\* Marked destroying, and off the orphan list, before the locks are dropped for the
\* transaction.
MarkDestroying(t, o) ==
    /\ inode' = [inode EXCEPT ![o].orphan = FALSE, ![o].destroying = TRUE]
    /\ sb' = [sb EXCEPT !.orphans = @ \ {o}]
    /\ call' = [call EXCEPT ![t].pc = "destroy"]

\* Bug: the reference count is not tested again under the locks.
PutIgnoresOthers(t) ==
    LET o == call[t].obj IN
    /\ call[t].pc = "put"
    /\ \/ /\ inode[o].links = 0
          /\ MarkDestroying(t, o)
       \/ /\ inode[o].links > 0
          /\ inode' = [inode EXCEPT ![o].ref = @ - 1]
          /\ call' = [call EXCEPT ![t] = Done(@)]
          /\ UNCHANGED sb
    /\ UNCHANGED <<disk, entries, deferred, mix>>

\* One of several references is dropped, with the locks or without; or the last one, and
\* the inode stays, is destroyed, or (xv6fs, still linked) is evicted under the same locks.
PutLocked(t) ==
    LET o == call[t].obj
        last == inode[o].ref = 1 /\ ~StaysCached(o)
    IN  /\ call[t].pc = "put"
        /\ \/ /\ ~last
              /\ inode' = [inode EXCEPT ![o].ref = @ - 1]
              /\ call' = [call EXCEPT ![t] = Done(@)]
              /\ UNCHANGED sb
           \/ last /\ inode[o].links = 0 /\ MarkDestroying(t, o)
           \/ /\ last /\ inode[o].links > 0
              /\ FreeAndGoUp(t, o)
              /\ sb' = [sb EXCEPT !.orphans = @ \ {o}]
        /\ UNCHANGED <<disk, entries, deferred, mix>>

\* destroy_inode in its own transaction, no lock held: xv6fs marks the number free on the
\* disk (xv6fs_destroy_inode); tmpfs frees the data.
DestroyInode(t) ==
    /\ call[t].pc = "destroy"
    /\ disk' = IF sb.backendless THEN disk
               ELSE [disk EXCEPT ![inode[call[t].obj].ino] = FreeOnDisk]
    /\ call' = [call EXCEPT ![t].pc = "remove"]
    /\ UNCHANGED <<inode, entries, deferred, sb, mix>>

\* The locks are taken again and the inode goes, whatever its reference count is now.
RemoveInode(t) ==
    /\ call[t].pc = "remove"
    /\ FreeAndGoUp(t, call[t].obj)
    /\ UNCHANGED <<disk, entries, deferred, sb, mix>>

\* __vfs_iput_work_func: the worker drops the reference a look-up left behind.  When the
\* inode was freed meanwhile, the count it writes is in free memory.  Otherwise the thread
\* that destroys the inode still holds it, and the count goes down.
DeferredPut(o) ==
    /\ o \in deferred
    /\ deferred' = deferred \ {o}
    /\ inode' = IF inode[o].live THEN [inode EXCEPT ![o].ref = @ - 1] ELSE inode
    /\ UNCHANGED <<disk, entries, call, sb, mix>>
-----------------------------------------------------------------------------
(* vfs_umount_path and vfs_mount_path.                                     *)

\* Nobody else uses the file system.
Quiet == deferred = {} /\ \A t \in VfsThreads : IsIdle(t) /\ call[t].held = NoObj

\* tmpfs_unmount_begin frees what nobody refers to, linked or not.
TmpfsEvicts == {o \in Objs \ {Root} : sb.backendless /\ inode[o].live /\ inode[o].ref = 0}

\* __vfs_evict_unused_inodes: every inode with at most one reference that is not being
\* destroyed is freed.  The root has a reference of the umount call itself and stays.
EvictUnused == {o \in Objs \ {Root} : inode[o].live /\ inode[o].ref =< 1 /\ ~inode[o].destroying}
Evicted == TmpfsEvicts \cup EvictUnused

Unmount ==
    LET left == {o \in Objs \ {Root} : inode[o].live} \ Evicted IN
    /\ sb.mounted /\ "umount" \in mix.calls
    /\ QuietUnmount => Quiet
    /\ inode' = [o \in Objs |-> IF o \in Evicted \/ (o = Root /\ left = {}) THEN FreeInode
                                                                        ELSE inode[o]]
    /\ sb' = [sb EXCEPT !.mounted = left # {}]
    /\ UNCHANGED <<disk, entries, call, deferred, mix>>

\* xv6fs_mount reads the disk, tmpfs_mount starts an empty file system.
Mount ==
    /\ ~sb.mounted
    /\ sb' = [sb EXCEPT !.mounted = TRUE]
    /\ LET empty == [i \in Inos |-> IF i = 1 THEN [type |-> "dir", links |-> 2] ELSE FreeOnDisk]
       IN  /\ disk' = IF sb.backendless THEN empty ELSE disk
           /\ entries' = IF sb.backendless THEN [i \in Inos |-> NoEntries] ELSE entries
    /\ inode' = [inode EXCEPT ![Root] = FreshInode(1, TRUE, disk'[1].links, NoObj)]
    /\ UNCHANGED <<call, deferred, mix>>
-----------------------------------------------------------------------------
VfsStep(t) ==
    \/ GetCached(t) \/ LoadInode(t) \/ KeepOpen(t) \/ UnlinkLocked(t)
    \/ \E n \in mix.names : LinkLocked(t, n)
    \/ PutLocked(t) \/ DestroyInode(t) \/ RemoveInode(t)

VfsNext ==
    \/ \E t \in VfsThreads :
         \/ VfsStep(t)
         \/ Close(t)
         \/ SysOpen(t) \/ SysUnlink(t) \/ SysLink(t)
         \/ SysOpenCreate(t) \/ SysMkdir(t) \/ SysMknod(t) \/ SysSymlink(t)
    \/ \E o \in deferred : DeferredPut(o)
    \/ Unmount
    \/ Mount

\* A call that has started goes on and the work queue runs.  Files are closed in the end,
\* at exit at the latest, although other calls come first: strong fairness.
VfsFairness ==
    /\ \A t \in VfsThreads : WF_vfsVars(VfsStep(t)) /\ SF_vfsVars(Close(t))
    /\ \A o \in Objs : WF_vfsVars(DeferredPut(o))

-----------------------------------------------------------------------------
\* The references a thread holds: its open inode and the one its call works on.
Holds(t) == {call[t].held, call[t].obj} \ {NoObj}

\* Whoever destroys an inode is past its last reference.
Destroys(t, o) == call[t].obj = o /\ call[t].pc \in {"destroy", "remove"}

\* An inode a thread was given (vfs_get_dentry_inode, vfs_create) is never freed or being
\* destroyed by another thread while the thread holds it, whatever look-ups, unlinks and
\* evictions run at the same time.
HolderIsSafe ==
    \A t \in VfsThreads : \A o \in Holds(t) :
        inode[o].live /\ (inode[o].destroying => Destroys(t, o))

\* Every reference has an owner: at any moment the count of a cached inode is the number
\* of threads, cached child directories and queued work items that hold it (and the
\* superblock's own on the root), so no path of a failed look-up, refused unlink or
\* directory eviction leaks or drops one.
RefsHaveOwners ==
    \A o \in Objs : inode[o].live =>
        inode[o].ref = Cardinality({t \in VfsThreads : call[t].held = o})
                       + Cardinality({t \in VfsThreads : call[t].obj = o})
                       + Cardinality({p \in Objs : inode[p].live /\ inode[p].parent = o})
                       + (IF o \in deferred THEN 1 ELSE 0)
                       + (IF o = Root THEN 1 ELSE 0)

EntriesOf(i) == {<<d, n>> \in Inos \X Names : entries[d][n] = i}

\* The names and the link counts agree across create, link, unlink, eviction, reload and
\* remount: an entry always names an allocated inode, a file has as many links (in memory
\* and on the disk) as entries, and a number has one cached inode at most, so no two
\* threads work on different copies of a file.
LinksMatchEntries ==
    \A i \in Inos \ {1} :
        /\ EntriesOf(i) # {} => disk[i].type # "free"
        /\ Cardinality(HashGet(i)) =< 1
        /\ disk[i].type = "file" => disk[i].links = Cardinality(EntriesOf(i))
        /\ \A o \in HashGet(i) : disk[i].type # "free" => inode[o].links = disk[i].links

\* An inode without names is destroyed in the end, unless a link that raced with the
\* unlink gave it a name again: no order of closes, look-ups and deferred puts leaves it
\* in the cache with nobody to destroy it.
UnlinkedIsFreed ==
    \A o \in Objs : LET gone == inode[o].live /\ inode[o].links = 0 IN gone ~> ~gone

-----------------------------------------------------------------------------
(* For TLC *)

\* Files opened, unlinked and created anew; a file with two names; directories with
\* directories in them.
VfsWork == { [calls |-> {"create", "open", "unlink", "umount"}, names |-> {"a"}, inos |-> {1, 2, 3}],
             [calls |-> {"create", "link", "unlink"}, names |-> {"a", "b"}, inos |-> {1, 2}],
             [calls |-> {"mknod", "symlink", "unlink"}, names |-> {"a"}, inos |-> {1, 2}],
             [calls |-> {"mkdir", "open", "unlink", "umount"}, names |-> {"a"}, inos |-> {1, 2, 3}] }

VfsSpec == VfsInit /\ [][VfsNext]_vfsVars /\ VfsFairness

\* Who holds an inode, or has found one and is about to, has one that is cached and
\* is not being freed; counts have owners and links have entries.
InodesHold == HolderIsSafe /\ RefsHaveOwners /\ LinksMatchEntries
=============================================================================
