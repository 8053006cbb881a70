----------------------------- MODULE Namespace -----------------------------
(***************************************************************************)
(* The tree of mounted file systems and the walk through it: mountpoints   *)
(* (kernel/vfs/fs.c), vfs_ilookup's ".." and vfs_namei (inode.c), and the  *)
(* calls mount, umount, chdir, chroot, getcwd, clone and exit              *)
(* (vfs_syscall.c).  Every file system has the same directories: top, its  *)
(* root, a inside it and b inside a.                                       *)
(*                                                                         *)
(* mount and umount run under the mount mutex and the superblock locks; a  *)
(* look-up holds references along its way.  Each is one step here.  What a *)
(* look-up meets while an inode is destroyed is the subject of Vfs.        *)
(***************************************************************************)
EXTENDS Integers, FiniteSets, Sequences, SequencesExt

CONSTANTS
    NsProcs,        \* processes; one runs at the start
    InitProc,
    Sbs,            \* superblocks, 1..n; 1 is the root file system
    MaxChroots,     \* bound on the directories chroot has been called for
    UserIsQuiet     \* TRUE: umount is called when no process is in the file system

VARIABLES
    mountAt,        \* Sbs -> its mountpoint, Unmounted, or VfsRoot for the first
    mounts,         \* Sbs -> mount_count
    fs,             \* NsProcs -> struct fs_struct: root and cwd
    leaked,         \* Nodes -> references chroot left behind; more than 2 count as 2
    nsBusy          \* NsProcs that run

nsVars == <<mountAt, mounts, fs, leaked, nsBusy>>

Dirs == {"top", "a", "b"}
Nodes == [sb: Sbs, dir: Dirs]
Node(s, d) == [sb |-> s, dir |-> d]
Nowhere == [sb |-> 0, dir |-> "top"]
Unmounted == Nowhere
VfsRoot == [sb |-> 0, dir |-> "a"]          \* the dummy vfs_root_inode
Top == Node(1, "top")

ParentDir(d) == IF d = "b" THEN "a" ELSE "top"
NsParent(n) == [n EXCEPT !.dir = ParentDir(@)]
ChildOf(n) == IF n.dir = "top" THEN "a" ELSE "b"

NoFs == [root |-> Nowhere, cwd |-> Nowhere]

NsInit ==
    /\ mountAt = [s \in Sbs |-> IF s = 1 THEN VfsRoot ELSE Unmounted]
    /\ mounts = [s \in Sbs |-> 0]
    /\ fs = [p \in NsProcs |-> IF p = InitProc THEN [root |-> Top, cwd |-> Top] ELSE NoFs]
    /\ leaked = [n \in Nodes |-> 0]
    /\ nsBusy = {InitProc}

\* vfs_inode_is_local_root; mountpoint->mount and mnt_rooti.
IsLocalRoot(n) == n.dir = "top"
MountedOn(n) == {s \in Sbs : mountAt[s] = n}
-----------------------------------------------------------------------------
(* Walking.                                                                *)

\* vfs_get_mnt_rooti and the loop of __vfs_namei: a mountpoint stands for the root mounted
\* on it.  A root is never a mountpoint itself.
FollowMount(n) == IF MountedOn(n) = {} THEN n ELSE Node(CHOOSE s \in MountedOn(n) : TRUE, "top")

\* Bug: ".." at the process's root leaves it.
DotDotIgnoresRoot(p, n) ==
    LET m == mountAt[n.sb] IN
    IF ~IsLocalRoot(n) THEN NsParent(n) ELSE IF m = VfsRoot THEN n ELSE NsParent(m)

\* __vfs_dotdot_target, __mountpoint_go_up and __get_mnt_recursive: the process's root and
\* the root of everything are their own parents, the root of a mounted file system has
\* the parent of its mountpoint, and the driver knows the others.
DotDot(p, n) ==
    LET m == mountAt[n.sb] IN
    CASE n = fs[p].root -> n
      [] n # fs[p].root /\ ~IsLocalRoot(n) -> NsParent(n)
      [] n # fs[p].root /\ IsLocalRoot(n) ->
           IF m = VfsRoot THEN n ELSE IF m = fs[p].root THEN m ELSE NsParent(m)

\* One component of a path: vfs_ilookup, vfs_get_dentry_inode, and the mount on it.
Step(p, n, name) ==
    CASE name = ".." -> FollowMount(DotDot(p, n))
      [] name = "." -> n
      [] OTHER -> IF ChildOf(n) = name /\ n.dir # "b" THEN FollowMount(Node(n.sb, name)) ELSE Nowhere

\* __vfs_namei on a path that starts at the process's root.
Namei(p, path) ==
    LET walk[i \in 0..Len(path)] ==
          IF i = 0 THEN FollowMount(fs[p].root)
          ELSE IF walk[i - 1] = Nowhere THEN Nowhere ELSE Step(p, walk[i - 1], path[i])
    IN  walk[Len(path)]

\* The names sys_getcwd (and vfs_make_absolute_path) collects: up to the process's root,
\* and across a mount from the mountpoint's name on.  Fuel bounds the walk: no directory
\* is deeper than this.
Fuel == 3 * Cardinality(Sbs)
GetcwdNames(p, n0) ==
    LET up[k \in 0..Fuel] ==
          IF k = 0 THEN [at |-> n0, names |-> <<>>, seen |-> {n0}]
          ELSE LET c == up[k - 1]
                   m == mountAt[c.at.sb]
               IN  IF c.at = fs[p].root THEN c
                   ELSE IF ~IsLocalRoot(c.at)
                   THEN [at |-> NsParent(c.at), names |-> <<c.at.dir>> \o c.names,
                         seen |-> c.seen \cup {NsParent(c.at)}]
                   ELSE IF m = VfsRoot THEN c
                   ELSE [at |-> NsParent(m), names |-> <<m.dir>> \o c.names,
                         seen |-> c.seen \cup {NsParent(m)}]
    IN  up[Fuel]
-----------------------------------------------------------------------------
(* References of a directory's inode.                                      *)

\* A cached directory holds its parent; a mountpoint is held by the mount.
Pinned(n) == leaked[n] > 0 \/ \E p \in nsBusy : fs[p].cwd = n \/ fs[p].root = n
Cached(n) == \E m \in Nodes : m.sb = n.sb /\ (m = n \/ NsParent(m) = n \/ NsParent(NsParent(m)) = n)
                              /\ (Pinned(m) \/ MountedOn(m) # {})
RefCount(n) ==
    Cardinality({p \in nsBusy : fs[p].cwd = n}) + Cardinality({p \in nsBusy : fs[p].root = n})
    + leaked[n]
    + (IF n.dir # "b" /\ Cached(Node(n.sb, ChildOf(n))) THEN 1 ELSE 0)
    + Cardinality(MountedOn(n)) + (IF IsLocalRoot(n) THEN 1 ELSE 0)

\* sys_vfs_chdir: the new directory is referenced before the old one is put.
Chdir(p, name) ==
    LET n == Step(p, fs[p].cwd, name) IN
    /\ p \in nsBusy /\ n # Nowhere
    /\ fs' = [fs EXCEPT ![p].cwd = n]
    /\ UNCHANGED <<mountAt, mounts, leaked, nsBusy>>

\* sys_chroot: vfs_chroot moves cwd and root, and keeps one reference nobody puts.
Chroot(p, name) ==
    LET n == Step(p, fs[p].cwd, name) IN
    /\ p \in nsBusy /\ n \notin {Nowhere, fs[p].root}
    /\ Cardinality({m \in Nodes : leaked[m] > 0} \cup {n}) =< MaxChroots
    /\ fs' = [fs EXCEPT ![p] = [root |-> n, cwd |-> n]]
    /\ leaked' = [leaked EXCEPT ![n] = IF @ = 2 THEN 2 ELSE @ + 1]
    /\ UNCHANGED <<mountAt, mounts, nsBusy>>

\* __vfs_turn_mountpoint: besides the caller's own reference there is at most one.
CanMount(n) == RefCount(n) + 1 =< 2 /\ ~IsLocalRoot(n) /\ MountedOn(n) = {}

\* vfs_mount and __vfs_set_mountpoint: the superblock hangs on the mountpoint, whose own
\* file system counts it.
MountOn(s, n) ==
    /\ mountAt' = [mountAt EXCEPT ![s] = n]
    /\ mounts' = [mounts EXCEPT ![n.sb] = @ + 1]

\* vfs_mount_path.  A file system type that is unknown or fails to mount changes nothing.
NsMount(p, name, s) ==
    LET n == Step(p, fs[p].cwd, name) IN
    /\ p \in nsBusy /\ n # Nowhere /\ mountAt[s] = Unmounted /\ CanMount(n)
    /\ MountOn(s, n)
    /\ UNCHANGED <<fs, leaked, nsBusy>>

\* vfs_unmount: no mounts below; after the eviction of every inode with at most one
\* reference only the root is left.  The references of the root are not looked at.
CanUnmount(s) ==
    mounts[s] = 0 /\ \A n \in Nodes : n.sb = s /\ ~IsLocalRoot(n) => RefCount(n) =< 1

InFs(p, s) == fs[p].cwd.sb = s \/ fs[p].root.sb = s

\* __vfs_clear_mountpoint, and the superblock's inodes are freed with whatever refers to them.
TakeOff(s) ==
    /\ mountAt' = [mountAt EXCEPT ![s] = Unmounted]
    /\ mounts' = [mounts EXCEPT ![mountAt[s].sb] = @ - 1]
    /\ leaked' = [m \in Nodes |-> IF m.sb = s THEN 0 ELSE leaked[m]]

\* vfs_umount_path: the name resolves to the mounted root, whose superblock knows its
\* mountpoint.
NsUnmount(p, name) ==
    LET n == Step(p, fs[p].cwd, name) IN
    /\ p \in nsBusy /\ n # Nowhere /\ IsLocalRoot(n) /\ n.sb # 1
    /\ CanUnmount(n.sb)
    /\ UserIsQuiet => \A q \in nsBusy : ~InFs(q, n.sb)
    /\ TakeOff(n.sb)
    /\ UNCHANGED <<fs, nsBusy>>

\* vfs_struct_clone without CLONE_FS, and vfs_struct_put at exit.
NsFork(p, q) ==
    /\ p \in nsBusy /\ q \notin nsBusy
    /\ fs' = [fs EXCEPT ![q] = fs[p]]
    /\ nsBusy' = nsBusy \cup {q}
    /\ UNCHANGED <<mountAt, mounts, leaked>>

NsExit(q) ==
    /\ q \in nsBusy \ {InitProc}
    /\ fs' = [fs EXCEPT ![q] = NoFs]
    /\ nsBusy' = nsBusy \ {q}
    /\ UNCHANGED <<mountAt, mounts, leaked>>

NsNext ==
    \E p \in NsProcs :
        \/ \E name \in {"a", "b", ".."} :
             \/ Chdir(p, name) \/ Chroot(p, name) \/ NsUnmount(p, name)
             \/ \E s \in Sbs : NsMount(p, name, s)
        \/ \E q \in NsProcs : NsFork(p, q)
        \/ NsExit(p)

NsSpec == NsInit /\ [][NsNext]_nsVars
-----------------------------------------------------------------------------

\* Wherever the mounts, chroots and unmounts of all processes have led: going up from a
\* process's current directory ends at the process's root and nowhere else, by ".." as
\* well as in getcwd, and unless a later mount covers a directory on the way, resolving
\* the path getcwd builds leads back to the current directory.
GetcwdResolves ==
    \A p \in nsBusy :
        LET up == GetcwdNames(p, fs[p].cwd)
            climb[k \in 0..Fuel] == IF k = 0 THEN fs[p].cwd ELSE DotDot(p, climb[k - 1])
        IN  /\ up.at = fs[p].root
            /\ climb[Fuel] = fs[p].root
            /\ (\A n \in up.seen : MountedOn(n) = {}) => Namei(p, up.names) = fs[p].cwd

(***************************************************************************)
(* Reading a directory while it changes: sys_getdents, vfs_dir_iter and    *)
(* vfs_dir_isempty over xv6fs_dir_iter and __tmpfs_dir_iter.               *)
(*                                                                         *)
(* The position is kept in the open file (dir_iter), so names come and go  *)
(* between two entries and between two calls.  xv6fs keeps the names in    *)
(* slots of the directory file and remembers an offset; tmpfs keeps them   *)
(* in a hash list and remembers the dentry returned last.  One thread      *)
(* reads; every step is under the directory's lock.                        *)
(***************************************************************************)
CONSTANTS
    DNames,         \* names, numbers; n is hashed to bucket n % NBuckets
    NBuckets,       \* TMPFS_HASH_BUCKETS
    DSlots,         \* bound on the slots of an xv6fs directory
    CookieStays     \* TRUE: the name a tmpfs reader stands at is not unlinked

VARIABLES
    driver,         \* "xv6fs" or "tmpfs"
    atRoot,         \* the directory is a root: VFS makes its ".." up
    dents,          \* xv6fs: slots with names, 0 for a free one; tmpfs: names in hash order
    iter,           \* struct vfs_dir_iter: index and cookie; -1 is VFS_DITER_INDEX_END
    got,            \* the entries returned since the directory was opened
    stayed          \* names that were there all the time since then

readdirVars == <<driver, atRoot, dents, iter, got, stayed>>

IterStart == [index |-> 0, cookie |-> 0]
Dot == -1           \* the entry "."
Dots == -2          \* the entry ".."
Present == {dents[k] : k \in 1..Len(dents)} \ {0}

ReaddirInit ==
    /\ driver \in {"xv6fs", "tmpfs"} /\ atRoot \in BOOLEAN
    /\ dents = << >> /\ iter = IterStart /\ got = << >> /\ stayed = {}
-----------------------------------------------------------------------------
(* The drivers: the next entry behind a cookie, as its name and the new    *)
(* cookie; name 0 at the end.                                              *)

TheEnd == [name |-> 0, cookie |-> 0]

\* xv6fs_dir_iter: from the offset on, the first slot in use; the cookie is behind it.
Xv6fsDirIter(c) ==
    LET S == {k \in c + 1..Len(dents) : dents[k] # 0} IN
    IF S = {} THEN TheEnd
    ELSE LET k == CHOOSE j \in S : \A m \in S : j =< m IN [name |-> dents[k], cookie |-> k]

\* __tmpfs_dir_iter: the first dentry, or the one behind the last returned.
TmpfsDirIter(c) ==
    LET at == {k \in 1..Len(dents) : dents[k] = c}
        k == IF c = 0 THEN 1 ELSE (CHOOSE j \in at : TRUE) + 1
    IN  IF k > Len(dents) THEN TheEnd ELSE [name |-> dents[k], cookie |-> dents[k]]

DriverIter(c) == IF driver = "xv6fs" THEN Xv6fsDirIter(c) ELSE TmpfsDirIter(c)

\* vfs_dir_isempty asks the driver for the first entry.
DirIsEmpty == DriverIter(0).name = 0
-----------------------------------------------------------------------------
(* sys_getdents: one vfs_dir_iter after the other.                         *)

Returns(e) == got' = Append(got, e)

\* __make_iter_present.
IterDot ==
    /\ iter.index = 0
    /\ iter' = [index |-> 1, cookie |-> 0]
    /\ Returns(Dot)
    /\ UNCHANGED <<driver, atRoot, dents, stayed>>

\* __make_iter_parent at the process's root and at the root of a mount; elsewhere the
\* driver finds the parent, and the index moves afterwards.
IterDotDot ==
    /\ iter.index = 1
    /\ \/ atRoot /\ iter' = [index |-> 2, cookie |-> 0]
       \/ ~atRoot /\ iter' = [iter EXCEPT !.index = 2]
    /\ Returns(Dots)
    /\ UNCHANGED <<driver, atRoot, dents, stayed>>

\* The entry does not fit into the rest of the buffer: the position is put back.
NoSpace(saved, e) == saved

\* From here on the index only says that the dots are done.
IterEntry ==
    LET e == DriverIter(iter.cookie) IN
    /\ iter.index = 2
    /\ \/ /\ e.name # 0
          /\ iter' = [iter EXCEPT !.cookie = e.cookie]
          /\ Returns(e.name)
       \/ /\ e.name # 0
          /\ iter' = NoSpace(iter, e)
          /\ UNCHANGED got
       \/ /\ e.name = 0
          /\ iter' = [index |-> -1, cookie |-> 0]
          /\ UNCHANGED got
    /\ UNCHANGED <<driver, atRoot, dents, stayed>>

\* The file is closed and the directory opened again.
Reopen ==
    /\ iter.index = -1
    /\ iter' = IterStart /\ got' = << >> /\ stayed' = Present
    /\ UNCHANGED <<driver, atRoot, dents>>
-----------------------------------------------------------------------------
(* Meanwhile names are added and removed.                                  *)

FreeSlots == {k \in 1..Len(dents) : dents[k] = 0}

\* __xv6fs_dirlink: the first free slot, or a new one at the end; __tmpfs_do_link: at the
\* end of the bucket.
BucketEnd(n) == Cardinality({k \in 1..Len(dents) : dents[k] % NBuckets =< n % NBuckets})

AddName(n) ==
    /\ n \notin Present
    /\ dents' = CASE driver = "tmpfs" -> InsertAt(dents, BucketEnd(n) + 1, n)
                  [] driver = "xv6fs" /\ FreeSlots # {} ->
                       [dents EXCEPT ![CHOOSE k \in FreeSlots : \A m \in FreeSlots : k =< m] = n]
                  [] driver = "xv6fs" /\ FreeSlots = {} -> Append(dents, n)
    /\ Len(dents') =< DSlots
    /\ UNCHANGED <<driver, atRoot, iter, got, stayed>>

\* The slot is cleared; the dentry is taken off its bucket and freed.
RemoveName(n) ==
    /\ n \in Present
    /\ CookieStays /\ driver = "tmpfs" => iter.cookie # n
    /\ dents' = IF driver = "tmpfs" THEN Remove(dents, n)
                ELSE [k \in 1..Len(dents) |-> IF dents[k] = n THEN 0 ELSE dents[k]]
    /\ stayed' = stayed \ {n}
    /\ UNCHANGED <<driver, atRoot, iter, got>>

\* Bound: what a reader has been given.
ReaddirNext ==
    \/ Len(got) < 2 * Cardinality(DNames) + 2 /\ (IterDot \/ IterDotDot \/ IterEntry)
    \/ Reopen
    \/ \E n \in DNames : AddName(n) \/ RemoveName(n)

ReaddirSpec == ReaddirInit /\ [][ReaddirNext]_readdirVars
-----------------------------------------------------------------------------
Times(n) == Cardinality({k \in 1..Len(got) : got[k] = n})

\* A name that is in the directory from the opening to the end of the reading is returned
\* exactly once, however names around it come and go, buffers fill up and slots are used
\* again; never twice on the way; and the dots come first.
GetdentsExact ==
    /\ iter.index = -1 => \A n \in stayed : Times(n) = 1
    /\ \A n \in stayed : Times(n) =< 1
    /\ \A k \in 1..Len(got) : k =< 2 => got[k] = IF k = 1 THEN Dot ELSE Dots
    /\ DirIsEmpty <=> Present = {}
=============================================================================
