------------------------------- MODULE Files -------------------------------
(***************************************************************************)
(* Open files and descriptor tables: kernel/vfs/file.c, fdtable.c and the  *)
(* descriptor system calls of vfs_syscall.c.  Tasks may share a table      *)
(* (CLONE_FILES).  A descriptor is looked up under rcu_read_lock alone and *)
(* closed under the table's spinlock; a closed file is put by a worker     *)
(* after a grace period, and everything else puts it at once.              *)
(*                                                                         *)
(* A section under the table's lock is one step.  What an open file does   *)
(* when it is read or written belongs to its file system, pipe or device;  *)
(* here a call only holds the file meanwhile.                              *)
(***************************************************************************)
EXTENDS Integers, FiniteSets, Bags

CONSTANTS
    Tasks,          \* threads; the first one runs at the start
    FirstTask,
    Tables,         \* struct vfs_fdtable memory, 1..n
    FileObjs,       \* struct vfs_file memory, 1..n
    NOFILE,         \* descriptors of a table: 0..NOFILE-1
    FileWork,       \* workloads: the set of calls a behaviour makes
    MaxPuts,        \* bound on the deferred puts under way when a descriptor is closed
    AnyFault        \* FALSE: pipe() fails to copy only if nobody closed its descriptors

NoFile == 0
NoTable == 0
Fds == 0..NOFILE - 1

VARIABLES
    table,          \* Tables -> [ref, files], ref 0 when the memory is free
    file,           \* FileObjs -> [ref, listed], ref 0 when the memory is free
    task,           \* Tasks -> the table and the call in progress
    grace,          \* bag of call_rcu callbacks: the file, and the readers to wait for
    putWork,        \* bag of files that __vfs_fput_work_func is queued for
    fwork           \* the workload of this behaviour

filesVars == <<table, file, task, grace, putWork, fwork>>

FreeTable == [ref |-> 0, files |-> [fd \in Fds |-> NoFile]]
FreeFile == [ref |-> 0, listed |-> FALSE]

\* pc: where the call is; f, g: files it holds; fd, fd2: its descriptors.
AtUser(tab) == [pc |-> "user", table |-> tab, f |-> NoFile, g |-> NoFile, fd |-> 0, fd2 |-> 0]
NotRunning == [AtUser(NoTable) EXCEPT !.pc = "none"]

FilesInit ==
    /\ table = [i \in Tables |-> IF i = 1 THEN [FreeTable EXCEPT !.ref = 1] ELSE FreeTable]
    /\ file = [f \in FileObjs |-> FreeFile]
    /\ task = [t \in Tasks |-> IF t = FirstTask THEN AtUser(1) ELSE NotRunning]
    /\ grace = EmptyBag
    /\ putWork = EmptyBag
    /\ fwork \in FileWork

Slots(t) == table[task[t].table].files
Goes(t, c) == task' = [task EXCEPT ![t] = c]
-----------------------------------------------------------------------------
(* Files: __vfs_file_alloc, vfs_fdup, vfs_fput.                            *)

FreshFiles == {f \in FileObjs : file[f].ref = 0}
Lowest(S) == CHOOSE x \in S : \A y \in S : x =< y

\* __vfs_file_alloc and __vfs_ftable_attatch.
Opened == [ref |-> 1, listed |-> TRUE]

\* vfs_fdup: atomic_inc_unless(ref, 0).
Dup(fl, f) == IF fl[f].ref = 0 THEN fl ELSE [fl EXCEPT ![f].ref = @ + 1]

\* vfs_fput: the last reference is not counted down; the file leaves the global list, is
\* flushed, its pipe, device or inode is released, and its memory is freed.
Put(fl, f) == IF fl[f].ref > 1 THEN [fl EXCEPT ![f].ref = @ - 1] ELSE [fl EXCEPT ![f] = FreeFile]
-----------------------------------------------------------------------------
(* Descriptors.                                                            *)

FreeFds(files) == {fd \in Fds : files[fd] = NoFile}

\* vfs_fdtable_alloc_fd puts the file at the lowest free descriptor.
Install(files, f) == [files EXCEPT ![Lowest(FreeFds(files))] = f]

\* Threads inside rcu_read_lock.
Readers == {t \in Tasks : task[t].pc \in {"deref", "derefdup", "copy"}}

\* Bug: the grace period does not wait for readers.
CallRcuAtOnce(f) == [file |-> f, waits |-> {}]

\* call_rcu: the callback waits for every reader that is inside now.
CallRcu(f) == [file |-> f, waits |-> Readers]

\* A thread leaves its read-side section.
Leaves(t) == LET Without(c) == [c EXCEPT !.waits = @ \ {t}] IN BagOfAll(Without, grace)

PutsOf(f) ==
    BagCardinality([c \in {b \in BagToSet(grace) : b.file = f} |-> grace[c]]) + CopiesIn(f, putWork)
PutsUnderWay == BagCardinality(grace) + BagCardinality(putWork)

\* A new file has one reference, the call's own.
NewFile(t, c) ==
    /\ task[t].pc = "user" /\ c \in fwork /\ FreshFiles # {}
    /\ LET f == Lowest(FreshFiles) IN
         /\ file' = [file EXCEPT ![f] = Opened]
         /\ Goes(t, [task[t] EXCEPT !.pc = "install", !.f = f])
    /\ UNCHANGED <<table, grace, putWork, fwork>>

\* vfs_fileopen, in sys_vfs_open with or without O_CREAT; vfs_sockalloc, in sys_vfs_connect.
Open(t) == NewFile(t, "open")
Connect(t) == NewFile(t, "connect")

\* The descriptor is allocated under the lock; with or without one (-EMFILE) the call puts
\* its own reference.
InstallFd(t) ==
    LET f == task[t].f IN
    /\ task[t].pc = "install"
    /\ \/ /\ FreeFds(Slots(t)) # {}
          /\ table' = [table EXCEPT ![task[t].table].files = Install(@, f)]
          /\ file' = Dup(file, f)
       \/ /\ FreeFds(Slots(t)) = {}
          /\ UNCHANGED <<table, file>>
    /\ Goes(t, [task[t] EXCEPT !.pc = "put"])
    /\ UNCHANGED <<grace, putWork, fwork>>

\* __vfs_argfd reads the slot under rcu_read_lock: dup continues with a new descriptor,
\* read, write, fstat and getdents (op "use") with the file.
Deref(t, fd, op) ==
    /\ task[t].pc = "user" /\ op \in fwork \cap {"dup", "use"} /\ Slots(t)[fd] # NoFile
    /\ Goes(t, [task[t] EXCEPT !.pc = IF op = "dup" THEN "derefdup" ELSE "deref", !.f = Slots(t)[fd]])
    /\ UNCHANGED <<table, file, grace, putWork, fwork>>

\* vfs_fdup and rcu_read_unlock.  A file already closed gives -EBADF.
GetFile(t) ==
    LET c == task[t] IN
    /\ c.pc \in {"deref", "derefdup"}
    /\ file' = Dup(file, c.f)
    /\ Goes(t, IF file[c.f].ref = 0 THEN AtUser(c.table)
               ELSE [c EXCEPT !.pc = IF c.pc = "derefdup" THEN "install" ELSE "put"])
    /\ grace' = Leaves(t)
    /\ UNCHANGED <<table, putWork, fwork>>

\* The call ends: vfs_fput of what it still holds.
PutFile(t) ==
    LET c == task[t] IN
    /\ c.pc = "put"
    /\ file' = IF c.g = NoFile THEN Put(file, c.f) ELSE Put(Put(file, c.f), c.g)
    /\ Goes(t, AtUser(c.table))
    /\ UNCHANGED <<table, grace, putWork, fwork>>

\* sys_vfs_close: vfs_fdtable_dealloc_fd, then the put after a grace period.
CloseFd(t, fd) ==
    /\ task[t].pc = "user" /\ Slots(t)[fd] # NoFile /\ PutsUnderWay < MaxPuts
    /\ table' = [table EXCEPT ![task[t].table].files[fd] = NoFile]
    /\ grace' = grace (+) SetToBag({CallRcu(Slots(t)[fd])})
    /\ UNCHANGED <<file, task, putWork, fwork>>

\* __vfs_fd_rcucb after the grace period: to the work queue, or at once when no work item
\* can be allocated.
RcuCallback(c) ==
    /\ BagIn(c, grace) /\ c.waits = {}
    /\ grace' = grace (-) SetToBag({c})
    /\ \/ putWork' = putWork (+) SetToBag({c.file}) /\ UNCHANGED file
       \/ file' = Put(file, c.file) /\ UNCHANGED putWork
    /\ UNCHANGED <<table, task, fwork>>

\* __vfs_fput_work_func.
PutWork(f) ==
    /\ BagIn(f, putWork)
    /\ putWork' = putWork (-) SetToBag({f})
    /\ file' = Put(file, f)
    /\ UNCHANGED <<table, task, grace, fwork>>
-----------------------------------------------------------------------------
(* sys_vfs_pipe.                                                           *)

\* vfs_pipealloc: two files on one pipe; n references each.
PipeFiles(rf, wf, n, m) == [file EXCEPT ![rf] = [Opened EXCEPT !.ref = n], ![wf] = [Opened EXCEPT !.ref = m]]

\* vfs_pipealloc, then both descriptors under the lock.  When only the first one can be
\* had it is given back and its reference put after a grace period.
Pipe(t) ==
    LET rf == Lowest(FreshFiles)
        wf == Lowest(FreshFiles \ {rf})
        files == Slots(t)
        one == Install(files, rf)
    IN  /\ task[t].pc = "user" /\ "pipe" \in fwork /\ Cardinality(FreshFiles) > 1
        /\ \/ /\ FreeFds(files) = {}
              /\ file' = PipeFiles(rf, wf, 1, 1)
              /\ Goes(t, [task[t] EXCEPT !.pc = "put", !.f = rf, !.g = wf])
              /\ UNCHANGED <<table, grace>>
           \/ /\ Cardinality(FreeFds(files)) = 1 /\ PutsUnderWay < MaxPuts
              /\ file' = PipeFiles(rf, wf, 2, 1)
              /\ grace' = grace (+) SetToBag({CallRcu(rf)})
              /\ Goes(t, [task[t] EXCEPT !.pc = "put", !.f = rf, !.g = wf])
              /\ UNCHANGED table
           \/ /\ Cardinality(FreeFds(files)) > 1
              /\ file' = PipeFiles(rf, wf, 2, 2)
              /\ table' = [table EXCEPT ![task[t].table].files = Install(one, wf)]
              /\ Goes(t, [task[t] EXCEPT !.pc = "copyout", !.f = rf, !.g = wf,
                                         !.fd = Lowest(FreeFds(files)), !.fd2 = Lowest(FreeFds(one))])
              /\ UNCHANGED grace
        /\ UNCHANGED <<putWork, fwork>>

\* The numbers are copied to the user outside the lock.  When that fails both descriptors
\* are freed again, whatever they refer to by now, and the files' references go with them.
Copyout(t) ==
    LET c == task[t] IN
    /\ c.pc = "copyout"
    /\ \/ UNCHANGED <<table, grace>>
       \/ /\ AnyFault \/ (Slots(t)[c.fd] = c.f /\ Slots(t)[c.fd2] = c.g)
          /\ table' = [table EXCEPT ![c.table].files[c.fd] = NoFile,
                                    ![c.table].files[c.fd2] = NoFile]
          /\ grace' = grace (+) SetToBag({CallRcu(c.f), CallRcu(c.g)})
    /\ Goes(t, [c EXCEPT !.pc = "put", !.fd = 0, !.fd2 = 0])
    /\ UNCHANGED <<file, putWork, fwork>>
-----------------------------------------------------------------------------
(* clone and exit.                                                         *)

FreshTables == {i \in Tables : table[i].ref = 0}
Asleep == {t \in Tasks : task[t].pc = "none"}

\* vfs_fdtable_clone with CLONE_FILES: the table gets one more owner.
CloneShared(t) ==
    /\ task[t].pc = "user" /\ "share" \in fwork /\ Asleep # {}
    /\ table' = [table EXCEPT ![task[t].table].ref = @ + 1]
    /\ Goes(CHOOSE u \in Asleep : TRUE, AtUser(task[t].table))
    /\ UNCHANGED <<file, grace, putWork, fwork>>

\* vfs_fdtable_clone without: a new table, filled slot by slot under rcu_read_lock while
\* threads that share the old one go on (g: the new table, fd: the next slot).
CloneCopy(t) ==
    /\ task[t].pc = "user" /\ "fork" \in fwork /\ Asleep # {} /\ FreshTables # {}
    /\ table' = [table EXCEPT ![Lowest(FreshTables)].ref = 1]
    /\ Goes(t, [task[t] EXCEPT !.pc = "copy", !.g = Lowest(FreshTables), !.fd = 0])
    /\ UNCHANGED <<file, grace, putWork, fwork>>

CopySlot(t) ==
    LET c == task[t]
        f == Slots(t)[c.fd]
    IN  /\ c.pc = "copy"
        /\ \/ /\ c.fd < NOFILE - 1
              /\ Goes(t, [c EXCEPT !.fd = @ + 1])
              /\ UNCHANGED grace
           \/ /\ c.fd = NOFILE - 1 /\ Asleep # {}
              /\ task' = [task EXCEPT ![t] = AtUser(c.table), ![CHOOSE u \in Asleep : TRUE] = AtUser(c.g)]
              /\ grace' = Leaves(t)
        /\ IF f = NoFile \/ file[f].ref = 0 THEN UNCHANGED <<table, file>>
           ELSE /\ file' = Dup(file, f)
                /\ table' = [table EXCEPT ![c.g].files[c.fd] = f]
        /\ UNCHANGED <<putWork, fwork>>

\* exit: vfs_fdtable_put.  The last owner puts every file at once and frees the table.
Exit(t) ==
    LET i == task[t].table
        Puts[n \in 0..NOFILE] ==
            IF n = 0 THEN file
            ELSE IF table[i].files[n - 1] = NoFile THEN Puts[n - 1]
            ELSE Put(Puts[n - 1], table[i].files[n - 1])
    IN  /\ task[t].pc = "user" /\ "exit" \in fwork
        /\ \/ /\ table[i].ref > 1
              /\ table' = [table EXCEPT ![i].ref = @ - 1]
              /\ UNCHANGED file
           \/ /\ table[i].ref = 1
              /\ table' = [table EXCEPT ![i] = FreeTable]
              /\ file' = Puts[NOFILE]
        /\ Goes(t, NotRunning)
        /\ UNCHANGED <<grace, putWork, fwork>>
-----------------------------------------------------------------------------
FilesStep(t) ==
    InstallFd(t) \/ GetFile(t) \/ PutFile(t) \/ Copyout(t) \/ CopySlot(t)

FilesNext ==
    \/ \E t \in Tasks :
         \/ FilesStep(t)
         \/ Open(t) \/ Connect(t) \/ Pipe(t) \/ CloneShared(t) \/ CloneCopy(t) \/ Exit(t)
         \/ \E fd \in Fds : CloseFd(t, fd) \/ \E op \in fwork : Deref(t, fd, op)
    \/ \E c \in BagToSet(grace) : RcuCallback(c)
    \/ \E f \in FileObjs : PutWork(f)

FilesSpec == FilesInit /\ [][FilesNext]_filesVars
-----------------------------------------------------------------------------
\* The references to a file: descriptors, calls that hold it, and puts that are under way.
Held(f) ==
    LET calls == {t \in Tasks : task[t].pc \in {"install", "put", "copyout"}} IN
    Cardinality({x \in Tables \X Fds : table[x[1]].files[x[2]] = f})
    + Cardinality({t \in calls : task[t].f = f}) + Cardinality({t \in calls : task[t].g = f})
    + PutsOf(f)

\* Every reference of a file has exactly one owner, over dup, pipe with too few
\* descriptors, fork and exit of sharing threads: nothing is put twice and no file stays
\* open with nobody to close it.
FileRefsExact == \A f \in FileObjs : file[f].ref = Held(f)

\* A thread that has read a descriptor's slot under rcu_read_lock finds the file's memory
\* still allocated when it takes its reference, although another thread closed the
\* descriptor meanwhile: the deferred put waits for it.
SlotIsSafe ==
    \A t \in Tasks : task[t].pc \in {"deref", "derefdup"} => file[task[t].f].ref > 0
=============================================================================
