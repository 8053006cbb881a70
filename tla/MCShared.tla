------------------------------ MODULE MCShared ------------------------------
(***************************************************************************)
(* Structures that several CPUs, threads or interrupts share: the          *)
(* read-write spinlock, the search tree, the hash list, pipes, the device  *)
(* tree and table, inter-processor and device interrupts, the console,     *)
(* block requests, the network, and the parts of the file systems.  At     *)
(* this level they share no state; Init chooses the one that runs.         *)
(***************************************************************************)
EXTENDS RwSpinLock, Rbtree, Hlist, Pipe, Device, Irq, Console, Fdt, Net,
        Files, Namespace, Xv6fs, Tmpfs, Xv6Data

VARIABLE part

Parts == {"rwlock", "rbtree", "hlist", "pipe", "device", "ipi", "irq", "input", "output", "chan", "bio", "fdt",
          "net"}
FsParts == {"files", "namespace", "xv6fs", "tmpfs", "readdir", "data"}

\* The calls the threads of Files make in one behaviour.
FileCalls == { {"open", "dup", "share", "exit"}, {"open", "connect", "use", "share", "fork", "exit"},
               {"pipe", "dup", "share", "exit"} }

bootVars == <<chanVars, fdtVars, netVars>>
sharedVars == <<vars, rbVars, hlVars, pipeVars, devVars, irqVars, ttyVars, bioVars, bootVars>>
fsVars == <<filesVars, nsVars, xv6fsVars, tmpfsVars, readdirVars, dataVars>>
all == <<part, sharedVars, fsVars>>

SharedInit ==
  /\ part \in Parts \cup FsParts
  /\ Init /\ RbInit /\ HlistInit /\ PipeInit /\ DeviceInit /\ IrqInit /\ ConsoleInit /\ BioInit
  /\ ChanInit /\ FdtInit /\ NetInit
  /\ FilesInit /\ NsInit /\ Xv6fsInit /\ TmpfsInit /\ ReaddirInit /\ DataInit
  /\ part # "rbtree" => coloured
  /\ part # "hlist" => rcuMode
  /\ part # "fdt" => topic = "cpus"
  /\ part # "readdir" => driver = "xv6fs" /\ atRoot
  /\ part # "files" => fwork = CHOOSE w \in FileWork : TRUE

StructureNext ==
  /\ \/ part = "rwlock" /\ Next /\ UNCHANGED <<rbVars, hlVars, pipeVars, devVars, irqVars, ttyVars, bioVars, bootVars>>
     \/ part = "rbtree" /\ RbNextStep /\ UNCHANGED <<vars, hlVars, pipeVars, devVars, irqVars, ttyVars, bioVars, bootVars>>
     \/ part = "hlist" /\ HlistNext /\ UNCHANGED <<vars, rbVars, pipeVars, devVars, irqVars, ttyVars, bioVars, bootVars>>
     \/ part = "pipe" /\ PipeNext /\ UNCHANGED <<vars, rbVars, hlVars, devVars, irqVars, ttyVars, bioVars, bootVars>>
     \/ part = "device" /\ DeviceNext /\ UNCHANGED <<vars, rbVars, hlVars, pipeVars, irqVars, ttyVars, bioVars, bootVars>>
     \/ part = "ipi" /\ IpiNext /\ UNCHANGED <<vars, rbVars, hlVars, pipeVars, devVars, ttyVars, bioVars, bootVars>>
     \/ part = "irq" /\ IrqNext /\ UNCHANGED <<vars, rbVars, hlVars, pipeVars, devVars, ttyVars, bioVars, bootVars>>
     \/ part = "input" /\ InputNext /\ UNCHANGED <<vars, rbVars, hlVars, pipeVars, devVars, irqVars, bioVars, bootVars>>
     \/ part = "output" /\ OutputNext /\ UNCHANGED <<vars, rbVars, hlVars, pipeVars, devVars, irqVars, bioVars, bootVars>>
     \/ part = "chan" /\ ChanNext /\ UNCHANGED <<vars, rbVars, hlVars, pipeVars, devVars, irqVars, ttyVars, bioVars, fdtVars, netVars>>
     \/ part = "bio" /\ BioNext /\ UNCHANGED <<vars, rbVars, hlVars, pipeVars, devVars, irqVars, ttyVars, bootVars>>
     \/ part = "fdt" /\ FdtNext /\ UNCHANGED <<vars, rbVars, hlVars, pipeVars, devVars, irqVars, ttyVars, bioVars, chanVars, netVars>>
     \/ part = "net" /\ NetNext /\ UNCHANGED <<vars, rbVars, hlVars, pipeVars, devVars, irqVars, ttyVars, bioVars, chanVars, fdtVars>>
  /\ UNCHANGED <<part, fsVars>>

FsNext ==
  /\ \/ part = "files" /\ FilesNext /\ UNCHANGED <<nsVars, xv6fsVars, tmpfsVars, readdirVars, dataVars>>
     \/ part = "namespace" /\ NsNext /\ UNCHANGED <<filesVars, xv6fsVars, tmpfsVars, readdirVars, dataVars>>
     \/ part = "xv6fs" /\ Xv6fsNext /\ UNCHANGED <<filesVars, nsVars, tmpfsVars, readdirVars, dataVars>>
     \/ part = "tmpfs" /\ TmpfsNext /\ UNCHANGED <<filesVars, nsVars, xv6fsVars, readdirVars, dataVars>>
     \/ part = "readdir" /\ ReaddirNext /\ UNCHANGED <<filesVars, nsVars, xv6fsVars, tmpfsVars, dataVars>>
     \/ part = "data" /\ DataNext /\ UNCHANGED <<filesVars, nsVars, xv6fsVars, tmpfsVars, readdirVars>>
  /\ UNCHANGED <<part, sharedVars>>

SharedNext == StructureNext \/ FsNext

SharedSpec == SharedInit /\ [][SharedNext]_all

\* The search tree finds exactly its keys in order and stays balanced (Rbtree); a
\* reader that looks up a key that stays in the hash table finds it, whatever the writer
\* is in the middle of, and lists, back pointers and count agree in the end (Hlist).
ContainersHold ==
  /\ part = "rbtree" => TreeIsMap /\ RbBalanced
  /\ part = "hlist" => LookupFinds /\ TableIsExact

\* Bytes leave the pipe in the order they went in, once each, across sleeps,
\* copies and full buffers; the last closer alone frees it (Pipe).
PipeHolds == part = "pipe" => PipeIsFifo /\ LastCloserFrees

\* The devices, memory and CPUs found are those of the boot loader's blob (Fdt), a
\* device in use is not freed and a registered one is found (Device), and the ramdisk
\* transfers exactly the segments of a request that was accepted (Device).
DevicesHold ==
  /\ part = "fdt" => TreeIsNesting /\ PlatformIsExact
  /\ part = "device" => DeviceIsLive /\ RegisteredIsFound
  /\ part = "bio" => ServedIsExact

\* Datagrams are read once each and in order, none is left where nobody looks for it,
\* and no packet buffer is in two places (Net).
PacketsArrive == part = "net" => PacketsInOrder

\* Readers get the committed lines as edited and do not sleep past them; output
\* leaves in order and keeps moving while any is buffered; no wakeup of a channel is
\* lost (Console).
TtyHolds ==
  /\ part \in {"input", "output"} => InputIsExact /\ OutputIsMoving
  /\ part = "chan" => NoChanWakeupLost

\* A file is freed by the last close and no file found through an RCU-protected slot
\* is gone; the descriptors of a shared or copied table are counted (Files).
FilesHold == part = "files" => FileRefsExact /\ SlotIsSafe

\* What getcwd prints leads back to the current directory through mounts and chroots,
\* and getdents returns each name once however small the buffer (Namespace).
NamesResolve ==
    /\ part = "namespace" => GetcwdResolves
    /\ part = "readdir" => GetdentsExact

\* After a crash at any point no block belongs to two files or to none while marked,
\* and the cache of free extents agrees with the bitmap (Xv6fs).
DiskHolds == part = "xv6fs" => DiskIsConsistent /\ ExtentsAreExact /\ UsedIsOwned

\* A read returns what was written last, or zeros, through the page cache, the log
\* and the two representations of a tmpfs file; its directories form a tree with
\* exact link counts (Xv6Data, Tmpfs).
ContentsHold ==
    /\ part = "data" => ReadIsExact
    /\ part = "tmpfs" => UnwrittenIsZero /\ TreeIsSound
=============================================================================
