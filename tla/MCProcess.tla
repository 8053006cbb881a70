----------------------------- MODULE MCProcess -----------------------------
(***************************************************************************)
(* The processes, the signals of one group, and the address spaces, each   *)
(* by itself: part says which of the three a behaviour is about.           *)
(***************************************************************************)
EXTENDS Process, Signal, Vm, TLC

VARIABLE part

all == <<part, procVars, sigVars, vmVars>>

\* The calls the processes of Vm make in one behaviour; "anon" is a program that
\* only maps and touches one page.
CallMixes ==
    { {"fork", "exec"}, {"exec", "thread"}, {"mmap", "thread"}, {"mmap", "heap", "fixed"},
      {"mmap", "madvise", "mremap", "stack"}, {"anon", "fork", "protect"},
      {"anon", "fork", "mremap"} }

ProcInit ==
    /\ part \in {"process", "signal", "vm"}
    /\ ProcessInit /\ SignalInit /\ VmInit
    /\ part # "vm" => work = {"fork", "exec"}

ProcNext ==
    \/ part = "process" /\ ProcessNext /\ UNCHANGED <<part, sigVars, vmVars>>
    \/ part = "signal" /\ SignalNext /\ UNCHANGED <<part, procVars, vmVars>>
    \/ part = "vm" /\ VmNext /\ UNCHANGED <<part, procVars, sigVars>>

ProcSpec == ProcInit /\ [][ProcNext]_all

Symmetry == Permutations(Threads \ {initproc}) \cup Permutations(Groups)

\* Nobody sleeps past what it waits for: not in wait() with a child that was the last
\* of its group, not after vfork with a child that has let it go (Process).
SleepersAreTold == part = "process" => WaiterIsTold /\ VforkIsReleased

\* Pids, slots and groups are given back once, whoever fails, exits or reaps, and a
\* thread found by its pid lives as long as the reader looks at it (Process).
ThreadsAreCounted ==
    part = "process" => PidsAreExact /\ GroupsAreExact /\ FamilyAgrees /\ LookupIsSafe

\* Copy-on-write keeps processes apart (Vm): a page mapped twice is writable through
\* no pte, whatever forks, faults, exits and failures came before.
CopiesAreApart == part = "vm" => SharedIsReadOnly

\* Pages and file references are counted by who maps them, and the areas tile the
\* address space (Vm).
MappingsHold == part = "vm" => MemoryIsCounted /\ AreasTile
=============================================================================
