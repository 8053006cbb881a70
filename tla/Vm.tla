--------------------------------- MODULE Vm ---------------------------------
(***************************************************************************)
(* Process address spaces (kernel/mm/vm.c), the calls that change them     *)
(* (sysmm.c, exec.c) and the page faults that fill them (irq/trap.c).      *)
(*                                                                         *)
(* An address space is tiled by areas (vma_t), free ones included; a free  *)
(* area may be on vm_free_list ("lst"), where mmap looks for room.  Pages  *)
(* are numbers: Bottom .. Top - 1 in an address space, PhysPages in        *)
(* memory.  A pte keeps the page, PTE_W and the copy-on-write mark         *)
(* PTE_RSW_w.  Operations under the write lock are one step each; a fault  *)
(* on a file page holds the read lock while it waits for the page cache    *)
(* ("filling"), and other threads may fault the same page meanwhile.       *)
(*                                                                         *)
(* Left out: page-table pages, the TLBs, page offsets and page contents.   *)
(* "leaked", "exposed" and "shrunk" are history variables: the references  *)
(* mremap forgets, the pages whose copy-on-write mark mprotect or mremap   *)
(* dropped, and the address spaces whose heap was shrunk.                  *)
(***************************************************************************)
EXTENDS Integers, FiniteSets, FiniteSetsExt

CONSTANTS Vms,        \* address spaces that can exist at once
          VmThreads,  \* threads
          Top,        \* UVMTOP; UVMBOTTOM is 1
          PhysPages,  \* physical pages, numbered from 1
          StackGap,   \* pages mmap keeps free below the stack (16 in vm.c)
          StackMax,   \* MAXUSTACK
          MaxMaps,    \* mappings a process makes, a bound of the model
          Workloads   \* the calls a behaviour's threads make

ASSUME VmAssumption == Top \in Nat /\ StackGap \in Nat /\ StackMax \in Nat \ {0}

VARIABLES areas,     \* vm -> the areas that tile it; {} when not in use
          pte,       \* vm -> page -> pte
          users,     \* vm -> refcount
          vmOf,      \* thread -> its vm, or NoVm
          filling,   \* thread -> the file fault it waits in, or NoFault
          refs,      \* physical page -> page_t reference count
          fileRefs,  \* references to the one mapped file, the open descriptor's included
          leaked, exposed, shrunk, work

vmVars == <<areas, pte, users, vmOf, filling, refs, fileRefs, leaked, exposed, shrunk, work>>

Bottom == 1
Vas == Bottom .. Top - 1
NoVm == "none"
NoPte == [pa |-> 0, w |-> FALSE, cow |-> FALSE]
NoFault == [va |-> 0, pa |-> 0]

\* VMA flags: what the area is for, whether it may be written, whether it has a file.
Area(s, e, kind, w, file, lst) ==
    [s |-> s, e |-> e, kind |-> kind, w |-> w, file |-> file, lst |-> lst]
IsFree(x) == x.kind = "free"
Size(x) == x.e - x.s
PagesOf(x) == x.s .. x.e - 1
AreaWith(S, va) == CHOOSE x \in S : va \in PagesOf(x)

(***************************************************************************)
(* The area tree: vma_split, vma_merge, vma_alloc, vma_free.               *)
(***************************************************************************)

SplitAt(S, x, va) ==
    IF va \notin PagesOf(x) \ {x.s} THEN S
    ELSE (S \ {x}) \cup {[x EXCEPT !.e = va], [x EXCEPT !.s = va]}

\* The left area survives a merge and keeps its place on (or off) the free list.
MergeInto(S, l, r) == (S \ {l, r}) \cup {[l EXCEPT !.e = r.e]}

CanAlloc(S, va, n) ==
    va \in Vas /\ LET x == AreaWith(S, va) IN IsFree(x) /\ x.e - va >= n

AllocArea(S, new) ==
    LET S1 == SplitAt(S, AreaWith(S, new.s), new.s)
        S2 == SplitAt(S1, AreaWith(S1, new.s), new.e)
    IN  (S2 \ {AreaWith(S2, new.s)}) \cup {new}

FreeArea(S, x) ==
    LET y == Area(x.s, x.e, "free", FALSE, FALSE, TRUE)
        S1 == (S \ {x}) \cup {y}
        left == { l \in S1 : l.e = y.s /\ IsFree(l) }
        S2 == IF left = {} THEN S1 ELSE MergeInto(S1, CHOOSE l \in left : TRUE, y)
        z == AreaWith(S2, x.s)
        right == { r \in S2 : r.s = z.e /\ IsFree(r) }
    IN  IF right = {} THEN S2 ELSE MergeInto(S2, z, CHOOSE r \in right : TRUE)

Heap(S) == CHOOSE x \in S : x.kind = "heap"
Stack(S) == CHOOSE x \in S : x.kind = "stack"

\* vm_find_free_range: the top of a listed free area between heap and stack.
FindFreeRange(S, n) ==
    LET top == Stack(S).s - StackGap
        bottom == Heap(S).e
        Usable(x) == (IF x.e > top THEN top ELSE x.e) - n
    IN  { va \in Vas : /\ top > bottom + n
                       /\ \E x \in S : /\ IsFree(x) /\ x.lst
                                       /\ va = Usable(x)
                                       /\ va >= x.s /\ va >= bottom }

(***************************************************************************)
(* Pages: what a range of ptes refers to, and dropping those references.   *)
(***************************************************************************)

FreePages == { p \in PhysPages : refs[p] = 0 }
NewPage == Min(FreePages)
MappedIn(v, range) == { va \in range : pte[v][va] # NoPte }
Uses(v, range, p) == Cardinality({ va \in range : pte[v][va].pa = p })
CowPages(v, range) == { pte[v][va].pa : va \in { a \in range : pte[v][a].cow } }

Unmapped(v, range) == [pte EXCEPT ![v] = [va \in Vas |-> IF va \in range THEN NoPte ELSE @[va]]]
RefsWithout(v, range) == [p \in PhysPages |-> refs[p] - Uses(v, range, p)]
\* A page that nobody refers to any more is not exposed when it is used again.
ExposedNow(more) == exposed' = { p \in exposed \cup more : refs'[p] > 0 }

\* vm_wlock waits for the faults that hold the read lock.
CanWrite(v) == \A t \in VmThreads : vmOf[t] = v => filling[t] = NoFault
VmRuns(t, v) == vmOf[t] = v /\ filling[t] = NoFault
Does(op) == op \in work
\* In the call mixes with fork or exec a program touches one kind of page only.
Touched(x) ==
    /\ ~IsFree(x)
    /\ Does("anon") => x.kind = "map"
    /\ Does("exec") => x.kind \in {"text", "data"}
Mine(v) == { x \in areas[v] : x.kind = "map" }

\* The image exec builds: a file page, the page where file data ends, heap and stack.
Text == 1
Data == 2
Image ==
    { Area(1, 2, "text", FALSE, TRUE, FALSE), Area(2, 3, "data", TRUE, FALSE, FALSE),
      Area(3, 4, "heap", TRUE, FALSE, FALSE), Area(4, Top - 2, "free", FALSE, FALSE, TRUE),
      Area(Top - 2, Top - 1, "stack", TRUE, FALSE, FALSE),
      Area(Top - 1, Top, "free", FALSE, FALSE, TRUE) }
ImagePtes(p1, p2, p3) ==
    [va \in Vas |-> CASE va = Text -> [pa |-> p1, w |-> FALSE, cow |-> FALSE]
                      [] va = Data -> [pa |-> p2, w |-> TRUE, cow |-> FALSE]
                      [] va = Top - 2 -> [pa |-> p3, w |-> TRUE, cow |-> FALSE]
                      [] OTHER -> NoPte]
NoPtes == [va \in Vas |-> NoPte]
FirstVm == CHOOSE v \in Vms : TRUE
FirstThread == CHOOSE t \in VmThreads : TRUE

\* The first process after its exec: text, data and stack are mapped.
VmInit ==
    /\ areas = [v \in Vms |-> IF v = FirstVm THEN Image ELSE {}]
    /\ pte = [v \in Vms |-> IF v = FirstVm THEN ImagePtes(1, 2, 3) ELSE NoPtes]
    /\ users = [v \in Vms |-> IF v = FirstVm THEN 1 ELSE 0]
    /\ vmOf = [t \in VmThreads |-> IF t = FirstThread THEN FirstVm ELSE NoVm]
    /\ filling = [t \in VmThreads |-> NoFault]
    /\ refs = [p \in PhysPages |-> IF p <= 3 THEN 1 ELSE 0]
    /\ fileRefs = 2
    /\ leaked = [p \in PhysPages |-> 0]
    /\ exposed = {}
    /\ shrunk = {}
    /\ work \in Workloads

(***************************************************************************)
(* Page faults.                                                            *)
(***************************************************************************)

\* __vma_validate_pte_rxw on a valid pte without PTE_W.
MakeWritable(t, v, va) ==
    LET old == pte[v][va] IN
    \/ /\ old.cow /\ FreePages # {}
       /\ pte' = [pte EXCEPT ![v][va] = [pa |-> NewPage, w |-> TRUE, cow |-> FALSE]]
       /\ refs' = [refs EXCEPT ![old.pa] = @ - 1, ![NewPage] = 1]
    \/ /\ ~old.cow
       /\ pte' = [pte EXCEPT ![v][va].w = TRUE]
       /\ UNCHANGED refs

\* __vma_validate_pte_rx and _rxw on an empty pte of an area without a file.
MapZeroPage(v, va, x) ==
    /\ pte[v][va] = NoPte /\ ~x.file /\ FreePages # {}
    /\ pte' = [pte EXCEPT ![v][va] = [pa |-> NewPage, w |-> x.w, cow |-> FALSE]]
    /\ refs' = [refs EXCEPT ![NewPage] = 1]

\* vma_validate, but for file pages that are not there yet.
Validate(t, v, va, wr) ==
    LET x == AreaWith(areas[v], va) IN
    /\ VmRuns(t, v)
    /\ Touched(x) /\ (wr => x.w)
    /\ \/ MapZeroPage(v, va, x)
       \/ pte[v][va] # NoPte /\ wr /\ ~pte[v][va].w /\ MakeWritable(t, v, va)
    /\ ExposedNow({})
    /\ UNCHANGED <<areas, users, vmOf, filling, fileRefs, leaked, shrunk, work>>

\* A load, store or fetch the page table does not allow.  A refusal sends SIGSEGV and
\* changes nothing here.
Fault(t, v, va, wr) == Validate(t, v, va, wr)

\* vm_copyin, vm_copyinstr and vm_copyout, page by page.
UserCopy(t, v, va, wr) == Does("thread") /\ Validate(t, v, va, wr)

\* A file page is read into a page of its own with only the read lock held.
FileFaultStart(t, v, va) ==
    LET x == AreaWith(areas[v], va) IN
    /\ VmRuns(t, v)
    /\ x.file /\ pte[v][va] = NoPte /\ FreePages # {}
    /\ filling' = [filling EXCEPT ![t] = [va |-> va, pa |-> NewPage]]
    /\ refs' = [refs EXCEPT ![NewPage] = 1]
    /\ UNCHANGED <<areas, pte, users, vmOf, fileRefs, leaked, exposed, shrunk, work>>

\* Bug: the pte is not looked at again after the read.
InstallsAnyway(t, v) ==
    LET f == filling[t] IN
    /\ pte' = [pte EXCEPT ![v][f.va] =
                  [pa |-> f.pa, w |-> AreaWith(areas[v], f.va).w, cow |-> FALSE]]
    /\ UNCHANGED refs

\* Install the page, or free it when another thread was faster.
InstallFilePage(t, v) ==
    LET f == filling[t] IN
    \/ /\ pte[v][f.va] = NoPte
       /\ pte' = [pte EXCEPT ![v][f.va] =
                     [pa |-> f.pa, w |-> AreaWith(areas[v], f.va).w, cow |-> FALSE]]
       /\ UNCHANGED refs
    \/ /\ pte[v][f.va] # NoPte
       /\ refs' = [refs EXCEPT ![f.pa] = 0]
       /\ UNCHANGED pte

FileFaultEnd(t) ==
    /\ filling[t] # NoFault
    /\ InstallFilePage(t, vmOf[t])
    /\ filling' = [filling EXCEPT ![t] = NoFault]
    /\ ExposedNow({})
    /\ UNCHANGED <<areas, users, vmOf, fileRefs, leaked, shrunk, work>>

\* vm_try_growstack: one page here, when the page below the stack is touched.
GrowStack(t, v) ==
    LET st == Stack(areas[v])
        left == AreaWith(areas[v], st.s - 1)
        S1 == SplitAt(areas[v], left, st.s - 1)
        grows == AreaWith(S1, st.s - 1)
    IN  /\ Does("stack") /\ VmRuns(t, v) /\ CanWrite(v)
        /\ st.e - (st.s - 1) <= StackMax
        /\ IsFree(left)
        /\ areas' = [areas EXCEPT ![v] =
                        (S1 \ {grows, st}) \cup {[st EXCEPT !.s = grows.s]}]
        /\ UNCHANGED <<pte, users, vmOf, filling, refs, fileRefs, leaked, exposed, shrunk, work>>

(***************************************************************************)
(* The memory calls.                                                       *)
(***************************************************************************)

\* vm_mmap, anonymous or file-backed, private; the descriptor's file gains a reference.
Mmap(t, v, n, w, file) ==
    /\ VmRuns(t, v) /\ CanWrite(v)
    /\ \/ Does("mmap") /\ Cardinality(Mine(v)) < MaxMaps
       \/ Does("anon") /\ Mine(v) = {} /\ n = 1 /\ w /\ ~file
    /\ \E va \in FindFreeRange(areas[v], n) :
          /\ CanAlloc(areas[v], va, n)
          /\ areas' = [areas EXCEPT ![v] = AllocArea(@, Area(va, va + n, "map", w, file, FALSE))]
    /\ fileRefs' = fileRefs + (IF file THEN 1 ELSE 0)
    /\ UNCHANGED <<pte, users, vmOf, filling, refs, leaked, exposed, shrunk, work>>

\* MAP_FIXED, at an address the program knows to be free.
MmapFixed(t, v, va) ==
    /\ Does("fixed") /\ VmRuns(t, v) /\ CanWrite(v)
    /\ va > Heap(areas[v]).e /\ va < Stack(areas[v]).s
    /\ CanAlloc(areas[v], va, 1) /\ Cardinality(Mine(v)) < MaxMaps
    /\ areas' = [areas EXCEPT ![v] = AllocArea(@, Area(va, va + 1, "map", TRUE, FALSE, FALSE))]
    /\ UNCHANGED <<pte, users, vmOf, filling, refs, fileRefs, leaked, exposed, shrunk, work>>

\* What __vma_set_free does to pages and file, for a range of one area.
SetFree(v, x, range) ==
    /\ pte' = Unmapped(v, range)
    /\ refs' = RefsWithout(v, range)
    /\ fileRefs' = fileRefs - (IF x.file THEN 1 ELSE 0)
    /\ ExposedNow({})

\* vm_munmap_region: the whole area goes, whatever length was given.
Munmap(t, v, x) ==
    /\ Does("mmap") \/ Does("anon")
    /\ VmRuns(t, v) /\ CanWrite(v)
    /\ SetFree(v, x, PagesOf(x))
    /\ areas' = [areas EXCEPT ![v] = FreeArea(@, x)]
    /\ UNCHANGED <<users, vmOf, filling, leaked, shrunk, work>>

\* vm_mprotect of the first n pages; the area's flags change only when n is all of it.
Mprotect(t, v, x, n, w) ==
    LET range == x.s .. x.s + n - 1 IN
    /\ Does("protect") /\ VmRuns(t, v) /\ CanWrite(v)
    /\ n \in 1 .. Size(x)
    /\ pte' = [pte EXCEPT ![v] = [va \in Vas |->
                  IF va \in MappedIn(v, range) THEN [pa |-> @[va].pa, w |-> w, cow |-> FALSE]
                  ELSE @[va]]]
    /\ areas' = IF n = Size(x)
                THEN [areas EXCEPT ![v] = (@ \ {x}) \cup {[x EXCEPT !.w = w]}] ELSE areas
    /\ UNCHANGED refs
    /\ ExposedNow(CowPages(v, range))
    /\ UNCHANGED <<users, vmOf, filling, fileRefs, leaked, shrunk, work>>

\* vm_mremap to a smaller size: the tail becomes an area of its own and is freed.
MremapShrink(t, v, x) ==
    LET S1 == SplitAt(areas[v], x, x.e - 1)
        end == AreaWith(S1, x.e - 1)
    IN  /\ Does("mremap") /\ VmRuns(t, v) /\ CanWrite(v)
        /\ Size(x) > 1
        /\ pte' = Unmapped(v, PagesOf(end))
        /\ refs' = RefsWithout(v, PagesOf(end))
        /\ ExposedNow({})
        /\ areas' = [areas EXCEPT ![v] = FreeArea(S1, end)]
        /\ UNCHANGED <<users, vmOf, filling, fileRefs, leaked, shrunk, work>>

\* vm_mremap to a larger size always moves: the pages gain a reference that is never
\* dropped, their copy-on-write mark and the area's file are lost.
MremapMove(t, v, x) ==
    /\ Does("mremap") /\ VmRuns(t, v) /\ CanWrite(v)
    /\ \A p \in PhysPages : leaked[p] = 0
    /\ \E to \in FindFreeRange(areas[v], Size(x) + 1) :
          LET S1 == AllocArea(areas[v], Area(to, to + Size(x) + 1, "map", x.w, FALSE, FALSE)) IN
          /\ pte' = [pte EXCEPT ![v] = [va \in Vas |->
                        IF va \in PagesOf(x) THEN NoPte
                        ELSE IF va - to + x.s \in MappedIn(v, PagesOf(x))
                             THEN [@[va - to + x.s] EXCEPT !.cow = FALSE]
                             ELSE @[va]]]
          /\ areas' = [areas EXCEPT ![v] = FreeArea(S1, x)]
    /\ refs' = [p \in PhysPages |-> refs[p] + Uses(v, PagesOf(x), p)]
    /\ leaked' = [p \in PhysPages |-> Uses(v, PagesOf(x), p)]
    /\ fileRefs' = fileRefs - (IF x.file THEN 1 ELSE 0)
    /\ ExposedNow(CowPages(v, PagesOf(x)))
    /\ UNCHANGED <<users, vmOf, filling, shrunk, work>>

\* vm_madvise(MADV_DONTNEED); msync, mincore and the other advice change nothing.
Madvise(t, v, x) ==
    /\ Does("madvise") /\ VmRuns(t, v) /\ CanWrite(v)
    /\ pte' = Unmapped(v, PagesOf(x))
    /\ refs' = RefsWithout(v, PagesOf(x))
    /\ ExposedNow({})
    /\ UNCHANGED <<areas, users, vmOf, filling, fileRefs, leaked, shrunk, work>>

\* vm_growheap: an exact fit is refused, because vma_split has nothing to split off.
GrowHeap(t, v) ==
    LET h == Heap(areas[v])
        right == AreaWith(areas[v], h.e)
        S1 == SplitAt(areas[v], right, h.e + 1)
    IN  /\ Does("heap") /\ VmRuns(t, v) /\ CanWrite(v)
        /\ IsFree(right) /\ Size(right) > 1
        /\ areas' = [areas EXCEPT ![v] = MergeInto(S1, h, AreaWith(S1, h.e))]
        /\ UNCHANGED <<pte, users, vmOf, filling, refs, fileRefs, leaked, exposed, shrunk, work>>

\* The freed end of the heap absorbs its free neighbour and is put on no list.
ShrinkHeap(t, v) ==
    LET h == Heap(areas[v])
        S1 == SplitAt(areas[v], h, h.e - 1)
        end == AreaWith(S1, h.e - 1)
        y == Area(end.s, end.e, "free", FALSE, FALSE, FALSE)
        right == { r \in S1 : r.s = end.e /\ IsFree(r) }
        S2 == (S1 \ {end}) \cup {y}
    IN  /\ Does("heap") /\ VmRuns(t, v) /\ CanWrite(v)
        /\ Size(h) > 1
        /\ SetFree(v, h, PagesOf(end))
        /\ areas' = [areas EXCEPT ![v] =
                        IF right = {} THEN S2 ELSE MergeInto(S2, y, CHOOSE r \in right : TRUE)]
        /\ shrunk' = shrunk \cup {v}
        /\ UNCHANGED <<users, vmOf, filling, leaked, work>>

(***************************************************************************)
(* Processes: clone, fork, exec, exit.                                     *)
(***************************************************************************)

\* clone with CLONE_VM: vm_dup.
ShareVm(t, u, v) ==
    /\ Does("thread") /\ VmRuns(t, v) /\ vmOf[u] = NoVm
    /\ vmOf' = [vmOf EXCEPT ![u] = v]
    /\ users' = [users EXCEPT ![v] = @ + 1]
    /\ UNCHANGED <<areas, pte, filling, refs, fileRefs, leaked, exposed, shrunk, work>>

Copied(p) == IF p = NoPte THEN NoPte ELSE [p EXCEPT !.w = FALSE, !.cow = TRUE]
FileAreas(S) == Cardinality({ x \in S : x.file })

\* Bug: the parent's ptes stay writable.
ParentStaysWritable(v, w) ==
    /\ pte' = [pte EXCEPT ![w] = [va \in Vas |-> Copied(pte[v][va])]]
    /\ refs' = [p \in PhysPages |-> refs[p] + Uses(v, Vas, p)]

\* __vma_copy for every area in use.
CopyPtes(v, w) ==
    LET both == [va \in Vas |-> Copied(pte[v][va])] IN
    /\ pte' = [pte EXCEPT ![v] = both, ![w] = both]
    /\ refs' = [p \in PhysPages |-> refs[p] + Uses(v, Vas, p)]

\* What vm_copy builds in a fresh address space: free areas are all listed there.
CopiedAreas(S) ==
    LET used == { x \in S : ~IsFree(x) }
        free == { x \in S : IsFree(x) }
    IN  used \cup { [x EXCEPT !.lst = TRUE] : x \in free }

\* clone without CLONE_VM: vm_copy, for a process no other thread shares.
Fork(t, u, v, w) ==
    /\ Does("fork") /\ VmRuns(t, v) /\ users[v] = 1 /\ users[w] = 0 /\ vmOf[u] = NoVm
    /\ CopyPtes(v, w)
    /\ areas' = [areas EXCEPT ![w] = CopiedAreas(areas[v])]
    /\ users' = [users EXCEPT ![w] = 1]
    /\ vmOf' = [vmOf EXCEPT ![u] = w]
    /\ fileRefs' = fileRefs + FileAreas(areas[v])
    /\ ExposedNow({})
    /\ UNCHANGED <<filling, leaked, shrunk, work>>

\* vm_copy gives up after some areas (no memory for a page table): the copy is put,
\* the parent's pages stay marked.
ForkFail(t, v, upto) ==
    /\ Does("fork") /\ VmRuns(t, v) /\ users[v] = 1
    /\ pte' = [pte EXCEPT ![v] = [va \in Vas |->
                  IF va < upto THEN Copied(@[va]) ELSE @[va]]]
    /\ UNCHANGED <<areas, users, vmOf, filling, refs, fileRefs, leaked, exposed, shrunk, work>>

FilesWithout(v) == fileRefs - FileAreas(areas[v])

\* vm_put: the last reference runs __vm_destroy.
VmPut(t, v) ==
    IF users[v] > 1
    THEN /\ users' = [users EXCEPT ![v] = @ - 1]
         /\ UNCHANGED <<areas, pte, refs, fileRefs, exposed, shrunk>>
    ELSE /\ users' = [users EXCEPT ![v] = 0]
         /\ areas' = [areas EXCEPT ![v] = {}]
         /\ pte' = Unmapped(v, Vas)
         /\ refs' = RefsWithout(v, Vas)
         /\ fileRefs' = FilesWithout(v)
         /\ shrunk' = shrunk \ {v}
         /\ ExposedNow({})

Exit(t, v) ==
    /\ VmRuns(t, v)
    /\ \E u \in VmThreads \ {t} : vmOf[u] # NoVm
    /\ VmPut(t, v)
    /\ vmOf' = [vmOf EXCEPT ![t] = NoVm]
    /\ UNCHANGED <<filling, leaked, work>>

\* exec: the new image is complete before the old one is put.  A failure after
\* vm_init puts the new image and changes nothing.
VmExec(t, v, w) ==
    /\ Does("exec") /\ VmRuns(t, v) /\ users[w] = 0
    /\ Cardinality(FreePages) >= 3
    /\ LET p1 == NewPage
           p2 == Min(FreePages \ {p1})
           p3 == Min(FreePages \ {p1, p2})
           last == users[v] = 1
       IN  /\ areas' = [areas EXCEPT ![w] = Image, ![v] = IF last THEN {} ELSE @]
           /\ pte' = [(IF last THEN Unmapped(v, Vas) ELSE pte) EXCEPT ![w] = ImagePtes(p1, p2, p3)]
           /\ refs' = [p \in PhysPages |->
                          IF p \in {p1, p2, p3} THEN 1
                          ELSE IF last THEN RefsWithout(v, Vas)[p] ELSE refs[p]]
           /\ fileRefs' = 1 + (IF last THEN FilesWithout(v) ELSE fileRefs)
           /\ users' = [users EXCEPT ![w] = 1, ![v] = @ - 1]
           /\ shrunk' = IF last THEN shrunk \ {v} ELSE shrunk
    /\ vmOf' = [vmOf EXCEPT ![t] = w]
    /\ ExposedNow({})
    /\ UNCHANGED <<filling, leaked, work>>

VmNext ==
    \/ \E t \in VmThreads, v \in Vms :
          \/ \E va \in Vas, wr \in BOOLEAN : Fault(t, v, va, wr) \/ UserCopy(t, v, va, wr)
          \/ \E va \in Vas : FileFaultStart(t, v, va) \/ MmapFixed(t, v, va) \/ ForkFail(t, v, va)
          \/ \E n \in 1 .. 2, w \in BOOLEAN, file \in BOOLEAN : Mmap(t, v, n, w, file)
          \/ \E x \in Mine(v) : \/ Munmap(t, v, x) \/ Madvise(t, v, x)
                                \/ MremapShrink(t, v, x) \/ MremapMove(t, v, x)
                                \/ \E n \in 1 .. 2, w \in BOOLEAN : Mprotect(t, v, x, n, w)
          \/ GrowStack(t, v) \/ GrowHeap(t, v) \/ ShrinkHeap(t, v) \/ Exit(t, v)
          \/ \E u \in VmThreads \ {t} :
                ShareVm(t, u, v) \/ \E w \in Vms : Fork(t, u, v, w)
          \/ \E w \in Vms : VmExec(t, v, w)
    \/ \E t \in VmThreads : FileFaultEnd(t)


-----------------------------------------------------------------------------

Mapped == { m \in Vms \X Vas : pte[m[1]][m[2]] # NoPte }
PteOf(m) == pte[m[1]][m[2]]

\* Copy-on-write keeps processes apart: a page mapped twice is writable through no pte,
\* except the pages whose mark vm_mprotect or vm_mremap dropped.
SharedIsReadOnly ==
    \A m, n \in Mapped : m # n /\ PteOf(m).pa = PteOf(n).pa /\ PteOf(m).w => PteOf(m).pa \in exposed

\* No page is freed while it is mapped and none is kept for ever, except by vm_mremap;
\* the file has one reference per area that maps it and one for the descriptor.
MemoryIsCounted ==
    /\ \A p \in PhysPages :
          refs[p] = Cardinality({ m \in Mapped : PteOf(m).pa = p })
                    + Cardinality({ t \in VmThreads : filling[t].pa = p }) + leaked[p]
    /\ fileRefs = 1 + Cardinality({ m \in Vms \X UNION { areas[w] : w \in Vms } :
                                       m[2] \in areas[m[1]] /\ m[2].file })

\* The areas of an address space tile it, free neighbours are merged, pages are mapped
\* only where an area is in use, and until a heap shrinks mmap finds every free area.
AreasTile ==
    \A v \in Vms : users[v] > 0 =>
       /\ \A va \in Vas : Cardinality({ x \in areas[v] : va \in PagesOf(x) }) = 1
       /\ \A x, y \in areas[v] : IsFree(x) /\ IsFree(y) => x.e # y.s
       /\ \A m \in Mapped : m[1] = v => ~IsFree(AreaWith(areas[v], m[2]))
       /\ v \notin shrunk => \A x \in areas[v] : IsFree(x) => x.lst

=============================================================================
