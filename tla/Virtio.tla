------------------------------- MODULE Virtio -------------------------------
(***************************************************************************)
(* The virtio disk driver (kernel/virtio_disk.c) and the bios it serves    *)
(* (kernel/dev/bio.c, kernel/inc/dev/bio.h).  The driver and the device    *)
(* share a descriptor table and two rings; the device works on its own and *)
(* finishes requests in any order.  A critical section of vdisk_lock is    *)
(* one step, except the interrupt handler's, during which the device runs. *)
(***************************************************************************)
EXTENDS Integers, Sequences, SequencesExt, FiniteSets, Functions

CONSTANTS Requesters,     \* threads that submit bios
          NUM,            \* descriptors
          IdxMod,         \* where the ring indices wrap, a multiple of NUM
          MaxSegs         \* segments of all the bios in flight
ASSUME VirtioShape == NUM \in Nat /\ NUM >= 3 /\ IdxMod % NUM = 0 /\ MaxSegs \in Nat \ {0}

VARIABLES freeList,       \* the free descriptors, a stack
          desc,           \* the chain: descriptor -> the next one, or -1
          availRing, availIdx, devAvail,   \* what the driver offers and the device has taken
          inDevice,       \* the chains the device works on
          usedRing, usedIdx, seenIdx,      \* what the device returned and the driver has seen
          info,           \* info[id]: done, and the requester that waits in comp
          irq,            \* the device's interrupt line
          handler,        \* the interrupt handler: "out", or "in" with the lock held
          descWait,       \* requesters asleep on desc_wait_queue
          rq,             \* what each requester is doing
          onDisk          \* history: the sectors the device has transferred for each bio
vioVars == <<freeList, desc, availRing, availIdx, devAvail, inDevice, usedRing, usedIdx,
             seenIdx, info, irq, handler, descWait, rq, onDisk>>

Descs == 0..NUM - 1
Consumed == -1
NoInfo == [done |-> FALSE, comp |-> {}, sector |-> 0]
IdleRq == [pc |-> "idle", segs |-> 0, seg |-> 0, done |-> 0, head |-> -1]
ringVars == <<availRing, availIdx, devAvail, inDevice, usedRing, usedIdx, seenIdx>>

(* Bios --------------------------------------------------------------------- *)

\* bio_iter: the sector of the segment at hand; every segment is one block, as
\* virtio_disk_rw asserts.  next_seg adds the length of the segment it enters.
IterStart == [idx |-> 0, done |-> 0]
\* Bug: the sector does not advance with the segment.
IterStuck(it) == [idx |-> it.idx + 1, done |-> it.done]
IterNext(it) == [idx |-> it.idx + 1, done |-> it.done + 1]
IterSector(it) == it.done

\* blkdev_submit_bio accepts it, and bio_start_io_acct resets the counters.
SubmitBio(r, n) ==
    /\ rq[r].pc = "idle"
    /\ n + FoldFunction(+, 0, [q \in Requesters |-> rq[q].segs]) <= MaxSegs
    /\ rq' = [rq EXCEPT ![r] = [IdleRq EXCEPT !.pc = "rw", !.segs = n,
                                              !.seg = IterStart.idx, !.done = IterStart.done]]
    /\ onDisk' = [onDisk EXCEPT ![r] = {}]
    /\ UNCHANGED <<ringVars, freeList, desc, info, irq, handler, descWait>>

(* Descriptors ------------------------------------------------------------------ *)

\* alloc3_desc takes the top three of the free list or none.
CanAlloc3 == Len(freeList) >= 3
Top(i) == freeList[Len(freeList) + 1 - i]

\* free_chain pushes the descriptors in the order of the chain.
Chain(h) == <<h, desc[h], desc[desc[h]]>>

\* free_desc wakes the waiters once three descriptors are free.
WakesAt == 3

(* virtio_disk_rw --------------------------------------------------------------- *)

\* No three descriptors: those taken are given back, which reverses their order,
\* and the requester sleeps on the disk's queue.
WaitDesc(r) ==
    /\ rq[r].pc = "rw" /\ handler = "out" /\ ~CanAlloc3
    /\ freeList' = Reverse(freeList)
    /\ rq' = [rq EXCEPT ![r].pc = "nodesc"]
    /\ descWait' = descWait \cup {r}
    /\ UNCHANGED <<ringVars, desc, info, irq, handler, onDisk>>
DescWoken(r) ==
    /\ rq[r].pc = "nodesc" /\ r \notin descWait /\ handler = "out"
    /\ rq' = [rq EXCEPT ![r].pc = "rw"]
    /\ UNCHANGED <<ringVars, freeList, desc, info, irq, handler, descWait, onDisk>>

\* Format the chain, put its head in the avail ring, publish the index and
\* notify; done and comp are set before the lock is released.
DiskRw(r) ==
    /\ rq[r].pc = "rw" /\ handler = "out" /\ CanAlloc3
    /\ freeList' = SubSeq(freeList, 1, Len(freeList) - 3)
    /\ desc' = [desc EXCEPT ![Top(1)] = Top(2), ![Top(2)] = Top(3), ![Top(3)] = -1]
    /\ info' = [info EXCEPT ![Top(1)] = [done |-> FALSE, comp |-> {r},
                                         sector |-> IterSector([idx |-> rq[r].seg, done |-> rq[r].done])]]
    /\ availRing' = [availRing EXCEPT ![availIdx % NUM] = Top(1)]
    /\ availIdx' = (availIdx + 1) % IdxMod
    /\ rq' = [rq EXCEPT ![r].pc = "wait", ![r].head = Top(1)]
    /\ UNCHANGED <<devAvail, inDevice, usedRing, usedIdx, seenIdx, irq, handler, descWait, onDisk>>

\* The completion is signalled: free the chain and go to the next segment.
RwDone(r) ==
    /\ rq[r].pc = "wait" /\ handler = "out" /\ info[rq[r].head].done
    /\ LET fl == freeList \o Chain(rq[r].head)
       IN freeList' = fl /\ descWait' = IF Len(fl) >= WakesAt THEN {} ELSE descWait
    /\ desc' = [desc EXCEPT ![rq[r].head] = -1, ![desc[rq[r].head]] = -1]
    /\ info' = [info EXCEPT ![rq[r].head] = NoInfo]
    /\ LET it == IterNext([idx |-> rq[r].seg, done |-> rq[r].done])
       IN rq' = [rq EXCEPT ![r] = IF it.idx < rq[r].segs
                                  THEN [@ EXCEPT !.pc = "rw", !.seg = it.idx, !.done = it.done, !.head = -1]
                                  ELSE [@ EXCEPT !.pc = "endio", !.head = -1]]
    /\ UNCHANGED <<ringVars, irq, handler, onDisk>>

\* bio_end_io_acct and bio_endio: the submitter has its data.
Endio(r) ==
    /\ rq[r].pc = "endio"
    /\ rq' = [rq EXCEPT ![r] = IdleRq]
    /\ UNCHANGED <<ringVars, freeList, desc, info, irq, handler, descWait, onDisk>>

(* The device ------------------------------------------------------------------- *)

\* A slot that was read is cleared, which no one can see: Consumed is never read.
DeviceTakes ==
    /\ devAvail # availIdx
    /\ inDevice' = inDevice \cup {availRing[devAvail % NUM]}
    /\ availRing' = [availRing EXCEPT ![devAvail % NUM] = Consumed]
    /\ devAvail' = (devAvail + 1) % IdxMod
    /\ UNCHANGED <<freeList, desc, availIdx, usedRing, usedIdx, seenIdx, info, irq,
                   handler, descWait, rq, onDisk>>
DeviceDone(h) ==
    /\ h \in inDevice
    /\ inDevice' = inDevice \ {h}
    /\ usedRing' = [usedRing EXCEPT ![usedIdx % NUM] = h]
    /\ usedIdx' = (usedIdx + 1) % IdxMod
    /\ irq' = TRUE
    /\ onDisk' = [r \in Requesters |->
                    IF r \in info[h].comp THEN onDisk[r] \cup {info[h].sector} ELSE onDisk[r]]
    /\ UNCHANGED <<freeList, desc, availRing, availIdx, devAvail, seenIdx, info, handler,
                   descWait, rq>>

(* virtio_disk_intr ---------------------------------------------------------------- *)

\* Take the lock and acknowledge.
IntrAck ==
    /\ irq /\ handler = "out"
    /\ handler' = "in" /\ irq' = FALSE
    /\ UNCHANGED <<ringVars, freeList, desc, info, descWait, rq, onDisk>>

\* One used entry: mark it done and complete its requester.
IntrOne ==
    /\ handler = "in" /\ seenIdx # usedIdx
    /\ info' = [info EXCEPT ![usedRing[seenIdx % NUM]].done = TRUE]
    /\ usedRing' = [usedRing EXCEPT ![seenIdx % NUM] = Consumed]
    /\ seenIdx' = (seenIdx + 1) % IdxMod
    /\ UNCHANGED <<freeList, desc, availRing, availIdx, devAvail, inDevice, usedIdx, irq,
                   handler, descWait, rq, onDisk>>

\* Bug: an interrupt that was raised meanwhile is acknowledged unseen.
IntrEndAcks ==
    /\ handler = "in"
    /\ handler' = "out" /\ irq' = FALSE
    /\ UNCHANGED <<ringVars, freeList, desc, info, descWait, rq, onDisk>>

IntrEnd ==
    /\ handler = "in" /\ seenIdx = usedIdx
    /\ handler' = "out"
    /\ UNCHANGED <<ringVars, freeList, desc, info, irq, descWait, rq, onDisk>>

VirtioInit ==
    /\ freeList = [i \in 1..NUM |-> i - 1]
    /\ desc = [d \in Descs |-> -1] /\ info = [d \in Descs |-> NoInfo]
    /\ availRing = [d \in Descs |-> Consumed] /\ usedRing = [d \in Descs |-> Consumed]
    /\ availIdx = 0 /\ devAvail = 0 /\ usedIdx = 0 /\ seenIdx = 0
    /\ inDevice = {} /\ irq = FALSE /\ handler = "out" /\ descWait = {}
    /\ rq = [r \in Requesters |-> IdleRq]
    /\ onDisk = [r \in Requesters |-> {}]

RwStep(r) == WaitDesc(r) \/ DescWoken(r) \/ DiskRw(r) \/ RwDone(r) \/ Endio(r)
IntrStep == IntrAck \/ IntrOne \/ IntrEnd
DeviceStep == DeviceTakes \/ \E h \in Descs : DeviceDone(h)
VirtioNext ==
    \/ \E r \in Requesters : \/ \E n \in 1..2 : SubmitBio(r, n)
                             \/ RwStep(r)
    \/ DeviceStep \/ IntrStep

(* Properties ------------------------------------------------------------------------ *)

\* The free list and the chains of the waiting requesters divide the descriptors
\* among them, and the device only ever works on a chain some requester waits for.
ChainsAreOwned ==
    LET heads == {rq[r].head : r \in {q \in Requesters : rq[q].pc = "wait"}}
        chained == UNION {ToSet(Chain(h)) : h \in heads}
    IN /\ IsInjective(freeList)
       /\ chained = Descs \ ToSet(freeList)
       /\ Cardinality(chained) = 3 * Cardinality({r \in Requesters : rq[r].pc = "wait"})
       /\ inDevice \subseteq {h \in heads : ~info[h].done}

\* A bio ends only after the device has transferred every sector of it, and a
\* request is completed only after its own transfer.
EndMeansTransferred ==
    \A r \in Requesters :
        /\ rq[r].pc = "endio" => onDisk[r] = 0..rq[r].segs - 1
        /\ rq[r].pc = "wait" /\ info[rq[r].head].done => info[rq[r].head].sector \in onDisk[r]

\* While a bio is in flight some bio ends later, although descriptors run out and
\* interrupts merge.  (Not that one: descriptors are not handed over in turn.)
SomeBioEnds == (\E r \in Requesters : rq[r].pc # "idle") ~> (\E r \in Requesters : rq[r].pc = "endio")
=============================================================================
