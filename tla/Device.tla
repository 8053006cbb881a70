------------------------------- MODULE Device -------------------------------
(***************************************************************************)
(* The device table (kernel/dev/dev.c) with the character and block        *)
(* devices over it (cdev.c, blkdev.c), their reference counts              *)
(* (kernel/kobject.c), and the interrupt descriptors (kernel/irq/irq.c),   *)
(* which are published and retired the same way.  One major number is      *)
(* modelled.  Readers run in RCU read sections; a dmajor is freed by       *)
(* call_rcu once the readers of that moment have left.                     *)
(***************************************************************************)
EXTENDS Integers, FiniteSets, Sequences, SequencesExt

CONSTANTS NDevices,       \* device_t structures, two for each minor number
          DevThreads,     \* threads that get, duplicate, put and unregister
          MaxMajors       \* dmajor structures in a run
ASSUME DeviceShape == NDevices \in Nat \ {0} /\ MaxMajors \in Nat

VARIABLES devTable,       \* __dev_table[major]: a dmajor, 0 for NULL
          dmajor,         \* the structures: minors, num_minors, "live"/"retired"/"freed"
          graceOf,        \* readers call_rcu still waits for, per retired dmajor
          dev,            \* refcount, unregistering, and a history: life
          devThread       \* what each thread is doing
devVars == <<devTable, dmajor, graceOf, dev, devThread>>

Devices == 1..NDevices
NoDevice == 0
MinorOf(d) == (d + 1) \div 2
Chars == {d \in Devices : d % 2 = 1}
Minors == {MinorOf(d) : d \in Devices}
Majors == 1..MaxMajors
EmptyMajor == [minors |-> [m \in Minors |-> NoDevice], num |-> 0, life |-> "live"]
NoMajor == [EmptyMajor EXCEPT !.life = "none"]
Unregistered == [refcount |-> 0, unregistering |-> TRUE, life |-> "off"]
IdleThread == [pc |-> "idle", major |-> 0, dev |-> NoDevice, want |-> "any", held |-> NoDevice]

\* A thread between rcu_read_lock and rcu_read_unlock of device_get.
TableReaders(t) == devThread[t].pc \in {"minor", "check", "tryget"}

(* Reference counts ----------------------------------------------------------- *)

KobjectInit(k) == [k EXCEPT !.refcount = 1]
KobjectGet(k) == [k EXCEPT !.refcount = @ + 1]
KobjectTryGet(k) == IF k.refcount = 0 THEN k ELSE KobjectGet(k)
KobjectSub(k) == [k EXCEPT !.refcount = @ - 1]

(* The table, under its lock -------------------------------------------------- *)

\* dev_type_alloc takes a structure no one has used.
NewMajor == IF \E m \in Majors : dmajor[m].life = "none"
            THEN CHOOSE m \in Majors : /\ dmajor[m].life = "none"
                                       /\ \A n \in Majors : dmajor[n].life = "none" => m <= n
            ELSE 0
MajorAvailable == devTable # 0 \/ NewMajor # 0

\* __dev_slot_get with alloc: the dmajor, made and published if there is none.
SlotMajor == IF devTable # 0 THEN devTable ELSE NewMajor
SlotDmajor == IF devTable # 0 THEN dmajor[devTable] ELSE EmptyMajor

\* __device_unregister: nothing if another device has the slot; the last minor
\* takes the dmajor with it.  An absent dmajor is allocated and left behind.
DeviceUnregister(d) ==
    /\ MajorAvailable
    /\ LET mine == SlotDmajor.minors[MinorOf(d)] = d
           cleared == [SlotDmajor EXCEPT !.minors[MinorOf(d)] = NoDevice, !.num = @ - 1]
           last == mine /\ cleared.num = 0
       IN /\ dmajor' = [dmajor EXCEPT ![SlotMajor] =
                          IF ~mine THEN SlotDmajor
                          ELSE IF last THEN [cleared EXCEPT !.life = "retired"] ELSE cleared]
          /\ devTable' = IF last THEN 0 ELSE SlotMajor
          /\ graceOf' = IF last THEN [graceOf EXCEPT ![SlotMajor] = {t \in DevThreads : TableReaders(t)}]
                        ELSE graceOf

\* dev_type_rcu_free: the grace period is over.
DevTypeRcuFree(m) ==
    /\ dmajor[m].life = "retired" /\ graceOf[m] = {}
    /\ dmajor' = [dmajor EXCEPT ![m] = [NoMajor EXCEPT !.life = "freed"]]
    /\ UNCHANGED <<devTable, graceOf, dev, devThread>>

(* Registration ----------------------------------------------------------------- *)

\* device_register under the lock; -EBUSY when the slot is taken.  open follows,
\* and its failure leaves the device registered.
DeviceRegister(d) ==
    /\ dev[d].life \in {"off", "released"} /\ MajorAvailable
    /\ SlotDmajor.minors[MinorOf(d)] = NoDevice
    /\ dev' = [dev EXCEPT ![d] = [refcount |-> KobjectInit(Unregistered).refcount,
                                  unregistering |-> FALSE, life |-> "on"]]
    /\ dmajor' = [dmajor EXCEPT ![SlotMajor] = [SlotDmajor EXCEPT !.minors[MinorOf(d)] = d, !.num = @ + 1]]
    /\ devTable' = SlotMajor
    /\ UNCHANGED <<graceOf, devThread>>

\* device_unregister: the flag is set once, the slot cleared, the first
\* reference dropped.
UnregisterFlag(t, d) ==
    /\ devThread[t].pc = "idle" /\ dev[d].life # "off" /\ ~dev[d].unregistering
    /\ dev' = [dev EXCEPT ![d].unregistering = TRUE]
    /\ devThread' = [devThread EXCEPT ![t].pc = "clear", ![t].dev = d]
    /\ UNCHANGED <<devTable, dmajor, graceOf>>
UnregisterClear(t) ==
    /\ devThread[t].pc = "clear"
    /\ DeviceUnregister(devThread[t].dev)
    /\ devThread' = [devThread EXCEPT ![t].pc = "put"]
    /\ UNCHANGED dev

(* Readers ------------------------------------------------------------------------ *)

EndRead(t) == [m \in Majors |-> graceOf[m] \ {t}]

\* device_get for cdev_get or blkdev_get: the major's entry, ...
GetMajor(t, want) ==
    /\ devThread[t].pc = "idle" /\ devThread[t].held = NoDevice /\ devTable # 0
    /\ devThread' = [devThread EXCEPT ![t].pc = "minor", ![t].major = devTable, ![t].want = want]
    /\ UNCHANGED <<devTable, dmajor, graceOf, dev>>
\* ... the minor's entry, ...
GetMinor(t, n) ==
    /\ devThread[t].pc = "minor"
    /\ LET d == dmajor[devThread[t].major].minors[n]
       IN IF d = NoDevice
          THEN /\ devThread' = [devThread EXCEPT ![t] = IdleThread]
               /\ graceOf' = EndRead(t)
          ELSE /\ devThread' = [devThread EXCEPT ![t].pc = "check", ![t].dev = d]
               /\ UNCHANGED graceOf
    /\ UNCHANGED <<devTable, dmajor, dev>>
\* ... the flag, ...
GetCheck(t) ==
    /\ devThread[t].pc = "check"
    /\ IF dev[devThread[t].dev].unregistering
       THEN /\ devThread' = [devThread EXCEPT ![t] = IdleThread]
            /\ graceOf' = EndRead(t)
       ELSE /\ devThread' = [devThread EXCEPT ![t].pc = "tryget"]
            /\ UNCHANGED graceOf
    /\ UNCHANGED <<devTable, dmajor, dev>>

\* A device of the other type is put back.
Accepts(want, d) == want = "any" \/ (want = "char") = (d \in Chars)

\* ... and kobject_try_get, before rcu_read_unlock.
GetTry(t) ==
    /\ devThread[t].pc = "tryget"
    /\ LET d == devThread[t].dev
           ok == dev[d].refcount # 0
       IN /\ dev' = [dev EXCEPT ![d] = KobjectTryGet(@)]
          /\ devThread' = [devThread EXCEPT ![t] =
                             IF ~ok THEN IdleThread
                             ELSE IF Accepts(@.want, d) THEN [IdleThread EXCEPT !.held = d]
                             ELSE [IdleThread EXCEPT !.pc = "put", !.dev = d]]
    /\ graceOf' = EndRead(t)
    /\ UNCHANGED <<devTable, dmajor>>

(* Holders ------------------------------------------------------------------------- *)

\* device_dup for another thread.
DeviceDup(t, u) ==
    /\ devThread[t].pc = "idle" /\ devThread[t].held # NoDevice
    /\ devThread[u].pc = "idle" /\ devThread[u].held = NoDevice
    /\ LET d == devThread[t].held
       IN /\ ~dev[d].unregistering /\ dev[d].refcount # 0
          /\ dev' = [dev EXCEPT ![d] = KobjectGet(@)]
          /\ devThread' = [devThread EXCEPT ![u].held = d]
    /\ UNCHANGED <<devTable, dmajor, graceOf>>

\* device_put starts.
PutStart(t) ==
    /\ devThread[t].pc = "idle" /\ devThread[t].held # NoDevice
    /\ devThread' = [devThread EXCEPT ![t].pc = "put", ![t].dev = devThread[t].held, ![t].held = NoDevice]
    /\ UNCHANGED <<devTable, dmajor, graceOf, dev>>

\* kobject_put: the last reference releases the object.
KobjectPut(t) ==
    /\ devThread[t].pc = "put"
    /\ LET d == devThread[t].dev
           k == KobjectSub(dev[d])
       IN /\ dev' = [dev EXCEPT ![d] = k]
          /\ devThread' = [devThread EXCEPT ![t].pc = IF k.refcount = 0 THEN "release" ELSE "idle",
                                            ![t].dev = IF k.refcount = 0 THEN d ELSE NoDevice]
    /\ UNCHANGED <<devTable, dmajor, graceOf>>

\* __underlying_kobject_release: off the table if still there, then ops.release.
KobjectRelease(t) ==
    /\ devThread[t].pc = "release"
    /\ DeviceUnregister(devThread[t].dev)
    /\ dev' = [dev EXCEPT ![devThread[t].dev].life = "released"]
    /\ devThread' = [devThread EXCEPT ![t].pc = "idle", ![t].dev = NoDevice]

DeviceInit ==
    /\ devTable = 0
    /\ dmajor = [m \in Majors |-> NoMajor] /\ graceOf = [m \in Majors |-> {}]
    /\ dev = [d \in Devices |-> Unregistered]
    /\ devThread = [t \in DevThreads |-> IdleThread]

DeviceNext ==
    \/ \E d \in Devices : DeviceRegister(d)
    \/ \E m \in Majors : DevTypeRcuFree(m)
    \/ \E t \in DevThreads :
         \/ \E d \in Devices : UnregisterFlag(t, d)
         \/ \E w \in {"char", "block"} : GetMajor(t, w)
         \/ \E n \in Minors : GetMinor(t, n)
         \/ UnregisterClear(t) \/ GetCheck(t) \/ GetTry(t) \/ PutStart(t)
         \/ KobjectPut(t) \/ KobjectRelease(t)
         \/ \E u \in DevThreads \ {t} : DeviceDup(t, u)

(* Properties ------------------------------------------------------------------------ *)

\* A thread that holds a device holds a live one: the count covers every holder,
\* and release runs only after the last.  No reader follows a freed dmajor.
DeviceIsLive ==
    /\ \A d \in Devices :
         LET holders == Cardinality({t \in DevThreads : devThread[t].held = d})
         IN /\ dev[d].refcount >= holders
            /\ holders > 0 => dev[d].life = "on"
    /\ \A t \in DevThreads : devThread[t].pc = "minor" => dmajor[devThread[t].major].life # "freed"

\* A registered device can be found until it is unregistered, whatever becomes of
\* other devices of the same number, and the table counts its devices.
RegisteredIsFound ==
    /\ \A d \in Devices : dev[d].life = "on" /\ ~dev[d].unregistering =>
         devTable # 0 /\ dmajor[devTable].minors[MinorOf(d)] = d
    /\ devTable # 0 =>
         /\ dmajor[devTable].life = "live"
         /\ dmajor[devTable].num = Cardinality({n \in Minors : dmajor[devTable].minors[n] # NoDevice})

(***************************************************************************)
(* Building a block request (kernel/dev/bio.c), its check and submission   *)
(* (kernel/dev/blkdev.c) and the ramdisk that serves it at once            *)
(* (kernel/ramdisk.c).  Sizes are counted in half blocks and bio->size     *)
(* wraps at SizeMod, 2^16 bytes in the code.  Bios have one submitter.     *)
(***************************************************************************)
CONSTANTS SizeMod, BIO_MAX_SIZE, BIO_MAX_VECS,
          PageUnits,         \* PGSIZE
          DiskUnits          \* ramdisk.size_bytes
ASSUME BioShape == BIO_MAX_SIZE < SizeMod /\ PageUnits < SizeMod /\ BIO_MAX_VECS \in Nat

VARIABLES bio,               \* the request
          moved              \* the half blocks of the disk it was copied from or to
bioVars == <<bio, moved>>

BlkUnits == 2                \* BLK_SIZE
EmptyVec == [page |-> FALSE, len |-> 0, offset |-> 0]
NoBio == [vecs |-> <<>>, size |-> 0, blkno |-> 0, doneSize |-> 0, done |-> FALSE]

\* bio_alloc, memset to zero.
BioAlloc(n, blkno) ==
    /\ bio = NoBio
    /\ n > 0 /\ n <= BIO_MAX_VECS
    /\ bio' = [NoBio EXCEPT !.vecs = [i \in 1..n |-> EmptyVec], !.blkno = blkno]
    /\ moved' = {}

\* bio_add_seg: the sum is a uint16, so a large segment can wrap below the limit.
BioAddSeg(i, len, offset) ==
    LET total == (bio.size + SizeMod - bio.vecs[i].len + len) % SizeMod
    IN /\ i \in DOMAIN bio.vecs /\ len # 0 /\ ~bio.done
       /\ total <= BIO_MAX_SIZE
       /\ bio' = [bio EXCEPT !.vecs[i] = [page |-> TRUE, len |-> len, offset |-> offset], !.size = total]
       /\ UNCHANGED moved

LenSum(b) == FoldLeft(LAMBDA n, v : n + v.len, 0, b.vecs)

\* bio_validate: the segments are summed again, without wrapping.
BioValidate(b) ==
    /\ Len(b.vecs) > 0 /\ b.size <= BIO_MAX_SIZE /\ ~b.done
    /\ \A i \in DOMAIN b.vecs : b.vecs[i].page /\ b.vecs[i].offset + b.vecs[i].len <= PageUnits
    /\ LenSum(b) <= BIO_MAX_SIZE /\ LenSum(b) = b.size

\* Entering segment i adds its own length to done_size; the first adds nothing.
DoneAt(b, i) == FoldLeft(LAMBDA n, v : n + v.len, 0, SubSeq(b.vecs, 2, i))
SectorOf(b, i) == b.blkno + DoneAt(b, i) \div BlkUnits
UnitsOf(b, i) == SectorOf(b, i) * BlkUnits + 1..SectorOf(b, i) * BlkUnits + b.vecs[i].len
InBounds(b, i) == SectorOf(b, i) * BlkUnits + b.vecs[i].len <= DiskUnits

\* ramdisk_submit_bio: segment by segment until one is beyond the end, which
\* ends the bio with -EINVAL.
RamdiskSubmitBio(b) ==
    LET bad == {i \in DOMAIN b.vecs : ~InBounds(b, i)}
        upto == {i \in DOMAIN b.vecs : \A j \in bad : i < j}
    IN /\ moved' = UNION {UnitsOf(b, i) : i \in upto}
       /\ bio' = [b EXCEPT !.done = TRUE,
                           !.doneSize = IF bad = {} THEN DoneAt(b, Len(b.vecs)) ELSE 0]

\* blkdev_submit_bio on a device that may be read and written.
SubmitToRamdisk == BioValidate(bio) /\ RamdiskSubmitBio(bio)

\* A bio the checks refuse, or that is done, is released.
BioRelease ==
    /\ bio # NoBio
    /\ bio' = NoBio /\ moved' = {}

BioInit == bio = NoBio /\ moved = {}
BioNext ==
    \/ \E n \in 1..BIO_MAX_VECS + 1 : \E blk \in 0..1 : BioAlloc(n, blk)
    \/ \E i \in DOMAIN bio.vecs : \E len \in 0..SizeMod - 1 : \E off \in {0, 1} : BioAddSeg(i, len, off)
    \/ SubmitToRamdisk \/ BioRelease

\* However its segments were set and reset, a bio that is served has the size of
\* its segments, each within a page and within the disk; and segments of one block
\* each are served at successive blocks.
ServedIsExact ==
    bio.done =>
      /\ LenSum(bio) = bio.size /\ bio.size <= BIO_MAX_SIZE
      /\ moved \subseteq 1..DiskUnits
      /\ (\A i \in DOMAIN bio.vecs : bio.vecs[i].len = BlkUnits /\ InBounds(bio, i))
           => moved = bio.blkno * BlkUnits + 1..bio.blkno * BlkUnits + bio.size
=============================================================================
