-------------------------------- MODULE Pipe --------------------------------
(***************************************************************************)
(* Pipes (kernel/pipe.c, kernel/inc/pipe.h): a ring buffer with one lock   *)
(* and one counter per end.  A thread that must wait for the other end     *)
(* sleeps on that end's queue under that end's lock.  Bytes are numbered   *)
(* modulo 3 in the order in which they are written, and the counters wrap  *)
(* at CounterMod, a multiple of PIPESIZE as 2^32 is.                       *)
(***************************************************************************)
EXTENDS Integers, FiniteSets

CONSTANTS PipeWriters, PipeReaders,
          PIPESIZE, CounterMod,
          BufSize,                  \* the buffer of piperead and pipewrite
          MaxBytes                  \* bytes of one call
ASSUME PipeShape == /\ PIPESIZE \in Nat \ {0} /\ BufSize \in Nat \ {0} /\ MaxBytes \in Nat \ {0}
                    /\ CounterMod % PIPESIZE = 0 /\ CounterMod > PIPESIZE
                    /\ PipeWriters \cap PipeReaders = {}

VARIABLES nread, nwrite, ring,
          flags,          \* the open ends: a subset of {"r", "w"}
          lock,           \* lock["r"], lock["w"]: the holder, or {}
          queue,          \* queue["r"]: readers asleep, queue["w"]: writers asleep
          pt,             \* what each thread is doing
          sent, taken,    \* history: bytes written and read, modulo 3
          frees           \* history: how often the pipe was freed
pipeVars == <<nread, nwrite, ring, flags, lock, queue, pt, sent, taken, frees>>

PipeThreads == PipeWriters \cup PipeReaders
End(t) == IF t \in PipeWriters THEN "w" ELSE "r"
Far(t) == IF t \in PipeWriters THEN "r" ELSE "w"
Least2(a, b) == IF a <= b THEN a ELSE b

READABLE_SIZE(nw, nr) == (nw - nr) % CounterMod

\* Bug: one slot more than the ring has.
OneSlotMore(nw, nr) == PIPESIZE + 1 - READABLE_SIZE(nw, nr)

WRITABLE_SIZE(nw, nr) == PIPESIZE - READABLE_SIZE(nw, nr)

\* user: the call moves the bytes through a buffer of BufSize; left: bytes not
\* yet moved; seen: the counter it loaded; buf: the bytes copied out.
IdlePipe == [pc |-> "idle", user |-> FALSE, left |-> 0, chunk |-> 0, seen |-> 0, buf |-> <<>>]

Take(t, e) == lock[e] = {} /\ lock' = [lock EXCEPT ![e] = {t}]
Drop(e) == lock' = [lock EXCEPT ![e] = {}]
WakeAll(e) == queue' = [queue EXCEPT ![e] = {}]
To(t, pc) == pt' = [pt EXCEPT ![t].pc = pc]
Data == <<nread, nwrite, ring, sent, taken>>

\* vfs_fileread and vfs_filewrite on a pipe whose end is open.
Call(t, n, u) ==
    /\ pt[t].pc = "idle" /\ End(t) \in flags
    /\ pt' = [pt EXCEPT ![t] = [IdlePipe EXCEPT !.pc = IF u /\ End(t) = "w" THEN "stage" ELSE "lock",
                                                !.user = u, !.left = n,
                                                !.chunk = IF u THEN 0 ELSE n]]
    /\ UNCHANGED <<Data, flags, lock, queue, frees>>

\* pipewrite copies a part of the caller's bytes into its buffer; a bad
\* address ends the call.
Stage(t) ==
    /\ pt[t].pc = "stage"
    /\ \/ pt' = [pt EXCEPT ![t].pc = "lock", ![t].chunk = Least2(pt[t].left, BufSize)]
       \/ To(t, "out")
    /\ UNCHANGED <<Data, flags, lock, queue, frees>>

TakeOwnLock(t) ==
    /\ pt[t].pc = "lock" /\ Take(t, End(t)) /\ To(t, "load")
    /\ UNCHANGED <<Data, flags, queue, frees>>

\* smp_load_acquire of the other end's counter.
Load(t) ==
    /\ pt[t].pc = "load"
    /\ pt' = [pt EXCEPT ![t].pc = "act", ![t].seen = IF End(t) = "w" THEN nread ELSE nwrite]
    /\ UNCHANGED <<Data, flags, lock, queue, frees>>

(* The writer --------------------------------------------------------------- *)

\* No reader, or the writer is killed: the call fails.
WriteBroken(t) ==
    /\ pt[t].pc = "act" /\ End(t) = "w"
    /\ Drop("w") /\ pt' = [pt EXCEPT ![t] = IdlePipe]
    /\ UNCHANGED <<Data, flags, queue, frees>>

\* Full: wake the readers, let the writer lock go, wait for a reader.
WriteFull(t) ==
    /\ pt[t].pc = "act" /\ End(t) = "w" /\ "r" \in flags
    /\ WRITABLE_SIZE(nwrite, pt[t].seen) = 0
    /\ WakeAll("r") /\ Drop("w") /\ To(t, "wait")
    /\ UNCHANGED <<Data, flags, frees>>

\* Copy into the ring, wrapping around, and publish the counter.  pipewrite
\* keeps the lock until its buffer is empty, pipewrite_kernel does not.
WriteBytes(t) ==
    LET room == WRITABLE_SIZE(nwrite, pt[t].seen)
        k == Least2(pt[t].chunk, room)
    IN /\ pt[t].pc = "act" /\ End(t) = "w" /\ "r" \in flags /\ room > 0
       /\ ring' = [i \in 0..PIPESIZE - 1 |->
                     IF (i - nwrite) % PIPESIZE < k
                     THEN (sent + ((i - nwrite) % PIPESIZE)) % 3 ELSE ring[i]]
       /\ nwrite' = (nwrite + k) % CounterMod
       /\ sent' = (sent + k) % 3
       /\ pt' = [pt EXCEPT ![t].left = @ - k, ![t].chunk = @ - k, ![t].seen = 0,
                           ![t].pc = IF k = pt[t].left THEN "out"
                                     ELSE IF ~pt[t].user THEN "lock"
                                     ELSE IF k = pt[t].chunk THEN "stage" ELSE "load"]
       /\ IF pt'[t].pc = "load" THEN UNCHANGED lock ELSE Drop("w")
       /\ UNCHANGED <<nread, taken, flags, queue, frees>>

(* The reader --------------------------------------------------------------- *)

Empty(t) == READABLE_SIZE(pt[t].seen, nread) = 0

\* Empty and no writer: the end of the file.
ReadEof(t) ==
    /\ pt[t].pc = "act" /\ End(t) = "r" /\ Empty(t) /\ "w" \notin flags
    /\ Drop("r") /\ To(t, "eof")
    /\ UNCHANGED <<Data, flags, queue, frees>>

\* A killed reader gives up.
ReadKilled(t) ==
    /\ pt[t].pc = "act" /\ End(t) = "r" /\ Empty(t) /\ "w" \in flags
    /\ Drop("r") /\ pt' = [pt EXCEPT ![t] = IdlePipe]
    /\ UNCHANGED <<Data, flags, queue, frees>>

\* Empty: wake the writers, let the reader lock go, wait for a writer.
ReadEmpty(t) ==
    /\ pt[t].pc = "act" /\ End(t) = "r" /\ Empty(t) /\ "w" \in flags
    /\ WakeAll("w") /\ Drop("r") /\ To(t, "wait")
    /\ UNCHANGED <<Data, flags, frees>>

\* How many bytes a reader takes at once.
ReadSize(t) ==
    LET k == Least2(pt[t].left, READABLE_SIZE(pt[t].seen, nread))
    IN IF pt[t].user THEN Least2(k, BufSize) ELSE k

\* Copy out of the ring; the slots are still the reader's.
ReadCopy(t) ==
    /\ pt[t].pc = "act" /\ End(t) = "r" /\ ~Empty(t)
    /\ pt' = [pt EXCEPT ![t].pc = "store",
                        ![t].buf = [j \in 1..ReadSize(t) |-> ring[(nread + j - 1) % PIPESIZE]]]
    /\ UNCHANGED <<Data, flags, lock, queue, frees>>

\* smp_store_release of nread gives the slots back.
ReadStore(t) ==
    LET k == Cardinality(DOMAIN pt[t].buf)
    IN /\ pt[t].pc = "store"
       /\ nread' = (nread + k) % CounterMod
       /\ taken' = (taken + k) % 3
       /\ pt' = [pt EXCEPT ![t].left = @ - k, ![t].buf = <<>>, ![t].seen = 0,
                           ![t].pc = IF k = pt[t].left THEN "out" ELSE "lock"]
       /\ Drop("r")
       /\ UNCHANGED <<nwrite, ring, sent, flags, queue, frees>>

\* vm_copyout to a bad address ends piperead with the bytes already taken.
CopyoutFails(t) ==
    /\ pt[t].pc = "lock" /\ End(t) = "r" /\ pt[t].user
    /\ To(t, "out")
    /\ UNCHANGED <<Data, flags, lock, queue, frees>>

(* Waiting and leaving -------------------------------------------------------- *)

\* __pipe_wait_reader and __pipe_wait_writer: under the far lock, sleep on the
\* own queue unless the far end is closed or the thread is killed.
WaitFar(t) ==
    /\ pt[t].pc = "wait" /\ lock[Far(t)] = {}
    /\ \/ To(t, "lock") /\ UNCHANGED queue
       \/ /\ Far(t) \in flags
          /\ queue' = [queue EXCEPT ![End(t)] = @ \cup {t}]
          /\ To(t, "asleep")
    /\ UNCHANGED <<Data, flags, lock, frees>>

\* Woken, tq_wait takes the far lock again, which is then released.
Wake(t) ==
    /\ pt[t].pc = "asleep" /\ t \notin queue[End(t)] /\ lock[Far(t)] = {}
    /\ To(t, "lock")
    /\ UNCHANGED <<Data, flags, lock, queue, frees>>

\* The end of a call: wake the other end under the own lock.
Out(t) ==
    /\ pt[t].pc \in {"out", "eof"} /\ lock[End(t)] = {}
    /\ WakeAll(Far(t))
    /\ pt' = [pt EXCEPT ![t] = IdlePipe]
    /\ UNCHANGED <<Data, flags, lock, frees>>

(* Closing -------------------------------------------------------------------- *)

\* The last file of an end is put, when no call on that end is under way.
Close(t) ==
    /\ \A u \in PipeThreads : End(u) = End(t) => pt[u].pc = "idle"
    /\ End(t) \in flags
    /\ Take(t, End(t)) /\ To(t, "close")
    /\ UNCHANGED <<Data, flags, queue, frees>>

\* The atomic clear returns the old flags; then wake the other end's sleepers.
CloseClear(t) ==
    /\ pt[t].pc = "close"
    /\ flags' = flags \ {End(t)}
    /\ WakeAll(Far(t)) /\ Drop(End(t))
    /\ pt' = [pt EXCEPT ![t] = [IdlePipe EXCEPT !.pc = IF flags = {End(t)} THEN "free" ELSE "gone"]]
    /\ UNCHANGED <<Data, frees>>

\* kfree.
Free(t) ==
    /\ pt[t].pc = "free"
    /\ frees' = frees + 1
    /\ pt' = [pt EXCEPT ![t].pc = "gone"]
    /\ UNCHANGED <<Data, flags, lock, queue>>

PipeInit ==
    /\ nread = 0 /\ nwrite = 0 /\ sent = 0 /\ taken = 0 /\ frees = 0
    /\ ring = [i \in 0..PIPESIZE - 1 |-> 0]
    /\ flags = {"r", "w"}
    /\ lock = [e \in {"r", "w"} |-> {}]
    /\ queue = [e \in {"r", "w"} |-> {}]
    /\ pt = [t \in PipeThreads |-> IdlePipe]

PipeNext ==
    \E t \in PipeThreads :
        \/ \E n \in 1..MaxBytes, u \in BOOLEAN : Call(t, n, u)
        \/ Stage(t) \/ TakeOwnLock(t) \/ Load(t)
        \/ WriteBroken(t) \/ WriteFull(t) \/ WriteBytes(t)
        \/ ReadEof(t) \/ ReadKilled(t) \/ ReadEmpty(t) \/ ReadCopy(t) \/ ReadStore(t) \/ CopyoutFails(t)
        \/ WaitFar(t) \/ Wake(t) \/ Out(t)
        \/ Close(t) \/ CloseClear(t) \/ Free(t)

(* Properties ------------------------------------------------------------------ *)

\* The two ends share the ring under different locks, and still: it never holds
\* more than PIPESIZE bytes, the bytes between the counters are the next ones of
\* the stream, also when the counters wrap, and what a reader has copied out is
\* what it gives back.
PipeIsFifo ==
    LET held == READABLE_SIZE(nwrite, nread)
    IN /\ held <= PIPESIZE /\ (taken + held) % 3 = sent
       /\ \A j \in 0..held - 1 : ring[(nread + j) % PIPESIZE] = (taken + j) % 3
       /\ \A t \in PipeReaders : \A j \in DOMAIN pt[t].buf : pt[t].buf[j] = (taken + j - 1) % 3

\* Two closers race through different locks, and exactly one of them frees
\* the pipe, after both ends are closed.
LastCloserFrees ==
    LET freeing == Cardinality({t \in PipeThreads : pt[t].pc = "free"})
    IN IF flags = {} THEN frees + freeing = 1 ELSE frees + freeing = 0

=============================================================================
