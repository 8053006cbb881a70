------------------------------ MODULE LogProofs ------------------------------
(***************************************************************************)
(* The log of one file system is atomic and its counters hold, for any      *)
(* number of threads, blocks and slots and a crash between any two steps.   *)
(*                                                                          *)
(* OneFs is needed: bsync() writes back the dirty buffers of every mount,   *)
(* so the commit of one file system can find the list empty while the       *)
(* committer of another one still holds a buffer of the first.              *)
(*                                                                          *)
(* Nothing about the disk can be said without saying where the committer    *)
(* is: LInv has one clause per stage of a commit (WriteStage, CommitStage,  *)
(* InstallStage, EraseStage) and of a mount (MountStage), each saying which *)
(* of cache, slot and home block agree, and Coherent says that a buffer     *)
(* that is neither pinned nor on its way to the disk may be dropped.        *)
(***************************************************************************)
EXTENDS Log, FiniteSetTheorems, TLAPS

OneFs == \A d, e \in Devs : d = e

Committing == {"writelog", "commit", "install", "erase", "release"}
Dirty(d, a) == <<d, a>> \in Range(dirtyList) \/ \E t \in Threads : flight[t] = <<d, a>>
Once(s) == \A i, j \in DOMAIN s : s[i] = s[j] => i = j

\* A thread in begin_op or end_op works on a file system that is mounted; the queues
\* hold threads that sleep there.
ThreadsOK ==
    /\ \A t \in Threads : pc[t] # "idle" => dev[t] \in Devs /\ mnt[dev[t]] = "up"
    /\ \A d \in Devs : \A t \in waitq[d] : pc[t] = "wait" /\ dev[t] = d
    /\ \A c \in Threads : \A t \in tempq[c] :
          /\ pc[t] = "wait" /\ pc[c] = "wake"
          /\ \A d \in Devs : t \notin waitq[d]
          /\ \A e \in Threads : t \in tempq[e] => e = c

\* committing is set while one thread is inside the commit.
CommitterOK ==
    /\ \A d \in Devs : committing[d] <=> \E t \in Threads : pc[t] \in Committing /\ dev[t] = d
    /\ \A t, u \in Threads : pc[t] \in Committing /\ pc[u] \in Committing => t = u

\* Only the committer is in bsync(), and only there buffers are dirty.
DirtyOK ==
    /\ \A t \in Threads : flight[t] # None => InBsync(t)
    /\ \A d \in Devs, a \in Addrs :
          Dirty(d, a) => \E t \in Threads :
             /\ dev[t] = d
             /\ \/ pc[t] = "writelog" /\ a \in Slots /\ a < tail[t]
                \/ pc[t] = "install" /\ \E i \in DOMAIN lh[d] : i < tail[t] /\ a = lh[d][i]

HeaderOK ==
    \A d \in Devs : /\ Once(lh[d]) /\ Len(lh[d]) <= LogSize
                    /\ Once(head[d]) /\ Len(head[d]) <= LogSize
                    /\ \A t \in OpsOn(d) : mine[t] \subseteq Range(lh[d])

\* A buffer may be recycled unless it is pinned or dirty.
Coherent ==
    \A d \in Devs, a \in Addrs :
        /\ a \in pinned[d] \/ Dirty(d, a) => cache[d][a] # None
        /\ a \notin pinned[d] /\ ~Dirty(d, a) => cache[d][a] \in {None, disk[d][a]}

\* Recovery has copied the first slots home.
MountStage ==
    \A d \in Devs :
        /\ mnt[d] # "up" => pinned[d] = {}
        /\ mnt[d] = "install" =>
              /\ lh[d] = head[d]
              /\ \A i \in DOMAIN lh[d] : i < tail[d] => disk[d][lh[d][i]] = disk[d][i]

\* Outside of a commit what has been logged is in pinned buffers and nowhere else.
OpStage ==
    \A d \in Devs :
        mnt[d] = "up" /\ ~committing[d] =>
            /\ head[d] = <<>> /\ pinned[d] = Range(lh[d])
            /\ outstanding[d] = 0 => lh[d] = <<>>

WriteStage ==
    \A t \in Threads : pc[t] = "writelog" =>
        /\ head[dev[t]] = <<>> /\ pinned[dev[t]] = Range(lh[dev[t]])
        /\ \A i \in DOMAIN lh[dev[t]] :
              i < tail[t] => Bread(dev[t], i) = cache[dev[t]][lh[dev[t]][i]]

CommitStage ==
    \A t \in Threads : pc[t] = "commit" =>
        /\ head[dev[t]] = <<>> /\ pinned[dev[t]] = Range(lh[dev[t]]) /\ tail[t] = 1
        /\ \A i \in DOMAIN lh[dev[t]] : disk[dev[t]][i] = cache[dev[t]][lh[dev[t]][i]]

InstallStage ==
    \A t \in Threads : pc[t] = "install" =>
        /\ head[dev[t]] = lh[dev[t]]
        /\ pinned[dev[t]] = {lh[dev[t]][i] : i \in {j \in DOMAIN lh[dev[t]] : j >= tail[t]}}
        /\ \A i \in DOMAIN lh[dev[t]] : disk[dev[t]][i] = Bread(dev[t], lh[dev[t]][i])

EraseStage ==
    \A t \in Threads :
        /\ pc[t] = "erase" =>
              /\ head[dev[t]] = lh[dev[t]] /\ pinned[dev[t]] = {}
              /\ \A i \in DOMAIN lh[dev[t]] : disk[dev[t]][i] = disk[dev[t]][lh[dev[t]][i]]
        /\ pc[t] = "release" =>
              head[dev[t]] = <<>> /\ lh[dev[t]] = <<>> /\ pinned[dev[t]] = {}

LInv ==
    /\ TypeOK /\ ThreadsOK /\ CommitterOK /\ DirtyOK /\ HeaderOK /\ Coherent
    /\ MountStage /\ OpStage /\ WriteStage /\ CommitStage /\ InstallStage /\ EraseStage
    /\ CommitExcludesOps /\ ReservationsFit /\ NoStrandedWaiter

----------------------------------------------------------------------------
LEMMA RangeOfAppend ==
    ASSUME NEW S, NEW s \in Seq(S), NEW x \in S
    PROVE  Append(s, x) \in Seq(S) /\ Range(Append(s, x)) = Range(s) \cup {x}
<1>1. /\ Append(s, x) \in Seq(S) /\ DOMAIN s = 1..Len(s) /\ Len(s) \in Nat
      /\ DOMAIN Append(s, x) = 1..(Len(s) + 1) /\ Append(s, x)[Len(s) + 1] = x
      /\ \A i \in 1..Len(s) : Append(s, x)[i] = s[i]
  OBVIOUS
<1>2. ASSUME NEW i \in DOMAIN Append(s, x) PROVE Append(s, x)[i] \in Range(s) \cup {x}
  BY <1>1 DEF Range
<1>3. ASSUME NEW i \in DOMAIN s PROVE s[i] \in Range(Append(s, x))
  BY <1>1 DEF Range
<1>4. x \in Range(Append(s, x))
  BY <1>1 DEF Range
<1>q. QED BY <1>1, <1>2, <1>3, <1>4 DEF Range

LEMMA RangeIsEmpty ==
    ASSUME NEW S, NEW s \in Seq(S)
    PROVE  Range(s) = {} <=> s = <<>>
BY DEF Range

LEMMA EmptyRange == Range(<<>>) = {}
BY DEF Range

LEMMA Popped ==
    ASSUME NEW S, NEW s \in Seq(S), s # <<>>
    PROVE  /\ Last(s) \in S /\ Front(s) \in Seq(S)
           /\ Range(s) = Range(Front(s)) \cup {Last(s)}
<1>1. Len(s) \in Nat /\ Len(s) > 0 /\ DOMAIN s = 1..Len(s)
  OBVIOUS
<1>2. Last(s) \in S
  BY <1>1 DEF Last
<1>3. Front(s) \in Seq(S) /\ Len(Front(s)) = Len(s) - 1
  BY <1>1 DEF Front
<1>4. \A i \in 1..(Len(s) - 1) : Front(s)[i] = s[i]
  BY <1>1 DEF Front
<1>5. DOMAIN Front(s) = 1..(Len(s) - 1)
  BY <1>1, <1>3
<1>6. Range(s) = Range(Front(s)) \cup {Last(s)}
  <2>1. ASSUME NEW i \in DOMAIN s PROVE s[i] \in Range(Front(s)) \cup {Last(s)}
    BY <1>1, <1>4, <1>5 DEF Range, Last
  <2>2. ASSUME NEW i \in DOMAIN Front(s) PROVE Front(s)[i] \in Range(s)
    BY <1>1, <1>4, <1>5 DEF Range
  <2>3. Last(s) \in Range(s)
    BY <1>1 DEF Range, Last
  <2>q. QED BY <2>1, <2>2, <2>3 DEF Range
<1>q. QED BY <1>2, <1>3, <1>6

LEMMA OnceAppended ==
    ASSUME NEW S, NEW s \in Seq(S), NEW x \in S, Once(s), x \notin Range(s)
    PROVE  Once(Append(s, x))
BY DEF Once, Range

LEMMA RangeBound ==
    ASSUME NEW S, NEW s \in Seq(S)
    PROVE  IsFiniteSet(Range(s)) /\ Cardinality(Range(s)) \in Nat /\ Cardinality(Range(s)) <= Len(s)
<1>1. Len(s) \in Nat /\ DOMAIN s = 1..Len(s)
  OBVIOUS
<1>2. IsFiniteSet(1..Len(s)) /\ Cardinality(1..Len(s)) = Len(s)
  BY <1>1, FS_Interval
<1>3. s \in Surjection(1..Len(s), Range(s))
  BY <1>1 DEF Surjection, Range
<1>q. QED BY <1>2, <1>3, FS_Surjection, FS_CardinalityType

----------------------------------------------------------------------------
\* The file system of a thread in begin_op or end_op.
LEMMA DevOf ==
    ASSUME LInv, NEW t \in Threads, pc[t] # "idle"
    PROVE  dev[t] \in Devs /\ mnt[dev[t]] = "up"
BY DEF LInv, ThreadsOK

\* A loop index of a commit or a recovery names a slot and a home block.
LEMMA IndexOf ==
    ASSUME LInv, NEW d \in Devs, NEW i \in DOMAIN lh[d]
    PROVE  /\ i \in Nat /\ i >= 1 /\ i <= Len(lh[d]) /\ i \in Slots /\ i \in Addrs
           /\ lh[d][i] \in Blocks /\ lh[d][i] \in Addrs /\ lh[d][i] # i
           /\ lh[d][i] \notin Slots /\ i \notin Blocks /\ lh[d][i] \in Range(lh[d])
<1>1. lh[d] \in Seq(Blocks) /\ Len(lh[d]) <= LogSize
  BY DEF LInv, TypeOK, HeaderOK
<1>2. i \in Nat /\ i >= 1 /\ i <= Len(lh[d]) /\ lh[d][i] \in Blocks
  BY <1>1
<1>3. i \in Slots
  BY <1>1, <1>2, SizesAssumption DEF Slots
<1>q. QED BY <1>1, <1>2, <1>3, NamesAssumption DEF Addrs, Range

LEMMA OpsFinite ==
    ASSUME NEW d
    PROVE  IsFiniteSet(OpsOn(d))
BY NamesAssumption, FS_Subset DEF OpsOn

\* What is dirty depends on the list and the buffers in flight only.
LEMMA DirtyKept ==
    ASSUME dirtyList' = dirtyList, flight' = flight
    PROVE  \A e \in Devs, x \in Addrs : Dirty(e, x)' <=> Dirty(e, x)
BY DEF Dirty

LEMMA RecoverBlockEffect ==
    ASSUME LInv, NEW d \in Devs, RecoverBlock(d)
    PROVE  /\ tail[d] \in DOMAIN lh[d]
           /\ cache' = [cache EXCEPT ![d] = cache'[d]] /\ disk' = [disk EXCEPT ![d] = disk'[d]]
           /\ cache'[d] \in [Addrs -> Values \cup {None}] /\ disk'[d] \in [Addrs -> Values]
           /\ \A x \in Addrs : ~Dirty(d, x) /\ x \notin pinned[d]
           /\ \A x \in Addrs : cache'[d][x] = IF x = tail[d] \/ x = lh[d][tail[d]]
                                              THEN disk[d][tail[d]] ELSE cache[d][x]
           /\ \A x \in Addrs : disk'[d][x] = IF x = lh[d][tail[d]] THEN disk[d][tail[d]]
                                                                 ELSE disk[d][x]
<1> USE DEF LInv
<1>1. mnt[d] = "install" /\ tail[d] <= Len(lh[d]) /\ lh[d] \in Seq(Blocks) /\ tail[d] \in Nat \ {0}
  BY DEF RecoverBlock, TypeOK
<1>2. tail[d] \in DOMAIN lh[d]
  BY <1>1
<1> DEFINE i == tail[d]
           b == lh[d][i]
<1>3. i \in Addrs /\ b \in Addrs /\ b # i
  BY <1>2, IndexOf
<1> HIDE DEF i, b
<1>4. \A x \in Addrs : ~Dirty(d, x) /\ x \notin pinned[d]
  BY <1>1 DEF DirtyOK, ThreadsOK, MountStage
<1>5. cache[d] \in [Addrs -> Values \cup {None}] /\ disk[d] \in [Addrs -> Values] /\ cache \in [Devs -> [Addrs -> Values \cup {None}]]
      /\ disk \in [Devs -> [Addrs -> Values]]
  BY DEF TypeOK
<1>6. Bread(d, i) = disk[d][i]
  BY <1>3, <1>4, <1>5 DEF Coherent, Bread
<1>7. /\ cache' = [cache EXCEPT ![d][i] = disk[d][i], ![d][b] = disk[d][i]]
      /\ disk' = [disk EXCEPT ![d][b] = disk[d][i]]
  BY <1>6 DEF RecoverBlock, i, b
<1>8. cache'[d] = [cache[d] EXCEPT ![i] = disk[d][i], ![b] = disk[d][i]] /\ disk'[d] = [disk[d] EXCEPT ![b] = disk[d][i]]
  BY <1>5, <1>7
<1>9. cache' = [cache EXCEPT ![d] = cache'[d]] /\ disk' = [disk EXCEPT ![d] = disk'[d]]
  BY <1>5, <1>7, <1>8
<1>10. cache'[d] \in [Addrs -> Values \cup {None}] /\ disk'[d] \in [Addrs -> Values]
  BY <1>5, <1>8, <1>3
<1>11. /\ \A x \in Addrs : cache'[d][x] = IF x = i \/ x = b THEN disk[d][i] ELSE cache[d][x]
       /\ \A x \in Addrs : disk'[d][x] = IF x = b THEN disk[d][i] ELSE disk[d][x]
  BY <1>3, <1>5, <1>8
<1>q. QED BY <1>2, <1>4, <1>9, <1>10, <1>11 DEF i, b

LEMMA LogWriteEffect ==
    ASSUME LInv, NEW t \in Threads, NEW b \in Blocks, NEW v \in Values, LogWrite(t, b, v)
    PROVE  /\ dev[t] \in Devs /\ mnt[dev[t]] = "up" /\ pc[t] = "op" /\ ~committing[dev[t]]
           /\ cache' = [cache EXCEPT ![dev[t]] = cache'[dev[t]]]
           /\ cache'[dev[t]] \in [Addrs -> Values \cup {None}]
           /\ \A x \in Addrs : cache'[dev[t]][x] = IF x = b THEN v ELSE cache[dev[t]][x]
           /\ lh' \in [Devs -> Seq(Blocks)]
           /\ Range(lh'[dev[t]]) = Range(lh[dev[t]]) \cup {b} /\ Once(lh'[dev[t]])
           /\ Len(lh'[dev[t]]) <= LogSize /\ lh' = [lh EXCEPT ![dev[t]] = lh'[dev[t]]]
           /\ pinned' = [pinned EXCEPT ![dev[t]] = @ \cup {b}]
<1> USE DEF LInv
<1> DEFINE d == dev[t]
<1>1. d \in Devs /\ mnt[d] = "up" /\ pc[t] = "op"
  BY DevOf DEF LogWrite
<1>2. ~committing[d]
  BY <1>1 DEF CommitExcludesOps, OpsOn, d
<1>3. cache \in [Devs -> [Addrs -> Values \cup {None}]] /\ lh \in [Devs -> Seq(Blocks)] /\ b \in Addrs /\ lh[d] \in Seq(Blocks)
  BY <1>1 DEF TypeOK, Addrs
<1>4. /\ cache' = [cache EXCEPT ![d][b] = v] /\ pinned' = [pinned EXCEPT ![d] = @ \cup {b}]
      /\ lh' = IF b \in Range(lh[d]) THEN lh ELSE [lh EXCEPT ![d] = Append(@, b)]
      /\ Len(lh[d]) < LogSize
  BY <1>3, SizesAssumption DEF LogWrite, LogFull
<1> HIDE DEF d
<1>5. /\ cache' = [cache EXCEPT ![d] = cache'[d]]
      /\ cache'[d] \in [Addrs -> Values \cup {None}]
      /\ \A x \in Addrs : cache'[d][x] = IF x = b THEN v ELSE cache[d][x]
  BY <1>1, <1>3, <1>4
<1>6. Once(lh[d])
  BY <1>1 DEF HeaderOK
<1>7. /\ lh' \in [Devs -> Seq(Blocks)] /\ Range(lh'[d]) = Range(lh[d]) \cup {b} /\ Once(lh'[d])
      /\ Len(lh'[d]) <= LogSize /\ lh' = [lh EXCEPT ![d] = lh'[d]]
  <2>1. CASE b \in Range(lh[d])
    <3>1. lh' = lh
      BY <1>4, <2>1
    <3>2. lh' = [lh EXCEPT ![d] = lh'[d]] /\ lh'[d] = lh[d]
      BY <3>1, <1>1, <1>3
    <3>3. Range(lh'[d]) = Range(lh[d]) \cup {b}
      BY <3>2, <2>1
    <3>q. QED BY <3>1, <3>2, <3>3, <1>3, <1>4, <1>6, SizesAssumption
  <2>2. CASE b \notin Range(lh[d])
    <3>1. lh' = [lh EXCEPT ![d] = Append(lh[d], b)]
      BY <1>4, <2>2
    <3>2. lh'[d] = Append(lh[d], b) /\ Append(lh[d], b) \in Seq(Blocks) /\ Len(Append(lh[d], b)) = Len(lh[d]) + 1
      BY <3>1, <1>1, <1>3
    <3>3. Range(lh'[d]) = Range(lh[d]) \cup {b} /\ Once(lh'[d])
      BY <3>2, <2>2, <1>3, <1>6, RangeOfAppend, OnceAppended
    <3>q. QED BY <3>1, <3>2, <3>3, <1>1, <1>3, <1>4, SizesAssumption
  <2>q. QED BY <2>1, <2>2
<1>q. QED BY <1>1, <1>2, <1>4, <1>5, <1>7 DEF d

\* bwrite_async() makes one more buffer dirty.
LEMMA MarkDirtyEffect ==
    ASSUME TypeOK, NEW d \in Devs, NEW a \in Addrs, dirtyList' = MarkDirty(d, a), flight' = flight
    PROVE  /\ dirtyList' \in Seq(Devs \X Addrs)
           /\ \A e \in Devs, x \in Addrs : Dirty(e, x)' <=> Dirty(e, x) \/ (e = d /\ x = a)
<1>1. dirtyList \in Seq(Devs \X Addrs) /\ <<d, a>> \in Devs \X Addrs
  BY DEF TypeOK
<1>2. dirtyList' \in Seq(Devs \X Addrs) /\ Range(dirtyList') = Range(dirtyList) \cup {<<d, a>>}
  <2>1. CASE <<d, a>> \in Range(dirtyList)
    BY <2>1, <1>1 DEF MarkDirty
  <2>2. CASE <<d, a>> \notin Range(dirtyList)
    BY <2>2, <1>1, RangeOfAppend DEF MarkDirty
  <2>q. QED BY <2>1, <2>2
<1>3. ASSUME NEW e \in Devs, NEW x \in Addrs
      PROVE  Dirty(e, x)' <=> Dirty(e, x) \/ (e = d /\ x = a)
  BY <1>2 DEF Dirty
<1>q. QED BY <1>2, <1>3

LEMMA WriteLogEffect ==
    ASSUME LInv, NEW t \in Threads, WriteLog(t)
    PROVE  LET d == dev[t]  i == tail[t]  b == lh[d][i] IN
           /\ d \in Devs /\ mnt[d] = "up" /\ i \in DOMAIN lh[d]
           /\ cache' = [cache EXCEPT ![d] = cache'[d]]
           /\ cache'[d] \in [Addrs -> Values \cup {None}]
           /\ cache[d][b] # None
           /\ \A x \in Addrs : cache'[d][x] = IF x = i THEN cache[d][b] ELSE cache[d][x]
           /\ dirtyList' \in Seq(Devs \X Addrs)
           /\ \A e \in Devs, x \in Addrs : Dirty(e, x)' <=> Dirty(e, x) \/ (e = d /\ x = i)
<1> USE DEF LInv
<1> DEFINE d == dev[t]
           i == tail[t]
           b == lh[d][i]
<1>1. d \in Devs /\ mnt[d] = "up" /\ pc[t] = "writelog"
  BY DevOf DEF WriteLog
<1>2. lh[d] \in Seq(Blocks) /\ i \in Nat \ {0} /\ i <= Len(lh[d])
  BY <1>1 DEF WriteLog, TypeOK
<1>3. i \in DOMAIN lh[d]
  BY <1>2
<1>4. i \in Addrs /\ b \in Addrs /\ b # i /\ b \in Range(lh[d])
  BY <1>1, <1>3, IndexOf
<1>5. b \in pinned[d]
  BY <1>1, <1>4 DEF WriteStage
<1>6. cache[d][b] # None
  BY <1>1, <1>4, <1>5 DEF Coherent
<1>7. cache' = [cache EXCEPT ![d][b] = cache[d][b], ![d][i] = cache[d][b]] /\ dirtyList' = MarkDirty(d, i) /\ flight' = flight
  BY <1>6 DEF WriteLog, Bread
<1> HIDE DEF d, i, b
<1>8. cache \in [Devs -> [Addrs -> Values \cup {None}]] /\ cache[d] \in [Addrs -> Values \cup {None}]
  BY <1>1 DEF TypeOK
<1>9. cache'[d] = [cache[d] EXCEPT ![b] = cache[d][b], ![i] = cache[d][b]] /\ cache' = [cache EXCEPT ![d] = cache'[d]]
  BY <1>1, <1>7, <1>8
<1>10. /\ cache'[d] \in [Addrs -> Values \cup {None}]
       /\ \A x \in Addrs : cache'[d][x] = IF x = i THEN cache[d][b] ELSE cache[d][x]
  BY <1>4, <1>8, <1>9
<1>11. /\ dirtyList' \in Seq(Devs \X Addrs)
       /\ \A e \in Devs, x \in Addrs : Dirty(e, x)' <=> Dirty(e, x) \/ (e = d /\ x = i)
  BY <1>1, <1>4, <1>7, MarkDirtyEffect
<1>q. QED BY <1>1, <1>3, <1>6, <1>9, <1>10, <1>11 DEF d, i, b

\* The home buffer holds what the slot holds already: only the slot is read in.
LEMMA InstallTransEffect ==
    ASSUME LInv, NEW t \in Threads, InstallTrans(t)
    PROVE  LET d == dev[t]  i == tail[t]  b == lh[d][i] IN
           /\ d \in Devs /\ mnt[d] = "up" /\ i \in DOMAIN lh[d]
           /\ cache' = [cache EXCEPT ![d] = cache'[d]]
           /\ cache'[d] \in [Addrs -> Values \cup {None}]
           /\ cache[d][b] # None /\ ~Dirty(d, i) /\ i \notin pinned[d]
           /\ cache[d][b] = disk[d][i]
           /\ \A x \in Addrs : cache'[d][x] = IF x = i THEN disk[d][i] ELSE cache[d][x]
           /\ dirtyList' \in Seq(Devs \X Addrs)
           /\ pinned' = [pinned EXCEPT ![d] = @ \ {b}]
           /\ \A e \in Devs, x \in Addrs : Dirty(e, x)' <=> Dirty(e, x) \/ (e = d /\ x = b)
<1> USE DEF LInv
<1> DEFINE d == dev[t]
           i == tail[t]
           b == lh[d][i]
<1>1. d \in Devs /\ mnt[d] = "up" /\ pc[t] = "install"
  BY DevOf DEF InstallTrans
<1>2. lh[d] \in Seq(Blocks) /\ i \in Nat \ {0} /\ i <= Len(lh[d])
  BY <1>1 DEF InstallTrans, TypeOK
<1>3. i \in DOMAIN lh[d]
  BY <1>2
<1>4. i \in Addrs /\ b \in Addrs /\ b # i /\ b \in Range(lh[d]) /\ i \notin Blocks /\ i \in Slots
  BY <1>1, <1>3, IndexOf
<1>5. b \in pinned[d] /\ i \notin pinned[d]
  BY <1>1, <1>2, <1>3, <1>4 DEF InstallStage, TypeOK
<1>6. cache[d][b] # None
  BY <1>1, <1>4, <1>5 DEF Coherent
<1>7. cache[d][b] = disk[d][i]
  BY <1>1, <1>3, <1>6 DEF InstallStage, Bread
<1>8. ~Dirty(d, i)
  <2>1. SUFFICES ASSUME Dirty(d, i) PROVE FALSE
    OBVIOUS
  <2>2. PICK u \in Threads : dev[u] = d /\ \/ pc[u] = "writelog"
                                           \/ \E j \in DOMAIN lh[d] : i = lh[d][j]
    BY <1>1, <1>4, <2>1 DEF DirtyOK
  <2>3. pc[u] # "writelog"
    BY <1>1 DEF CommitterOK, Committing
  <2>q. QED BY <1>1, <1>4, <2>2, <2>3, IndexOf
<1>9. Bread(d, i) = disk[d][i]
  BY <1>1, <1>4, <1>5, <1>8 DEF Coherent, Bread, TypeOK
<1>10. /\ cache' = [cache EXCEPT ![d][i] = disk[d][i], ![d][b] = disk[d][i]]
       /\ dirtyList' = MarkDirty(d, b) /\ flight' = flight /\ pinned' = [pinned EXCEPT ![d] = @ \ {b}]
  BY <1>9 DEF InstallTrans
<1> HIDE DEF d, i, b
<1>11. cache \in [Devs -> [Addrs -> Values \cup {None}]] /\ cache[d] \in [Addrs -> Values \cup {None}] /\ disk[d][i] \in Values
  BY <1>1, <1>4 DEF TypeOK
<1>12. cache'[d] = [cache[d] EXCEPT ![i] = disk[d][i], ![b] = disk[d][i]] /\ cache' = [cache EXCEPT ![d] = cache'[d]]
  BY <1>1, <1>10, <1>11
<1>13. /\ cache'[d] \in [Addrs -> Values \cup {None}]
       /\ \A x \in Addrs : cache'[d][x] = IF x = i THEN disk[d][i] ELSE cache[d][x]
  BY <1>4, <1>7, <1>11, <1>12
<1>14. /\ dirtyList' \in Seq(Devs \X Addrs)
       /\ \A e \in Devs, x \in Addrs : Dirty(e, x)' <=> Dirty(e, x) \/ (e = d /\ x = b)
  BY <1>1, <1>4, <1>10, MarkDirtyEffect
<1>q. QED BY <1>1, <1>3, <1>5, <1>6, <1>7, <1>8, <1>10, <1>12, <1>13, <1>14 DEF d, i, b

LEMMA BsyncPopEffect ==
    ASSUME LInv, NEW t \in Threads, BsyncPop(t)
    PROVE  /\ dirtyList' \in Seq(Devs \X Addrs)
           /\ flight' \in [Threads -> (Devs \X Addrs) \cup {None}]
           /\ \A u \in Threads : flight'[u] # None => flight[u] # None \/ u = t
           /\ \A e \in Devs, x \in Addrs : Dirty(e, x)' <=> Dirty(e, x)
<1> USE DEF LInv
<1>1. dirtyList \in Seq(Devs \X Addrs) /\ flight \in [Threads -> (Devs \X Addrs) \cup {None}] /\ flight[t] = None
  BY DEF TypeOK, BsyncPop
<1>2. /\ Last(dirtyList) \in Devs \X Addrs /\ dirtyList' \in Seq(Devs \X Addrs)
      /\ Range(dirtyList) = Range(dirtyList') \cup {Last(dirtyList)}
  BY <1>1, Popped DEF BsyncPop
<1>3. flight' = [flight EXCEPT ![t] = Last(dirtyList)]
  BY DEF BsyncPop
<1>4. flight' \in [Threads -> (Devs \X Addrs) \cup {None}] /\ \A u \in Threads : flight'[u] # None => flight[u] # None \/ u = t
  BY <1>1, <1>2, <1>3
<1>5. ASSUME NEW e \in Devs, NEW x \in Addrs PROVE Dirty(e, x)' <=> Dirty(e, x)
  <2>1. <<e, x>> # None
    BY NamesAssumption
  <2>2. flight'[t] = Last(dirtyList) /\ \A u \in Threads : u # t => flight'[u] = flight[u]
    BY <1>1, <1>3
  <2>3. <<e, x>> \in Range(dirtyList) <=> <<e, x>> \in Range(dirtyList') \/ <<e, x>> = flight'[t]
    BY <1>2, <2>2
  <2>4. (\E u \in Threads : flight[u] = <<e, x>>) <=> \E u \in Threads : u # t /\ flight[u] = <<e, x>>
    BY <1>1, <2>1
  <2>5. (\E u \in Threads : flight'[u] = <<e, x>>) <=> flight'[t] = <<e, x>> \/ \E u \in Threads : u # t /\ flight[u] = <<e, x>>
    BY <2>2
  <2>q. QED BY <2>3, <2>4, <2>5 DEF Dirty
<1>q. QED BY <1>2, <1>4, <1>5

LEMMA BsyncWriteEffect ==
    ASSUME OneFs, LInv, NEW t \in Threads, BsyncWrite(t)
    PROVE  \E a \in Addrs : LET d == dev[t] IN
           /\ d \in Devs /\ mnt[d] = "up" /\ InBsync(t)
           /\ flight[t] = <<d, a>> /\ Dirty(d, a) /\ cache[d][a] # None
           /\ disk' = [disk EXCEPT ![d] = disk'[d]] /\ disk'[d] \in [Addrs -> Values]
           /\ \A x \in Addrs : disk'[d][x] = IF x = a THEN cache[d][a] ELSE disk[d][x]
           /\ flight' \in [Threads -> (Devs \X Addrs) \cup {None}]
           /\ \A u \in Threads : flight'[u] # None => flight[u] # None
           /\ \A e \in Devs, x \in Addrs : Dirty(e, x)' => Dirty(e, x)
           /\ \A e \in Devs, x \in Addrs : Dirty(e, x) => Dirty(e, x)' \/ (e = d /\ x = a)
<1> USE DEF LInv
<1>1. flight \in [Threads -> (Devs \X Addrs) \cup {None}] /\ flight[t] # None /\ flight' = [flight EXCEPT ![t] = None]
      /\ dirtyList' = dirtyList
  BY DEF TypeOK, BsyncWrite, bufvars
<1>2. InBsync(t)
  BY <1>1 DEF DirtyOK
<1> DEFINE d == dev[t]
<1>3. d \in Devs /\ mnt[d] = "up"
  BY <1>2, DevOf DEF InBsync
<1>4. PICK e \in Devs, a \in Addrs : flight[t] = <<e, a>>
  BY <1>1
<1>5. e = d
  BY <1>3 DEF OneFs
<1>6. disk' = [disk EXCEPT ![d][a] = cache[d][a]]
  BY <1>4, <1>5 DEF BsyncWrite
<1>7. flight[t] = <<d, a>> /\ Dirty(d, a)
  BY <1>4, <1>5 DEF Dirty
<1> HIDE DEF d
<1>8. cache[d][a] # None
  BY <1>3, <1>7 DEF Coherent
<1>9. cache[d][a] \in Values /\ disk \in [Devs -> [Addrs -> Values]]
  BY <1>3, <1>8 DEF TypeOK
<1>10. /\ disk' = [disk EXCEPT ![d] = disk'[d]] /\ disk'[d] \in [Addrs -> Values]
       /\ \A x \in Addrs : disk'[d][x] = IF x = a THEN cache[d][a] ELSE disk[d][x]
  BY <1>3, <1>6, <1>9
<1>11. flight' \in [Threads -> (Devs \X Addrs) \cup {None}] /\ \A u \in Threads : flight'[u] # None => flight[u] # None
  BY <1>1
<1>12. ASSUME NEW f \in Devs, NEW x \in Addrs, Dirty(f, x)' PROVE Dirty(f, x)
  BY <1>1, <1>12, NamesAssumption DEF Dirty
<1>13. ASSUME NEW f \in Devs, NEW x \in Addrs, Dirty(f, x) PROVE Dirty(f, x)' \/ (f = d /\ x = a)
  <2>1. CASE <<f, x>> \in Range(dirtyList)
    BY <2>1, <1>1 DEF Dirty
  <2>2. ASSUME NEW u \in Threads, flight[u] = <<f, x>> PROVE Dirty(f, x)' \/ (f = d /\ x = a)
    <3>1. CASE u = t
      BY <3>1, <2>2, <1>7
    <3>2. CASE u # t
      BY <3>2, <2>2, <1>1 DEF Dirty
    <3>q. QED BY <3>1, <3>2
  <2>q. QED BY <2>1, <2>2, <1>13 DEF Dirty
<1>q. QED BY <1>2, <1>3, <1>7, <1>8, <1>10, <1>11, <1>12, <1>13 DEF d

LEMMA RecycleEffect ==
    ASSUME LInv, NEW d \in Devs, NEW a \in Addrs, Recycle(d, a)
    PROVE  /\ ~Dirty(d, a) /\ a \notin pinned[d] /\ cache[d][a] = disk[d][a]
           /\ cache' = [cache EXCEPT ![d] = cache'[d]]
           /\ cache'[d] \in [Addrs -> Values \cup {None}]
           /\ \A x \in Addrs : cache'[d][x] = IF x = a THEN None ELSE cache[d][x]
<1> USE DEF LInv
<1>1. ~Dirty(d, a) /\ a \notin pinned[d] /\ cache[d][a] # None /\ cache' = [cache EXCEPT ![d][a] = None]
  BY DEF Recycle, Dirty
<1>2. cache[d][a] = disk[d][a]
  BY <1>1 DEF Coherent
<1>3. cache \in [Devs -> [Addrs -> Values \cup {None}]]
  BY DEF TypeOK
<1>q. QED BY <1>1, <1>2, <1>3

\* Writing back, recycling and installing change nobody's view of a block.
LEMMA BreadKept ==
    ASSUME OneFs, LInv, NEW e \in Devs, NEW x \in Addrs,
           \/ \E t \in Threads : BsyncWrite(t) \/ InstallTrans(t)
           \/ \E d \in Devs, a \in Addrs : Recycle(d, a)
    PROVE  Bread(e, x)' = Bread(e, x)
<1> USE DEF LInv
<1>1. ASSUME NEW t \in Threads, BsyncWrite(t) PROVE Bread(e, x)' = Bread(e, x)
  <2>1. cache' = cache
    BY <1>1 DEF BsyncWrite, bufvars
  <2>2. dev[t] = e
    BY <1>1, BsyncWriteEffect DEF OneFs
  <2>3. PICK a \in Addrs : cache[e][a] # None /\ disk'[e][x] = IF x = a THEN cache[e][a] ELSE disk[e][x]
    BY <1>1, <2>2, BsyncWriteEffect
  <2>q. QED BY <2>1, <2>3 DEF Bread
<1>2. ASSUME NEW t \in Threads, InstallTrans(t) PROVE Bread(e, x)' = Bread(e, x)
  <2>1. disk' = disk /\ disk[e][x] # None
    BY <1>2, NamesAssumption DEF InstallTrans, diskvars, TypeOK
  <2>2. dev[t] = e
    BY <1>2, InstallTransEffect DEF OneFs
  <2>3. cache'[e][x] = IF x = tail[t] THEN disk[e][x] ELSE cache[e][x]
    BY <1>2, <2>2, InstallTransEffect
  <2>4. x = tail[t] => cache[e][x] \in {None, disk[e][x]}
    BY <1>2, <2>2, InstallTransEffect DEF Coherent
  <2>q. QED BY <2>1, <2>3, <2>4 DEF Bread
<1>3. ASSUME NEW d \in Devs, NEW a \in Addrs, Recycle(d, a) PROVE Bread(e, x)' = Bread(e, x)
  <2>1. disk' = disk /\ e = d
    BY <1>3 DEF Recycle, diskvars, OneFs
  <2>2. cache[d][a] = disk[d][a] /\ cache'[d][x] = IF x = a THEN None ELSE cache[d][x]
    BY <1>3, RecycleEffect
  <2>q. QED BY <2>1, <2>2 DEF Bread
<1>q. QED BY <1>1, <1>2, <1>3

LEMMA NoOps ==
    ASSUME LInv, NEW d \in Devs, mnt[d] # "up" \/ committing[d]
    PROVE  OpsOn(d) = {}
<1>1. CASE mnt[d] # "up"
  BY <1>1 DEF LInv, OpsOn, ThreadsOK
<1>2. CASE committing[d]
  BY <1>2 DEF LInv, CommitExcludesOps
<1>q. QED BY <1>1, <1>2

LEMMA OpsKept ==
    ASSUME pc' = pc, dev' = dev
    PROVE  \A e \in Devs : OpsOn(e)' = OpsOn(e)
BY DEF OpsOn

LEMMA EmptyHeader == Once(<<>>) /\ Len(<<>>) = 0
BY DEF Once

\* A mounted file system without a commit has no thread inside one, and neither
\* has one that is not mounted.
LEMMA NoCommitter ==
    ASSUME OneFs, LInv, NEW d \in Devs, mnt[d] # "up" \/ ~committing[d]
    PROVE  \A x \in Threads : pc[x] \notin Committing
BY DevOf DEF LInv, CommitterOK, OneFs, Committing

----------------------------------------------------------------------------
\* Every variable keeps its type.
LEMMA TypeOKStep ==
    ASSUME OneFs, LInv, [Next]_vars
    PROVE  TypeOK'
<1> USE DEF LInv
<1>1. ASSUME NEW d \in Devs, ReadHead(d) PROVE TypeOK'
  BY <1>1 DEF TypeOK, ThreadsOK, ReadHead, logvars, bufvars, diskvars
<1>2. ASSUME NEW d \in Devs, RecoverBlock(d) PROVE TypeOK'
  <2>0. UNCHANGED <<mnt, outstanding, committing, lh, waitq, pc, dev,
                      mine, flight, tempq, pinned, dirtyList, head>>
    BY <1>2 DEF RecoverBlock, logvars, bufvars, diskvars
  <2>1. tail' = [tail EXCEPT ![d] = @ + 1]
    BY <1>2 DEF RecoverBlock
  <2>2. cache' \in [Devs -> [Addrs -> Values \cup {None}]] /\ disk' \in [Devs -> [Addrs -> Values]]
    <3>1. cache' = [cache EXCEPT ![d] = cache'[d]] /\ cache'[d] \in [Addrs -> Values \cup {None}]
      BY <1>2, RecoverBlockEffect
    <3>2. cache' \in [Devs -> [Addrs -> Values \cup {None}]]
      BY <3>1 DEF TypeOK
    <3>3. disk' = [disk EXCEPT ![d] = disk'[d]] /\ disk'[d] \in [Addrs -> Values]
      BY <1>2, RecoverBlockEffect
    <3>q. QED BY <3>2, <3>3 DEF TypeOK
  <2>3. tail' \in [Threads \cup Devs -> Nat \ {0}]
    BY <2>1 DEF TypeOK
  <2>q. QED BY <2>0, <2>2, <2>3 DEF TypeOK
<1>3. ASSUME NEW d \in Devs, RecoverErase(d) PROVE TypeOK'
  BY <1>3 DEF TypeOK, ThreadsOK, RecoverErase, logvars, bufvars, diskvars
<1>4. ASSUME NEW t \in Threads, NEW d \in Devs, BeginOp(t, d) PROVE TypeOK'
  BY <1>4 DEF TypeOK, ThreadsOK, BeginOp, AtBegin, Admit, logvars, bufvars, diskvars
<1>5. ASSUME NEW t \in Threads, NEW d \in Devs, BeginWait(t, d) PROVE TypeOK'
  BY <1>5 DEF TypeOK, ThreadsOK, BeginWait, AtBegin, logvars, bufvars, diskvars
<1>6. ASSUME NEW t \in Threads, NEW b \in Blocks, NEW v \in Values, LogWrite(t, b, v)
      PROVE  TypeOK'
  <2>0. UNCHANGED <<mnt, outstanding, committing, waitq, pc, dev, tail,
                      flight, tempq, dirtyList, disk, head>>
    BY <1>6 DEF LogWrite, logvars, bufvars, diskvars
  <2>1. mine' = [mine EXCEPT ![t] = @ \cup {b}]
    BY <1>6 DEF LogWrite
  <2>2. cache' \in [Devs -> [Addrs -> Values \cup {None}]] /\ pinned' \in [Devs -> SUBSET Blocks]
    <3>1. cache' = [cache EXCEPT ![dev[t]] = cache'[dev[t]]] /\ cache'[dev[t]] \in [Addrs -> Values \cup {None}]
      BY <1>6, LogWriteEffect
    <3>2. cache' \in [Devs -> [Addrs -> Values \cup {None}]]
      BY <3>1 DEF TypeOK
    <3>3. pinned' = [pinned EXCEPT ![dev[t]] = @ \cup {b}]
      BY <1>6, LogWriteEffect
    <3>q. QED BY <3>2, <3>3 DEF TypeOK
  <2>3. mine' \in [Threads -> SUBSET Blocks] /\ lh' \in [Devs -> Seq(Blocks)]
    BY <1>6, <2>1, LogWriteEffect DEF TypeOK
  <2>q. QED BY <2>0, <2>2, <2>3 DEF TypeOK
<1>7. ASSUME NEW t \in Threads, EndOp(t) PROVE TypeOK'
  <2>0. UNCHANGED <<mnt, lh, waitq, dev, flight, tempq, cache,
                      pinned, dirtyList, disk, head>>
    BY <1>7 DEF EndOp, logvars, bufvars, diskvars
  <2>1. dev[t] \in Devs /\ pc[t] = "op" /\ t \in OpsOn(dev[t])
    BY <1>7, DevOf DEF EndOp, OpsOn
  <2>2. outstanding[dev[t]] > 0
    BY <2>1, OpsFinite, FS_EmptySet, FS_CardinalityType DEF CommitExcludesOps
  <2>3. outstanding' \in [Devs -> Nat] /\ committing' \in [Devs -> BOOLEAN]
    BY <1>7, <2>1, <2>2 DEF EndOp, TypeOK
  <2>4. /\ pc' \in [Threads -> {"idle", "begin", "wait", "op", "writelog", "commit",
                               "install", "erase", "release", "wake"}]
        /\ tail' \in [Threads \cup Devs -> Nat \ {0}] /\ mine' \in [Threads -> SUBSET Blocks]
    BY <1>7, <2>1 DEF EndOp, TypeOK
  <2>q. QED BY <2>0, <2>3, <2>4 DEF TypeOK
<1>8. ASSUME NEW t \in Threads, WriteLog(t) PROVE TypeOK'
  <2>0. UNCHANGED <<mnt, outstanding, committing, lh, waitq, pc, dev,
                      mine, flight, tempq, pinned, disk, head>>
    BY <1>8 DEF WriteLog, logvars, bufvars, diskvars
  <2>1. tail' = [tail EXCEPT ![t] = @ + 1]
    BY <1>8 DEF WriteLog
  <2>2. cache' \in [Devs -> [Addrs -> Values \cup {None}]]
    BY <1>8, WriteLogEffect DEF TypeOK
  <2>3. tail' \in [Threads \cup Devs -> Nat \ {0}]
    BY <2>1 DEF TypeOK
  <2>4. dirtyList' \in Seq(Devs \X Addrs)
    BY <1>8, WriteLogEffect
  <2>q. QED BY <2>0, <2>2, <2>3, <2>4 DEF TypeOK
<1>9. ASSUME NEW t \in Threads, InstallTrans(t) PROVE TypeOK'
  <2>0. UNCHANGED <<mnt, outstanding, committing, lh, waitq, pc, dev,
                      mine, flight, tempq, disk, head>>
    BY <1>9 DEF InstallTrans, logvars, bufvars, diskvars
  <2>1. tail' = [tail EXCEPT ![t] = @ + 1]
    BY <1>9 DEF InstallTrans
  <2>2. cache' \in [Devs -> [Addrs -> Values \cup {None}]] /\ pinned' \in [Devs -> SUBSET Blocks]
    <3>1. cache' = [cache EXCEPT ![dev[t]] = cache'[dev[t]]] /\ cache'[dev[t]] \in [Addrs -> Values \cup {None}]
      BY <1>9, InstallTransEffect
    <3>2. cache' \in [Devs -> [Addrs -> Values \cup {None}]]
      BY <3>1 DEF TypeOK
    <3>3. pinned' = [pinned EXCEPT ![dev[t]] = @ \ {lh[dev[t]][tail[t]]}]
      BY <1>9, InstallTransEffect
    <3>q. QED BY <3>2, <3>3 DEF TypeOK
  <2>3. tail' \in [Threads \cup Devs -> Nat \ {0}]
    BY <2>1 DEF TypeOK
  <2>4. dirtyList' \in Seq(Devs \X Addrs)
    BY <1>9, InstallTransEffect
  <2>q. QED BY <2>0, <2>2, <2>3, <2>4 DEF TypeOK
<1>10. ASSUME NEW t \in Threads, BsyncPop(t) PROVE TypeOK'
  <2>0. UNCHANGED <<mnt, outstanding, committing, lh, waitq, pc, dev,
                      mine, tail, tempq, cache, pinned, disk, head>>
    BY <1>10 DEF BsyncPop, logvars, bufvars, diskvars
  <2>q. QED BY <1>10, <2>0, BsyncPopEffect DEF TypeOK
<1>11. ASSUME NEW t \in Threads, BsyncWrite(t) PROVE TypeOK'
  <2>0. UNCHANGED <<mnt, outstanding, committing, lh, waitq, pc, dev,
                      mine, tail, tempq, cache, pinned, dirtyList, head>>
    BY <1>11 DEF BsyncWrite, logvars, bufvars, diskvars
  <2>q. QED BY <1>11, <2>0, BsyncWriteEffect DEF TypeOK
<1>12. ASSUME NEW t \in Threads, BsyncDone(t) PROVE TypeOK'
  BY <1>12 DEF TypeOK, ThreadsOK, BsyncDone, InBsync, logvars, bufvars, diskvars
<1>13. ASSUME NEW t \in Threads, WriteHead(t) PROVE TypeOK'
  BY <1>13 DEF TypeOK, ThreadsOK, WriteHead, logvars, bufvars, diskvars
<1>14. ASSUME NEW t \in Threads, EraseHead(t) PROVE TypeOK'
  BY <1>14 DEF TypeOK, ThreadsOK, EraseHead, logvars, bufvars, diskvars
<1>15. ASSUME NEW t \in Threads, Release(t) PROVE TypeOK'
  BY <1>15 DEF TypeOK, ThreadsOK, Release, logvars, bufvars, diskvars
<1>16. ASSUME NEW t \in Threads, NEW u \in Threads, WakeOne(t, u) PROVE TypeOK'
  BY <1>16 DEF TypeOK, ThreadsOK, WakeOne, logvars, bufvars, diskvars
<1>17. ASSUME NEW t \in Threads, WakeDone(t) PROVE TypeOK'
  BY <1>17 DEF TypeOK, ThreadsOK, WakeDone, logvars, bufvars, diskvars
<1>18. ASSUME NEW d \in Devs, NEW a \in Addrs, Recycle(d, a) PROVE TypeOK'
  BY <1>18 DEF TypeOK, ThreadsOK, Recycle, logvars, bufvars, diskvars
<1>19. ASSUME Crash PROVE TypeOK'
  BY <1>19 DEF TypeOK, ThreadsOK, Crash, diskvars
<1>20. ASSUME UNCHANGED vars PROVE TypeOK'
  BY <1>20 DEF TypeOK, ThreadsOK, vars, logvars, bufvars, diskvars
<1>q. QED BY <1>1, <1>2, <1>3, <1>4, <1>5, <1>6, <1>7, <1>8, <1>9, <1>10, <1>11, <1>12, <1>13,
     <1>14, <1>15, <1>16, <1>17, <1>18, <1>19, <1>20 DEF Next, MountStep, CommitStep

\* Threads stay on mounted file systems and the queues hold sleepers.
LEMMA ThreadsOKStep ==
    ASSUME OneFs, LInv, [Next]_vars
    PROVE  ThreadsOK'
<1> USE DEF LInv
<1>1. ASSUME NEW d \in Devs, ReadHead(d) PROVE ThreadsOK'
  BY <1>1 DEF TypeOK, ThreadsOK, ReadHead, logvars, bufvars, diskvars
<1>2. ASSUME NEW d \in Devs, RecoverBlock(d) PROVE ThreadsOK'
  BY <1>2 DEF TypeOK, ThreadsOK, RecoverBlock, Bread, logvars, bufvars, diskvars
<1>3. ASSUME NEW d \in Devs, RecoverErase(d) PROVE ThreadsOK'
  BY <1>3 DEF TypeOK, ThreadsOK, RecoverErase, logvars, bufvars, diskvars
<1>4. ASSUME NEW t \in Threads, NEW d \in Devs, BeginOp(t, d) PROVE ThreadsOK'
  BY <1>4 DEF TypeOK, ThreadsOK, BeginOp, AtBegin, Admit, logvars, bufvars, diskvars
<1>5. ASSUME NEW t \in Threads, NEW d \in Devs, BeginWait(t, d) PROVE ThreadsOK'
  BY <1>5 DEF TypeOK, ThreadsOK, BeginWait, AtBegin, logvars, bufvars, diskvars
<1>6. ASSUME NEW t \in Threads, NEW b \in Blocks, NEW v \in Values, LogWrite(t, b, v)
      PROVE  ThreadsOK'
  BY <1>6 DEF TypeOK, ThreadsOK, LogWrite, logvars, bufvars, diskvars
<1>7. ASSUME NEW t \in Threads, EndOp(t) PROVE ThreadsOK'
  BY <1>7 DEF TypeOK, ThreadsOK, EndOp, logvars, bufvars, diskvars
<1>8. ASSUME NEW t \in Threads, WriteLog(t) PROVE ThreadsOK'
  BY <1>8 DEF TypeOK, ThreadsOK, WriteLog, Bread, logvars, bufvars, diskvars
<1>9. ASSUME NEW t \in Threads, InstallTrans(t) PROVE ThreadsOK'
  BY <1>9 DEF TypeOK, ThreadsOK, InstallTrans, Bread, logvars, bufvars, diskvars
<1>10. ASSUME NEW t \in Threads, BsyncPop(t) PROVE ThreadsOK'
  BY <1>10 DEF TypeOK, ThreadsOK, BsyncPop, logvars, bufvars, diskvars
<1>11. ASSUME NEW t \in Threads, BsyncWrite(t) PROVE ThreadsOK'
  BY <1>11 DEF TypeOK, ThreadsOK, BsyncWrite, logvars, bufvars, diskvars
<1>12. ASSUME NEW t \in Threads, BsyncDone(t) PROVE ThreadsOK'
  BY <1>12 DEF TypeOK, ThreadsOK, BsyncDone, InBsync, logvars, bufvars, diskvars
<1>13. ASSUME NEW t \in Threads, WriteHead(t) PROVE ThreadsOK'
  BY <1>13 DEF TypeOK, ThreadsOK, WriteHead, logvars, bufvars, diskvars
<1>14. ASSUME NEW t \in Threads, EraseHead(t) PROVE ThreadsOK'
  BY <1>14 DEF TypeOK, ThreadsOK, EraseHead, logvars, bufvars, diskvars
<1>15. ASSUME NEW t \in Threads, Release(t) PROVE ThreadsOK'
  BY <1>15 DEF TypeOK, ThreadsOK, Release, logvars, bufvars, diskvars
<1>16. ASSUME NEW t \in Threads, NEW u \in Threads, WakeOne(t, u) PROVE ThreadsOK'
  BY <1>16 DEF TypeOK, ThreadsOK, WakeOne, logvars, bufvars, diskvars
<1>17. ASSUME NEW t \in Threads, WakeDone(t) PROVE ThreadsOK'
  BY <1>17 DEF TypeOK, ThreadsOK, WakeDone, logvars, bufvars, diskvars
<1>18. ASSUME NEW d \in Devs, NEW a \in Addrs, Recycle(d, a) PROVE ThreadsOK'
  BY <1>18 DEF TypeOK, ThreadsOK, Recycle, logvars, bufvars, diskvars
<1>19. ASSUME Crash PROVE ThreadsOK'
  BY <1>19 DEF TypeOK, ThreadsOK, Crash, diskvars
<1>20. ASSUME UNCHANGED vars PROVE ThreadsOK'
  BY <1>20 DEF TypeOK, ThreadsOK, vars, logvars, bufvars, diskvars
<1>q. QED BY <1>1, <1>2, <1>3, <1>4, <1>5, <1>6, <1>7, <1>8, <1>9, <1>10, <1>11, <1>12, <1>13,
     <1>14, <1>15, <1>16, <1>17, <1>18, <1>19, <1>20 DEF Next, MountStep, CommitStep

\* committing stays set exactly while one thread is in the commit.
LEMMA CommitterOKStep ==
    ASSUME OneFs, LInv, [Next]_vars
    PROVE  CommitterOK'
<1> USE DEF LInv
<1>1. ASSUME NEW d \in Devs, ReadHead(d) PROVE CommitterOK'
  BY <1>1 DEF TypeOK, ThreadsOK, CommitterOK, Committing, ReadHead, logvars, bufvars, diskvars
<1>2. ASSUME NEW d \in Devs, RecoverBlock(d) PROVE CommitterOK'
  BY <1>2 DEF TypeOK, ThreadsOK, CommitterOK, Committing, RecoverBlock, Bread, logvars, bufvars,
     diskvars
<1>3. ASSUME NEW d \in Devs, RecoverErase(d) PROVE CommitterOK'
  BY <1>3 DEF TypeOK, ThreadsOK, CommitterOK, Committing, RecoverErase, logvars, bufvars, diskvars
<1>4. ASSUME NEW t \in Threads, NEW d \in Devs, BeginOp(t, d) PROVE CommitterOK'
  <2>1. committing' = committing
    BY <1>4 DEF BeginOp, AtBegin, Admit, logvars
  <2>2. \A x \in Threads : \/ pc'[x] = pc[x] /\ dev'[x] = dev[x]
                           \/ pc'[x] \notin Committing /\ pc[x] \notin Committing
    BY <1>4 DEF BeginOp, AtBegin, Admit, TypeOK, ThreadsOK, Committing
  <2>q. QED BY <2>1, <2>2 DEF CommitterOK
<1>5. ASSUME NEW t \in Threads, NEW d \in Devs, BeginWait(t, d) PROVE CommitterOK'
  <2>1. committing' = committing
    BY <1>5 DEF BeginWait, AtBegin, logvars
  <2>2. \A x \in Threads : \/ pc'[x] = pc[x] /\ dev'[x] = dev[x]
                           \/ pc'[x] \notin Committing /\ pc[x] \notin Committing
    BY <1>5 DEF BeginWait, AtBegin, TypeOK, ThreadsOK, Committing
  <2>q. QED BY <2>1, <2>2 DEF CommitterOK
<1>6. ASSUME NEW t \in Threads, NEW b \in Blocks, NEW v \in Values, LogWrite(t, b, v)
      PROVE  CommitterOK'
  BY <1>6 DEF TypeOK, ThreadsOK, CommitterOK, Committing, LogWrite, logvars, bufvars, diskvars
<1>7. ASSUME NEW t \in Threads, EndOp(t) PROVE CommitterOK'
  <2> DEFINE d == dev[t]
  <2>1. d \in Devs /\ pc[t] = "op" /\ ~committing[d] /\ dev' = dev
    BY <1>7, DevOf DEF EndOp
  <2>2. \A x \in Threads : x # t => pc'[x] = pc[x]
    BY <1>7 DEF EndOp, TypeOK
  <2>3. \A e \in Devs : e = d
    BY <2>1 DEF OneFs
  <2>4. \A x \in Threads : pc[x] \notin Committing
    BY <2>1, <2>3, DevOf DEF CommitterOK, Committing
  <2>5. committing'[d] = (outstanding[d] = 1) /\ outstanding[d] >= 1 /\ outstanding[d] \in Nat
    <3>1. t \in OpsOn(d)
      BY <2>1 DEF OpsOn
    <3>q. QED BY <1>7, <2>1, <3>1, OpsFinite, FS_EmptySet, FS_CardinalityType DEF EndOp,
         CommitExcludesOps, TypeOK
  <2>6. pc'[t] = IF outstanding[d] > 1 THEN "idle" ELSE IF lh[d] = <<>> THEN "release" ELSE "writelog"
    BY <1>7 DEF EndOp, TypeOK
  <2>7. pc'[t] \in Committing <=> outstanding[d] = 1
    <3>1. CASE outstanding[d] > 1
      BY <3>1, <2>5, <2>6 DEF Committing
    <3>2. CASE outstanding[d] = 1
      BY <3>2, <2>5, <2>6 DEF Committing
    <3>q. QED BY <3>1, <3>2, <2>5
  <2> HIDE DEF d
  <2>8. \A x \in Threads : pc'[x] \in Committing => x = t /\ outstanding[d] = 1
    BY <2>2, <2>4, <2>7
  <2>9. \A e \in Devs : committing'[e] <=> \E x \in Threads : pc'[x] \in Committing /\ dev'[x] = e
    BY <2>1, <2>3, <2>5, <2>7, <2>8 DEF d
  <2>q. QED BY <2>8, <2>9 DEF CommitterOK
<1>8. ASSUME NEW t \in Threads, WriteLog(t) PROVE CommitterOK'
  BY <1>8 DEF TypeOK, ThreadsOK, CommitterOK, Committing, WriteLog, Bread, logvars, bufvars,
     diskvars
<1>9. ASSUME NEW t \in Threads, InstallTrans(t) PROVE CommitterOK'
  BY <1>9 DEF TypeOK, ThreadsOK, CommitterOK, Committing, InstallTrans, Bread, logvars, bufvars,
     diskvars
<1>10. ASSUME NEW t \in Threads, BsyncPop(t) PROVE CommitterOK'
  BY <1>10 DEF TypeOK, ThreadsOK, CommitterOK, Committing, BsyncPop, logvars, bufvars, diskvars
<1>11. ASSUME NEW t \in Threads, BsyncWrite(t) PROVE CommitterOK'
  BY <1>11 DEF TypeOK, ThreadsOK, CommitterOK, Committing, BsyncWrite, logvars, bufvars, diskvars
<1>12. ASSUME NEW t \in Threads, BsyncDone(t) PROVE CommitterOK'
  BY <1>12 DEF TypeOK, ThreadsOK, CommitterOK, Committing, BsyncDone, InBsync, logvars, bufvars,
     diskvars
<1>13. ASSUME NEW t \in Threads, WriteHead(t) PROVE CommitterOK'
  BY <1>13 DEF TypeOK, ThreadsOK, CommitterOK, Committing, WriteHead, logvars, bufvars, diskvars
<1>14. ASSUME NEW t \in Threads, EraseHead(t) PROVE CommitterOK'
  BY <1>14 DEF TypeOK, ThreadsOK, CommitterOK, Committing, EraseHead, logvars, bufvars, diskvars
<1>15. ASSUME NEW t \in Threads, Release(t) PROVE CommitterOK'
  BY <1>15 DEF TypeOK, ThreadsOK, CommitterOK, Committing, Release, logvars, bufvars, diskvars
<1>16. ASSUME NEW t \in Threads, NEW u \in Threads, WakeOne(t, u) PROVE CommitterOK'
  <2>1. committing' = committing
    BY <1>16 DEF WakeOne, logvars
  <2>2. \A x \in Threads : \/ pc'[x] = pc[x] /\ dev'[x] = dev[x]
                           \/ pc'[x] \notin Committing /\ pc[x] \notin Committing
    BY <1>16 DEF WakeOne, TypeOK, ThreadsOK, Committing
  <2>q. QED BY <2>1, <2>2 DEF CommitterOK
<1>17. ASSUME NEW t \in Threads, WakeDone(t) PROVE CommitterOK'
  <2>1. committing' = committing
    BY <1>17 DEF WakeDone, logvars
  <2>2. \A x \in Threads : \/ pc'[x] = pc[x] /\ dev'[x] = dev[x]
                           \/ pc'[x] \notin Committing /\ pc[x] \notin Committing
    BY <1>17 DEF WakeDone, TypeOK, ThreadsOK, Committing
  <2>q. QED BY <2>1, <2>2 DEF CommitterOK
<1>18. ASSUME NEW d \in Devs, NEW a \in Addrs, Recycle(d, a) PROVE CommitterOK'
  BY <1>18 DEF TypeOK, ThreadsOK, CommitterOK, Committing, Recycle, logvars, bufvars, diskvars
<1>19. ASSUME Crash PROVE CommitterOK'
  BY <1>19 DEF TypeOK, ThreadsOK, CommitterOK, Committing, Crash, diskvars
<1>20. ASSUME UNCHANGED vars PROVE CommitterOK'
  BY <1>20 DEF TypeOK, ThreadsOK, CommitterOK, Committing, vars, logvars, bufvars, diskvars
<1>q. QED BY <1>1, <1>2, <1>3, <1>4, <1>5, <1>6, <1>7, <1>8, <1>9, <1>10, <1>11, <1>12, <1>13,
     <1>14, <1>15, <1>16, <1>17, <1>18, <1>19, <1>20 DEF Next, MountStep, CommitStep

\* Buffers are dirty only in the two copying stages.
LEMMA DirtyOKStep ==
    ASSUME OneFs, LInv, [Next]_vars
    PROVE  DirtyOK'
<1> USE DEF LInv
<1>1. ASSUME NEW d \in Devs, ReadHead(d) PROVE DirtyOK'
  <2>0. UNCHANGED <<outstanding, committing, waitq, pc, dev, mine, flight,
                      tempq, cache, pinned, dirtyList, disk, head>>
    BY <1>1 DEF ReadHead, logvars, bufvars, diskvars
  <2>d. \A e \in Devs, x \in Addrs : Dirty(e, x)' <=> Dirty(e, x)
    BY <2>0, DirtyKept
  <2>1. \A x \in Threads : pc[x] \notin {"writelog", "install"}
    BY <1>1, DevOf DEF OneFs, ReadHead
  <2>2. \A x \in Threads : flight'[x] = None
    BY <2>0, <2>1 DEF DirtyOK, InBsync
  <2>3. \A e \in Devs, x \in Addrs : ~Dirty(e, x)'
    BY <2>d, <2>1 DEF DirtyOK
  <2>q. QED BY <2>2, <2>3 DEF DirtyOK
<1>2. ASSUME NEW d \in Devs, RecoverBlock(d) PROVE DirtyOK'
  <2>0. UNCHANGED <<mnt, outstanding, committing, lh, waitq, pc, dev,
                      mine, flight, tempq, pinned, dirtyList, head>>
    BY <1>2 DEF RecoverBlock, logvars, bufvars, diskvars
  <2>d. \A e \in Devs, x \in Addrs : Dirty(e, x)' <=> Dirty(e, x)
    BY <2>0, DirtyKept
  <2>1. \A x \in Threads : pc[x] \notin {"writelog", "install"}
    BY <1>2, DevOf DEF OneFs, RecoverBlock
  <2>2. \A x \in Threads : flight'[x] = None
    BY <2>0, <2>1 DEF DirtyOK, InBsync
  <2>3. \A e \in Devs, x \in Addrs : ~Dirty(e, x)'
    BY <2>d, <2>1 DEF DirtyOK
  <2>q. QED BY <2>2, <2>3 DEF DirtyOK
<1>3. ASSUME NEW d \in Devs, RecoverErase(d) PROVE DirtyOK'
  <2>0. UNCHANGED <<outstanding, committing, waitq, pc, dev, mine, flight,
                      tempq, cache, pinned, dirtyList, disk>>
    BY <1>3 DEF RecoverErase, logvars, bufvars, diskvars
  <2>d. \A e \in Devs, x \in Addrs : Dirty(e, x)' <=> Dirty(e, x)
    BY <2>0, DirtyKept
  <2>1. \A x \in Threads : pc[x] \notin {"writelog", "install"}
    BY <1>3, DevOf DEF OneFs, RecoverErase
  <2>2. \A x \in Threads : flight'[x] = None
    BY <2>0, <2>1 DEF DirtyOK, InBsync
  <2>3. \A e \in Devs, x \in Addrs : ~Dirty(e, x)'
    BY <2>d, <2>1 DEF DirtyOK
  <2>q. QED BY <2>2, <2>3 DEF DirtyOK
<1>4. ASSUME NEW t \in Threads, NEW d \in Devs, BeginOp(t, d) PROVE DirtyOK'
  <2>0. UNCHANGED <<mnt, committing, lh, waitq, tail, flight, tempq,
                      cache, pinned, dirtyList, disk, head>>
    BY <1>4 DEF BeginOp, AtBegin, Admit, logvars, bufvars, diskvars
  <2>d. \A e \in Devs, x \in Addrs : Dirty(e, x)' <=> Dirty(e, x)
    BY <2>0, DirtyKept
  <2>1. \A x \in Threads : pc[x] \in {"writelog", "install"} => pc'[x] = pc[x] /\ dev'[x] = dev[x]
    BY <1>4 DEF BeginOp, AtBegin, Admit, TypeOK, ThreadsOK
  <2>2. \A x \in Threads : flight'[x] # None => InBsync(x)'
    BY <2>0, <2>1 DEF DirtyOK, InBsync
  <2>3. ASSUME NEW e \in Devs, NEW a \in Addrs, Dirty(e, a)'
        PROVE  \E x \in Threads :
             /\ dev'[x] = e
             /\ \/ pc'[x] = "writelog" /\ a \in Slots /\ a < tail'[x]
                \/ pc'[x] = "install" /\ \E i \in DOMAIN lh'[e] : i < tail'[x] /\ a = lh'[e][i]
    BY <2>0, <2>d, <2>1, <2>3 DEF DirtyOK
  <2>q. QED BY <2>2, <2>3 DEF DirtyOK
<1>5. ASSUME NEW t \in Threads, NEW d \in Devs, BeginWait(t, d) PROVE DirtyOK'
  <2>0. UNCHANGED <<mnt, outstanding, committing, lh, mine, tail, flight,
                      tempq, cache, pinned, dirtyList, disk, head>>
    BY <1>5 DEF BeginWait, AtBegin, logvars, bufvars, diskvars
  <2>d. \A e \in Devs, x \in Addrs : Dirty(e, x)' <=> Dirty(e, x)
    BY <2>0, DirtyKept
  <2>1. \A x \in Threads : pc[x] \in {"writelog", "install"} => pc'[x] = pc[x] /\ dev'[x] = dev[x]
    BY <1>5 DEF BeginWait, AtBegin, TypeOK, ThreadsOK
  <2>2. \A x \in Threads : flight'[x] # None => InBsync(x)'
    BY <2>0, <2>1 DEF DirtyOK, InBsync
  <2>3. ASSUME NEW e \in Devs, NEW a \in Addrs, Dirty(e, a)'
        PROVE  \E x \in Threads :
             /\ dev'[x] = e
             /\ \/ pc'[x] = "writelog" /\ a \in Slots /\ a < tail'[x]
                \/ pc'[x] = "install" /\ \E i \in DOMAIN lh'[e] : i < tail'[x] /\ a = lh'[e][i]
    BY <2>0, <2>d, <2>1, <2>3 DEF DirtyOK
  <2>q. QED BY <2>2, <2>3 DEF DirtyOK
<1>6. ASSUME NEW t \in Threads, NEW b \in Blocks, NEW v \in Values, LogWrite(t, b, v)
      PROVE  DirtyOK'
  <2>0. UNCHANGED <<mnt, outstanding, committing, waitq, pc, dev, tail,
                      flight, tempq, dirtyList, disk, head>>
    BY <1>6 DEF LogWrite, logvars, bufvars, diskvars
  <2>d. \A e \in Devs, x \in Addrs : Dirty(e, x)' <=> Dirty(e, x)
    BY <2>0, DirtyKept
  <2>0a. dev[t] \in Devs /\ ~committing[dev[t]]
    BY <1>6, DevOf DEF LogWrite, CommitExcludesOps, OpsOn
  <2>1. \A x \in Threads : pc[x] \notin {"writelog", "install"}
    BY <2>0a, DevOf DEF OneFs, CommitterOK, Committing
  <2>2. \A x \in Threads : flight'[x] = None
    BY <2>0, <2>1 DEF DirtyOK, InBsync
  <2>3. \A e \in Devs, x \in Addrs : ~Dirty(e, x)'
    BY <2>d, <2>1 DEF DirtyOK
  <2>q. QED BY <2>2, <2>3 DEF DirtyOK
<1>7. ASSUME NEW t \in Threads, EndOp(t) PROVE DirtyOK'
  <2>0. UNCHANGED <<mnt, lh, waitq, dev, flight, tempq, cache,
                      pinned, dirtyList, disk, head>>
    BY <1>7 DEF EndOp, logvars, bufvars, diskvars
  <2>d. \A e \in Devs, x \in Addrs : Dirty(e, x)' <=> Dirty(e, x)
    BY <2>0, DirtyKept
  <2>0a. dev[t] \in Devs /\ ~committing[dev[t]]
    BY <1>7, DevOf DEF EndOp, CommitExcludesOps, OpsOn
  <2>1. \A x \in Threads : pc[x] \notin {"writelog", "install"}
    BY <2>0a, DevOf DEF OneFs, CommitterOK, Committing
  <2>2. \A x \in Threads : flight'[x] = None
    BY <2>0, <2>1 DEF DirtyOK, InBsync
  <2>3. \A e \in Devs, x \in Addrs : ~Dirty(e, x)'
    BY <2>d, <2>1 DEF DirtyOK
  <2>q. QED BY <2>2, <2>3 DEF DirtyOK
<1>8. ASSUME NEW t \in Threads, WriteLog(t) PROVE DirtyOK'
  <2>0. UNCHANGED <<mnt, outstanding, committing, lh, waitq, pc, dev,
                      mine, flight, tempq, pinned, disk, head>>
    BY <1>8 DEF WriteLog, logvars, bufvars, diskvars
  <2> DEFINE d == dev[t]
             i == tail[t]
  <2>1. d \in Devs /\ i \in DOMAIN lh[d] /\ pc[t] = "writelog"
    BY <1>8, WriteLogEffect DEF WriteLog
  <2>2. \A x \in Threads : pc[x] \in {"writelog", "install"} => x = t
    BY <2>1 DEF CommitterOK, Committing
  <2>3. \A x \in Threads : flight[x] = None
    BY <1>8, <2>1, <2>2 DEF DirtyOK, InBsync, WriteLog, TypeOK
  <2>4. tail'[t] = i + 1 /\ i \in Slots /\ i \in Nat /\ lh[d][i] # i
    BY <1>8, <2>1, IndexOf DEF WriteLog, TypeOK
  <2>5. ASSUME NEW e \in Devs, NEW a \in Addrs, Dirty(e, a)'
        PROVE  \E x \in Threads :
             /\ dev'[x] = e
             /\ \/ pc'[x] = "writelog" /\ a \in Slots /\ a < tail'[x]
                \/ pc'[x] = "install" /\ \E j \in DOMAIN lh'[e] : j < tail'[x] /\ a = lh'[e][j]
    <3>1. e = d
      BY <2>1 DEF OneFs
    <3>2. CASE Dirty(e, a)
      <4>1. \/ pc[t] = "writelog" /\ a \in Slots /\ a < i
            \/ pc[t] = "install" /\ \E j \in DOMAIN lh[e] : j < i /\ a = lh[e][j]
        BY <2>2, <3>2 DEF DirtyOK
      <4>2. \A j \in DOMAIN lh[d] : j \in Nat
        BY <2>1, IndexOf
      <4>3. a \in Slots => a \in Nat
        BY DEF Slots
      <4>q. QED BY <2>0, <2>1, <2>4, <3>1, <4>1, <4>2, <4>3
    <3>3. CASE ~Dirty(e, a)
      <4>1. a = i
        BY <1>8, <2>5, <3>1, <3>3, WriteLogEffect
      <4>q. QED BY <2>0, <2>1, <2>4, <3>1, <4>1
    <3>q. QED BY <3>2, <3>3
  <2>q. QED BY <2>0, <2>3, <2>5 DEF DirtyOK
<1>9. ASSUME NEW t \in Threads, InstallTrans(t) PROVE DirtyOK'
  <2>0. UNCHANGED <<mnt, outstanding, committing, lh, waitq, pc, dev,
                      mine, flight, tempq, disk, head>>
    BY <1>9 DEF InstallTrans, logvars, bufvars, diskvars
  <2> DEFINE d == dev[t]
             i == tail[t]
  <2>1. d \in Devs /\ i \in DOMAIN lh[d] /\ pc[t] = "install"
    BY <1>9, InstallTransEffect DEF InstallTrans
  <2>2. \A x \in Threads : pc[x] \in {"writelog", "install"} => x = t
    BY <2>1 DEF CommitterOK, Committing
  <2>3. \A x \in Threads : flight[x] = None
    BY <1>9, <2>1, <2>2 DEF DirtyOK, InBsync, InstallTrans, TypeOK
  <2>4. tail'[t] = i + 1 /\ i \in Slots /\ i \in Nat /\ lh[d][i] # i
    BY <1>9, <2>1, IndexOf DEF InstallTrans, TypeOK
  <2>5. ASSUME NEW e \in Devs, NEW a \in Addrs, Dirty(e, a)'
        PROVE  \E x \in Threads :
             /\ dev'[x] = e
             /\ \/ pc'[x] = "writelog" /\ a \in Slots /\ a < tail'[x]
                \/ pc'[x] = "install" /\ \E j \in DOMAIN lh'[e] : j < tail'[x] /\ a = lh'[e][j]
    <3>1. e = d
      BY <2>1 DEF OneFs
    <3>2. CASE Dirty(e, a)
      <4>1. \/ pc[t] = "writelog" /\ a \in Slots /\ a < i
            \/ pc[t] = "install" /\ \E j \in DOMAIN lh[e] : j < i /\ a = lh[e][j]
        BY <2>2, <3>2 DEF DirtyOK
      <4>2. \A j \in DOMAIN lh[d] : j \in Nat
        BY <2>1, IndexOf
      <4>3. a \in Slots => a \in Nat
        BY DEF Slots
      <4>q. QED BY <2>0, <2>1, <2>4, <3>1, <4>1, <4>2, <4>3
    <3>3. CASE ~Dirty(e, a)
      <4>1. a = lh[d][i]
        BY <1>9, <2>5, <3>1, <3>3, InstallTransEffect
      <4>q. QED BY <2>0, <2>1, <2>4, <3>1, <4>1
    <3>q. QED BY <3>2, <3>3
  <2>q. QED BY <2>0, <2>3, <2>5 DEF DirtyOK
<1>10. ASSUME NEW t \in Threads, BsyncPop(t) PROVE DirtyOK'
  <2>0. UNCHANGED <<mnt, outstanding, committing, lh, waitq, pc, dev,
                      mine, tail, tempq, cache, pinned, disk, head>>
    BY <1>10 DEF BsyncPop, logvars, bufvars, diskvars
  <2>1. InBsync(t)
    BY <1>10 DEF BsyncPop
  <2>2. \A x \in Threads : flight'[x] # None => InBsync(x)'
    BY <1>10, <2>0, <2>1, BsyncPopEffect DEF DirtyOK, InBsync
  <2>3. \A e \in Devs, x \in Addrs : Dirty(e, x)' <=> Dirty(e, x)
    BY <1>10, BsyncPopEffect
  <2>q. QED BY <2>0, <2>2, <2>3 DEF DirtyOK
<1>11. ASSUME NEW t \in Threads, BsyncWrite(t) PROVE DirtyOK'
  <2>0. UNCHANGED <<mnt, outstanding, committing, lh, waitq, pc, dev,
                      mine, tail, tempq, cache, pinned, dirtyList, head>>
    BY <1>11 DEF BsyncWrite, logvars, bufvars, diskvars
  <2>1. \A x \in Threads : flight'[x] # None => flight[x] # None
    BY <1>11, BsyncWriteEffect
  <2>2. \A x \in Threads : flight'[x] # None => InBsync(x)'
    BY <2>0, <2>1 DEF DirtyOK, InBsync
  <2>3. \A e \in Devs, x \in Addrs : Dirty(e, x)' => Dirty(e, x)
    BY <1>11, BsyncWriteEffect
  <2>q. QED BY <2>0, <2>2, <2>3 DEF DirtyOK
<1>12. ASSUME NEW t \in Threads, BsyncDone(t) PROVE DirtyOK'
  <2>0. UNCHANGED <<mnt, outstanding, committing, lh, waitq, dev, mine,
                      flight, tempq, cache, pinned, dirtyList, disk, head>>
    BY <1>12 DEF BsyncDone, InBsync, logvars, bufvars, diskvars
  <2>d. \A e \in Devs, x \in Addrs : Dirty(e, x)' <=> Dirty(e, x)
    BY <2>0, DirtyKept
  <2>1. InBsync(t) /\ flight[t] = None /\ dirtyList = <<>>
    BY <1>12 DEF BsyncDone
  <2>2. \A x \in Threads : pc[x] \in {"writelog", "install"} => x = t
    BY <2>1 DEF InBsync, CommitterOK, Committing
  <2>3. \A x \in Threads : flight[x] = None
    BY <2>1, <2>2 DEF DirtyOK, InBsync
  <2>4. \A e \in Devs, x \in Addrs : ~Dirty(e, x)
    BY <2>1, <2>3, EmptyRange, NamesAssumption DEF Dirty
  <2>q. QED BY <2>0, <2>d, <2>3, <2>4 DEF DirtyOK
<1>13. ASSUME NEW t \in Threads, WriteHead(t) PROVE DirtyOK'
  <2>0. UNCHANGED <<mnt, outstanding, committing, lh, waitq, dev, mine,
                      tail, flight, tempq, cache, pinned, dirtyList, disk>>
    BY <1>13 DEF WriteHead, logvars, bufvars, diskvars
  <2>d. \A e \in Devs, x \in Addrs : Dirty(e, x)' <=> Dirty(e, x)
    BY <2>0, DirtyKept
  <2>1. \A x \in Threads : pc[x] \notin {"writelog", "install"}
    BY <1>13 DEF WriteHead, CommitterOK, Committing
  <2>2. \A x \in Threads : flight'[x] = None
    BY <2>0, <2>1 DEF DirtyOK, InBsync
  <2>3. \A e \in Devs, x \in Addrs : ~Dirty(e, x)'
    BY <2>d, <2>1 DEF DirtyOK
  <2>q. QED BY <2>2, <2>3 DEF DirtyOK
<1>14. ASSUME NEW t \in Threads, EraseHead(t) PROVE DirtyOK'
  <2>0. UNCHANGED <<mnt, outstanding, committing, waitq, dev, mine, tail,
                      flight, tempq, cache, pinned, dirtyList, disk>>
    BY <1>14 DEF EraseHead, logvars, bufvars, diskvars
  <2>d. \A e \in Devs, x \in Addrs : Dirty(e, x)' <=> Dirty(e, x)
    BY <2>0, DirtyKept
  <2>1. \A x \in Threads : pc[x] \notin {"writelog", "install"}
    BY <1>14 DEF EraseHead, CommitterOK, Committing
  <2>2. \A x \in Threads : flight'[x] = None
    BY <2>0, <2>1 DEF DirtyOK, InBsync
  <2>3. \A e \in Devs, x \in Addrs : ~Dirty(e, x)'
    BY <2>d, <2>1 DEF DirtyOK
  <2>q. QED BY <2>2, <2>3 DEF DirtyOK
<1>15. ASSUME NEW t \in Threads, Release(t) PROVE DirtyOK'
  <2>0. UNCHANGED <<mnt, outstanding, lh, dev, mine, tail, flight,
                      cache, pinned, dirtyList, disk, head>>
    BY <1>15 DEF Release, logvars, bufvars, diskvars
  <2>d. \A e \in Devs, x \in Addrs : Dirty(e, x)' <=> Dirty(e, x)
    BY <2>0, DirtyKept
  <2>1. \A x \in Threads : pc[x] \notin {"writelog", "install"}
    BY <1>15 DEF Release, CommitterOK, Committing
  <2>2. \A x \in Threads : flight'[x] = None
    BY <2>0, <2>1 DEF DirtyOK, InBsync
  <2>3. \A e \in Devs, x \in Addrs : ~Dirty(e, x)'
    BY <2>d, <2>1 DEF DirtyOK
  <2>q. QED BY <2>2, <2>3 DEF DirtyOK
<1>16. ASSUME NEW t \in Threads, NEW u \in Threads, WakeOne(t, u) PROVE DirtyOK'
  <2>0. UNCHANGED <<mnt, outstanding, committing, lh, waitq, dev, mine,
                      tail, flight, cache, pinned, dirtyList, disk, head>>
    BY <1>16 DEF WakeOne, logvars, bufvars, diskvars
  <2>d. \A e \in Devs, x \in Addrs : Dirty(e, x)' <=> Dirty(e, x)
    BY <2>0, DirtyKept
  <2>1. \A x \in Threads : pc[x] \in {"writelog", "install"} => pc'[x] = pc[x] /\ dev'[x] = dev[x]
    BY <1>16 DEF WakeOne, TypeOK, ThreadsOK
  <2>2. \A x \in Threads : flight'[x] # None => InBsync(x)'
    BY <2>0, <2>1 DEF DirtyOK, InBsync
  <2>3. ASSUME NEW e \in Devs, NEW a \in Addrs, Dirty(e, a)'
        PROVE  \E x \in Threads :
             /\ dev'[x] = e
             /\ \/ pc'[x] = "writelog" /\ a \in Slots /\ a < tail'[x]
                \/ pc'[x] = "install" /\ \E i \in DOMAIN lh'[e] : i < tail'[x] /\ a = lh'[e][i]
    BY <2>0, <2>d, <2>1, <2>3 DEF DirtyOK
  <2>q. QED BY <2>2, <2>3 DEF DirtyOK
<1>17. ASSUME NEW t \in Threads, WakeDone(t) PROVE DirtyOK'
  <2>0. UNCHANGED <<mnt, outstanding, committing, lh, waitq, dev, mine,
                      tail, flight, tempq, cache, pinned, dirtyList, disk, head>>
    BY <1>17 DEF WakeDone, logvars, bufvars, diskvars
  <2>d. \A e \in Devs, x \in Addrs : Dirty(e, x)' <=> Dirty(e, x)
    BY <2>0, DirtyKept
  <2>1. \A x \in Threads : pc[x] \in {"writelog", "install"} => pc'[x] = pc[x] /\ dev'[x] = dev[x]
    BY <1>17 DEF WakeDone, TypeOK, ThreadsOK
  <2>2. \A x \in Threads : flight'[x] # None => InBsync(x)'
    BY <2>0, <2>1 DEF DirtyOK, InBsync
  <2>3. ASSUME NEW e \in Devs, NEW a \in Addrs, Dirty(e, a)'
        PROVE  \E x \in Threads :
             /\ dev'[x] = e
             /\ \/ pc'[x] = "writelog" /\ a \in Slots /\ a < tail'[x]
                \/ pc'[x] = "install" /\ \E i \in DOMAIN lh'[e] : i < tail'[x] /\ a = lh'[e][i]
    BY <2>0, <2>d, <2>1, <2>3 DEF DirtyOK
  <2>q. QED BY <2>2, <2>3 DEF DirtyOK
<1>18. ASSUME NEW d \in Devs, NEW a \in Addrs, Recycle(d, a) PROVE DirtyOK'
  BY <1>18 DEF TypeOK, ThreadsOK, CommitterOK, Committing, DirtyOK, Dirty, InBsync, Recycle,
     logvars, bufvars, diskvars
<1>19. ASSUME Crash PROVE DirtyOK'
  <2>1. (\A x \in Threads : flight'[x] = None) /\ dirtyList' = <<>>
    BY <1>19 DEF Crash
  <2>2. \A e \in Devs, x \in Addrs : ~Dirty(e, x)'
    BY <2>1, EmptyRange, NamesAssumption DEF Dirty
  <2>q. QED BY <2>1, <2>2 DEF DirtyOK
<1>20. ASSUME UNCHANGED vars PROVE DirtyOK'
  BY <1>20 DEF TypeOK, ThreadsOK, CommitterOK, Committing, DirtyOK, Dirty, InBsync, vars,
     logvars, bufvars, diskvars
<1>q. QED BY <1>1, <1>2, <1>3, <1>4, <1>5, <1>6, <1>7, <1>8, <1>9, <1>10, <1>11, <1>12, <1>13,
     <1>14, <1>15, <1>16, <1>17, <1>18, <1>19, <1>20 DEF Next, MountStep, CommitStep

\* No block enters a header twice, and what an operation logged is in it.
LEMMA HeaderOKStep ==
    ASSUME OneFs, LInv, [Next]_vars
    PROVE  HeaderOK'
<1> USE DEF LInv
<1>1. ASSUME NEW d \in Devs, ReadHead(d) PROVE HeaderOK'
  <2>0. UNCHANGED <<outstanding, committing, waitq, pc, dev, mine, flight,
                      tempq, cache, pinned, dirtyList, disk, head>>
    BY <1>1 DEF ReadHead, logvars, bufvars, diskvars
  <2>1. \A e \in Devs : OpsOn(e)' = OpsOn(e) /\ OpsOn(d) = {}
    BY <1>1, <2>0, OpsKept, NoOps DEF ReadHead
  <2>2. \A e \in Devs : lh'[e] = IF e = d THEN head[d] ELSE lh[e]
    BY <1>1 DEF ReadHead, TypeOK
  <2>q. QED BY <2>0, <2>1, <2>2 DEF HeaderOK
<1>2. ASSUME NEW d \in Devs, RecoverBlock(d) PROVE HeaderOK'
  BY <1>2 DEF TypeOK, ThreadsOK, HeaderOK, OpsOn, RecoverBlock, Bread, logvars, bufvars, diskvars
<1>3. ASSUME NEW d \in Devs, RecoverErase(d) PROVE HeaderOK'
  <2>0. UNCHANGED <<outstanding, committing, waitq, pc, dev, mine, flight,
                      tempq, cache, pinned, dirtyList, disk>>
    BY <1>3 DEF RecoverErase, logvars, bufvars, diskvars
  <2>1. \A e \in Devs : OpsOn(e)' = OpsOn(e) /\ OpsOn(d) = {}
    BY <1>3, <2>0, OpsKept, NoOps DEF RecoverErase
  <2>2. \A e \in Devs : lh'[e] = (IF e = d THEN <<>> ELSE lh[e]) /\ head'[e] = (IF e = d THEN <<>> ELSE head[e])
    BY <1>3 DEF RecoverErase, TypeOK
  <2>q. QED BY <2>0, <2>1, <2>2, EmptyHeader, SizesAssumption DEF HeaderOK
<1>4. ASSUME NEW t \in Threads, NEW d \in Devs, BeginOp(t, d) PROVE HeaderOK'
  BY <1>4 DEF TypeOK, ThreadsOK, HeaderOK, OpsOn, BeginOp, AtBegin, Admit, logvars, bufvars,
     diskvars
<1>5. ASSUME NEW t \in Threads, NEW d \in Devs, BeginWait(t, d) PROVE HeaderOK'
  BY <1>5 DEF TypeOK, ThreadsOK, HeaderOK, OpsOn, BeginWait, AtBegin, logvars, bufvars, diskvars
<1>6. ASSUME NEW t \in Threads, NEW b \in Blocks, NEW v \in Values, LogWrite(t, b, v)
      PROVE  HeaderOK'
  <2>0. UNCHANGED <<mnt, outstanding, committing, waitq, pc, dev, tail,
                      flight, tempq, dirtyList, disk, head>>
    BY <1>6 DEF LogWrite, logvars, bufvars, diskvars
  <2>1. \A e \in Devs : OpsOn(e)' = OpsOn(e) /\ head'[e] = head[e] /\ e = dev[t]
    BY <1>6, <2>0, OpsKept, LogWriteEffect DEF OneFs
  <2>2. \A x \in Threads : mine'[x] = IF x = t THEN mine[t] \cup {b} ELSE mine[x]
    BY <1>6 DEF LogWrite, TypeOK
  <2>3. \A e \in Devs : Range(lh'[e]) = Range(lh[e]) \cup {b} /\ Once(lh'[e]) /\ Len(lh'[e]) <= LogSize
    <3>1. Range(lh'[dev[t]]) = Range(lh[dev[t]]) \cup {b} /\ Once(lh'[dev[t]]) /\ Len(lh'[dev[t]]) <= LogSize
      BY <1>6, LogWriteEffect
    <3>q. QED BY <2>1, <3>1
  <2>4. \A e \in Devs : OpsOn(e) \subseteq Threads
    BY DEF OpsOn
  <2>q. QED BY <2>1, <2>2, <2>3, <2>4 DEF HeaderOK
<1>7. ASSUME NEW t \in Threads, EndOp(t) PROVE HeaderOK'
  BY <1>7 DEF TypeOK, ThreadsOK, HeaderOK, OpsOn, EndOp, logvars, bufvars, diskvars
<1>8. ASSUME NEW t \in Threads, WriteLog(t) PROVE HeaderOK'
  BY <1>8 DEF TypeOK, ThreadsOK, HeaderOK, OpsOn, WriteLog, Bread, logvars, bufvars, diskvars
<1>9. ASSUME NEW t \in Threads, InstallTrans(t) PROVE HeaderOK'
  BY <1>9 DEF TypeOK, ThreadsOK, HeaderOK, OpsOn, InstallTrans, Bread, logvars, bufvars, diskvars
<1>10. ASSUME NEW t \in Threads, BsyncPop(t) PROVE HeaderOK'
  BY <1>10 DEF TypeOK, ThreadsOK, HeaderOK, OpsOn, BsyncPop, logvars, bufvars, diskvars
<1>11. ASSUME NEW t \in Threads, BsyncWrite(t) PROVE HeaderOK'
  BY <1>11 DEF TypeOK, ThreadsOK, HeaderOK, OpsOn, BsyncWrite, logvars, bufvars, diskvars
<1>12. ASSUME NEW t \in Threads, BsyncDone(t) PROVE HeaderOK'
  BY <1>12 DEF TypeOK, ThreadsOK, HeaderOK, OpsOn, BsyncDone, InBsync, logvars, bufvars, diskvars
<1>13. ASSUME NEW t \in Threads, WriteHead(t) PROVE HeaderOK'
  BY <1>13 DEF TypeOK, ThreadsOK, HeaderOK, OpsOn, WriteHead, logvars, bufvars, diskvars
<1>14. ASSUME NEW t \in Threads, EraseHead(t) PROVE HeaderOK'
  <2>0. UNCHANGED <<mnt, outstanding, committing, waitq, dev, mine, tail,
                      flight, tempq, cache, pinned, dirtyList, disk>>
    BY <1>14 DEF EraseHead, logvars, bufvars, diskvars
  <2>1. dev[t] \in Devs /\ pc[t] = "erase"
    BY <1>14, DevOf DEF EraseHead
  <2>2. OpsOn(dev[t]) = {}
    BY <2>1, NoOps DEF CommitterOK, Committing
  <2>3. \A e \in Devs : OpsOn(e)' = OpsOn(e)
    BY <1>14, <2>0, <2>1 DEF OpsOn, EraseHead, TypeOK
  <2>4. \A e \in Devs : lh'[e] = (IF e = dev[t] THEN <<>> ELSE lh[e]) /\ head'[e] = (IF e = dev[t] THEN <<>> ELSE head[e])
    BY <1>14 DEF EraseHead, TypeOK
  <2>q. QED BY <2>0, <2>2, <2>3, <2>4, EmptyHeader, SizesAssumption DEF HeaderOK
<1>15. ASSUME NEW t \in Threads, Release(t) PROVE HeaderOK'
  BY <1>15 DEF TypeOK, ThreadsOK, HeaderOK, OpsOn, Release, logvars, bufvars, diskvars
<1>16. ASSUME NEW t \in Threads, NEW u \in Threads, WakeOne(t, u) PROVE HeaderOK'
  BY <1>16 DEF TypeOK, ThreadsOK, HeaderOK, OpsOn, WakeOne, logvars, bufvars, diskvars
<1>17. ASSUME NEW t \in Threads, WakeDone(t) PROVE HeaderOK'
  BY <1>17 DEF TypeOK, ThreadsOK, HeaderOK, OpsOn, WakeDone, logvars, bufvars, diskvars
<1>18. ASSUME NEW d \in Devs, NEW a \in Addrs, Recycle(d, a) PROVE HeaderOK'
  BY <1>18 DEF TypeOK, ThreadsOK, HeaderOK, OpsOn, Recycle, logvars, bufvars, diskvars
<1>19. ASSUME Crash PROVE HeaderOK'
  <2>1. \A e \in Devs : OpsOn(e)' = {} /\ lh'[e] = <<>> /\ head'[e] = head[e]
    BY <1>19 DEF Crash, OpsOn, diskvars
  <2>q. QED BY <2>1, EmptyHeader, SizesAssumption DEF HeaderOK
<1>20. ASSUME UNCHANGED vars PROVE HeaderOK'
  BY <1>20 DEF TypeOK, ThreadsOK, HeaderOK, OpsOn, vars, logvars, bufvars, diskvars
<1>q. QED BY <1>1, <1>2, <1>3, <1>4, <1>5, <1>6, <1>7, <1>8, <1>9, <1>10, <1>11, <1>12, <1>13,
     <1>14, <1>15, <1>16, <1>17, <1>18, <1>19, <1>20 DEF Next, MountStep, CommitStep

\* Which steps touch a buffer or the contents of the disk.
LEMMA BufferCases ==
    ASSUME [Next]_vars
    PROVE  \/ UNCHANGED <<cache, pinned, disk, dirtyList, flight>>
           \/ \E d \in Devs : RecoverBlock(d)
           \/ \E t \in Threads, b \in Blocks, v \in Values : LogWrite(t, b, v)
           \/ \E t \in Threads : WriteLog(t) \/ InstallTrans(t) \/ BsyncPop(t) \/ BsyncWrite(t)
           \/ \E d \in Devs, a \in Addrs : Recycle(d, a)
           \/ Crash
<1>1. ASSUME NEW d \in Devs, ReadHead(d)
       PROVE  UNCHANGED <<cache, pinned, disk, dirtyList, flight>>
  BY <1>1 DEF ReadHead, bufvars, diskvars
<1>3. ASSUME NEW d \in Devs, RecoverErase(d)
       PROVE  UNCHANGED <<cache, pinned, disk, dirtyList, flight>>
  BY <1>3 DEF RecoverErase, bufvars, diskvars
<1>4. ASSUME NEW t \in Threads, NEW d \in Devs, BeginOp(t, d)
       PROVE  UNCHANGED <<cache, pinned, disk, dirtyList, flight>>
  BY <1>4 DEF BeginOp, AtBegin, Admit, bufvars, diskvars
<1>5. ASSUME NEW t \in Threads, NEW d \in Devs, BeginWait(t, d)
       PROVE  UNCHANGED <<cache, pinned, disk, dirtyList, flight>>
  BY <1>5 DEF BeginWait, AtBegin, bufvars, diskvars
<1>7. ASSUME NEW t \in Threads, EndOp(t)
       PROVE  UNCHANGED <<cache, pinned, disk, dirtyList, flight>>
  BY <1>7 DEF EndOp, bufvars, diskvars
<1>12. ASSUME NEW t \in Threads, BsyncDone(t)
       PROVE  UNCHANGED <<cache, pinned, disk, dirtyList, flight>>
  BY <1>12 DEF BsyncDone, InBsync, bufvars, diskvars
<1>13. ASSUME NEW t \in Threads, WriteHead(t)
       PROVE  UNCHANGED <<cache, pinned, disk, dirtyList, flight>>
  BY <1>13 DEF WriteHead, bufvars, diskvars
<1>14. ASSUME NEW t \in Threads, EraseHead(t)
       PROVE  UNCHANGED <<cache, pinned, disk, dirtyList, flight>>
  BY <1>14 DEF EraseHead, bufvars, diskvars
<1>15. ASSUME NEW t \in Threads, Release(t)
       PROVE  UNCHANGED <<cache, pinned, disk, dirtyList, flight>>
  BY <1>15 DEF Release, bufvars, diskvars
<1>16. ASSUME NEW t \in Threads, NEW u \in Threads, WakeOne(t, u)
       PROVE  UNCHANGED <<cache, pinned, disk, dirtyList, flight>>
  BY <1>16 DEF WakeOne, bufvars, diskvars
<1>17. ASSUME NEW t \in Threads, WakeDone(t)
       PROVE  UNCHANGED <<cache, pinned, disk, dirtyList, flight>>
  BY <1>17 DEF WakeDone, bufvars, diskvars
<1>20. ASSUME UNCHANGED vars
       PROVE  UNCHANGED <<cache, pinned, disk, dirtyList, flight>>
  BY <1>20 DEF vars, bufvars, diskvars
<1>q. QED BY <1>1, <1>3, <1>4, <1>5, <1>7, <1>12, <1>13, <1>14, <1>15, <1>16, <1>17, <1>20
     DEF Next, MountStep, CommitStep

\* A buffer that is neither pinned nor dirty stays as on the disk.
LEMMA CoherentStep ==
    ASSUME OneFs, LInv, [Next]_vars
    PROVE  Coherent'
<1> USE DEF LInv
<1>0. ASSUME UNCHANGED <<cache, pinned, disk, dirtyList, flight>>
      PROVE  Coherent'
  BY <1>0, DirtyKept DEF Coherent
<1>2. ASSUME NEW d \in Devs, RecoverBlock(d) PROVE Coherent'
  <2>0. UNCHANGED <<mnt, outstanding, committing, lh, waitq, pc, dev,
                      mine, flight, tempq, pinned, dirtyList, head>>
    BY <1>2 DEF RecoverBlock, logvars, bufvars, diskvars
  <2>s. SUFFICES ASSUME NEW e \in Devs, NEW x \in Addrs
        PROVE /\ x \in pinned'[e] \/ Dirty(e, x)' => cache'[e][x] # None
              /\ x \notin pinned'[e] /\ ~Dirty(e, x)' => cache'[e][x] \in {None, disk'[e][x]}
    BY DEF Coherent
  <2>o. /\ x \in pinned[e] \/ Dirty(e, x) => cache[e][x] # None
        /\ x \notin pinned[e] /\ ~Dirty(e, x) => cache[e][x] \in {None, disk[e][x]}
    BY DEF Coherent
  <2>e. e = d /\ d \in Devs
    BY <1>2 DEF OneFs
  <2>1. /\ cache'[e][x] = IF x = tail[d] \/ x = lh[d][tail[d]] THEN disk[d][tail[d]] ELSE cache[d][x]
        /\ disk'[e][x] = IF x = lh[d][tail[d]] THEN disk[d][tail[d]] ELSE disk[d][x]
        /\ ~Dirty(e, x) /\ x \notin pinned[e]
    BY <1>2, <2>e, RecoverBlockEffect
  <2>2. ~Dirty(e, x)'
    BY <2>0, <2>1, DirtyKept
  <2>q. QED BY <2>0, <2>o, <2>e, <2>1, <2>2
<1>6. ASSUME NEW t \in Threads, NEW b \in Blocks, NEW v \in Values, LogWrite(t, b, v)
      PROVE  Coherent'
  <2>0. UNCHANGED <<mnt, outstanding, committing, waitq, pc, dev, tail,
                      flight, tempq, dirtyList, disk, head>>
    BY <1>6 DEF LogWrite, logvars, bufvars, diskvars
  <2>s. SUFFICES ASSUME NEW e \in Devs, NEW x \in Addrs
        PROVE /\ x \in pinned'[e] \/ Dirty(e, x)' => cache'[e][x] # None
              /\ x \notin pinned'[e] /\ ~Dirty(e, x)' => cache'[e][x] \in {None, disk'[e][x]}
    BY DEF Coherent
  <2>o. /\ x \in pinned[e] \/ Dirty(e, x) => cache[e][x] # None
        /\ x \notin pinned[e] /\ ~Dirty(e, x) => cache[e][x] \in {None, disk[e][x]}
    BY DEF Coherent
  <2>e. e = dev[t] /\ dev[t] \in Devs
    BY <1>6, LogWriteEffect DEF OneFs
  <2>1. /\ cache'[e][x] = IF x = b THEN v ELSE cache[e][x]
        /\ pinned'[e] = pinned[e] \cup {b} /\ v # None
    BY <1>6, <2>e, LogWriteEffect, NamesAssumption DEF TypeOK
  <2>2. Dirty(e, x)' <=> Dirty(e, x)
    BY <2>0, DirtyKept
  <2>q. QED BY <2>0, <2>o, <2>1, <2>2
<1>8. ASSUME NEW t \in Threads, WriteLog(t) PROVE Coherent'
  <2>0. UNCHANGED <<mnt, outstanding, committing, lh, waitq, pc, dev,
                      mine, flight, tempq, pinned, disk, head>>
    BY <1>8 DEF WriteLog, logvars, bufvars, diskvars
  <2>s. SUFFICES ASSUME NEW e \in Devs, NEW x \in Addrs
        PROVE /\ x \in pinned'[e] \/ Dirty(e, x)' => cache'[e][x] # None
              /\ x \notin pinned'[e] /\ ~Dirty(e, x)' => cache'[e][x] \in {None, disk'[e][x]}
    BY DEF Coherent
  <2>o. /\ x \in pinned[e] \/ Dirty(e, x) => cache[e][x] # None
        /\ x \notin pinned[e] /\ ~Dirty(e, x) => cache[e][x] \in {None, disk[e][x]}
    BY DEF Coherent
  <2>e. e = dev[t] /\ dev[t] \in Devs
    BY <1>8, WriteLogEffect DEF OneFs
  <2>1. /\ cache'[e][x] = IF x = tail[t] THEN cache[e][lh[e][tail[t]]] ELSE cache[e][x]
        /\ cache[e][lh[e][tail[t]]] # None
        /\ Dirty(e, x)' <=> Dirty(e, x) \/ x = tail[t]
    BY <1>8, <2>e, WriteLogEffect
  <2>q. QED BY <2>0, <2>o, <2>1
<1>9. ASSUME NEW t \in Threads, InstallTrans(t) PROVE Coherent'
  <2>0. UNCHANGED <<mnt, outstanding, committing, lh, waitq, pc, dev,
                      mine, flight, tempq, disk, head>>
    BY <1>9 DEF InstallTrans, logvars, bufvars, diskvars
  <2>s. SUFFICES ASSUME NEW e \in Devs, NEW x \in Addrs
        PROVE /\ x \in pinned'[e] \/ Dirty(e, x)' => cache'[e][x] # None
              /\ x \notin pinned'[e] /\ ~Dirty(e, x)' => cache'[e][x] \in {None, disk'[e][x]}
    BY DEF Coherent
  <2>o. /\ x \in pinned[e] \/ Dirty(e, x) => cache[e][x] # None
        /\ x \notin pinned[e] /\ ~Dirty(e, x) => cache[e][x] \in {None, disk[e][x]}
    BY DEF Coherent
  <2>e. e = dev[t] /\ dev[t] \in Devs
    BY <1>9, InstallTransEffect DEF OneFs
  <2>1. /\ cache'[e][x] = IF x = tail[t] THEN disk[e][x] ELSE cache[e][x]
        /\ cache[e][lh[e][tail[t]]] # None /\ tail[t] \in DOMAIN lh[e]
        /\ Dirty(e, x)' <=> Dirty(e, x) \/ x = lh[e][tail[t]]
    BY <1>9, <2>e, InstallTransEffect
  <2>2. pinned'[e] = pinned[e] \ {lh[e][tail[t]]}
    BY <1>9, <2>e, InstallTransEffect DEF TypeOK
  <2>3. lh[e][tail[t]] # tail[t]
    BY <2>1, IndexOf
  <2>4. disk[e][x] # None
    BY NamesAssumption DEF TypeOK
  <2>q. QED BY <2>0, <2>o, <2>1, <2>2, <2>3, <2>4
<1>10. ASSUME NEW t \in Threads, BsyncPop(t) PROVE Coherent'
  <2>0. UNCHANGED <<mnt, outstanding, committing, lh, waitq, pc, dev,
                      mine, tail, tempq, cache, pinned, disk, head>>
    BY <1>10 DEF BsyncPop, logvars, bufvars, diskvars
  <2>1. \A e \in Devs, x \in Addrs : Dirty(e, x)' <=> Dirty(e, x)
    BY <1>10, BsyncPopEffect
  <2>q. QED BY <2>0, <2>1 DEF Coherent
<1>11. ASSUME NEW t \in Threads, BsyncWrite(t) PROVE Coherent'
  <2>0. UNCHANGED <<mnt, outstanding, committing, lh, waitq, pc, dev,
                      mine, tail, tempq, cache, pinned, dirtyList, head>>
    BY <1>11 DEF BsyncWrite, logvars, bufvars, diskvars
  <2>s. SUFFICES ASSUME NEW e \in Devs, NEW x \in Addrs
        PROVE /\ x \in pinned'[e] \/ Dirty(e, x)' => cache'[e][x] # None
              /\ x \notin pinned'[e] /\ ~Dirty(e, x)' => cache'[e][x] \in {None, disk'[e][x]}
    BY DEF Coherent
  <2>o. /\ x \in pinned[e] \/ Dirty(e, x) => cache[e][x] # None
        /\ x \notin pinned[e] /\ ~Dirty(e, x) => cache[e][x] \in {None, disk[e][x]}
    BY DEF Coherent
  <2>e. e = dev[t] /\ dev[t] \in Devs
    BY <1>11, BsyncWriteEffect DEF OneFs
  <2>1. PICK a \in Addrs :
          /\ cache[dev[t]][a] # None
          /\ \A y \in Addrs : disk'[dev[t]][y] = IF y = a THEN cache[dev[t]][a] ELSE disk[dev[t]][y]
          /\ \A f \in Devs, y \in Addrs : Dirty(f, y)' => Dirty(f, y)
          /\ \A f \in Devs, y \in Addrs : Dirty(f, y) => Dirty(f, y)' \/ (f = dev[t] /\ y = a)
    BY <1>11, BsyncWriteEffect
  <2>2. /\ cache[e][a] # None
        /\ disk'[e][x] = IF x = a THEN cache[e][a] ELSE disk[e][x]
        /\ Dirty(e, x)' => Dirty(e, x)
        /\ Dirty(e, x) => Dirty(e, x)' \/ x = a
    BY <2>1, <2>e
  <2>3. CASE x = a
    BY <2>0, <2>2, <2>3
  <2>4. CASE x # a
    BY <2>0, <2>o, <2>2, <2>4
  <2>q. QED BY <2>3, <2>4
<1>18. ASSUME NEW d \in Devs, NEW a \in Addrs, Recycle(d, a) PROVE Coherent'
  <2>0. UNCHANGED <<mnt, outstanding, committing, lh, waitq, pc, dev,
                      mine, tail, flight, tempq, pinned, dirtyList, disk, head>>
    BY <1>18 DEF Recycle, logvars, bufvars, diskvars
  <2>s. SUFFICES ASSUME NEW e \in Devs, NEW x \in Addrs
        PROVE /\ x \in pinned'[e] \/ Dirty(e, x)' => cache'[e][x] # None
              /\ x \notin pinned'[e] /\ ~Dirty(e, x)' => cache'[e][x] \in {None, disk'[e][x]}
    BY DEF Coherent
  <2>o. /\ x \in pinned[e] \/ Dirty(e, x) => cache[e][x] # None
        /\ x \notin pinned[e] /\ ~Dirty(e, x) => cache[e][x] \in {None, disk[e][x]}
    BY DEF Coherent
  <2>e. e = d /\ d \in Devs
    BY <1>18 DEF OneFs
  <2>1. cache'[e][x] = (IF x = a THEN None ELSE cache[e][x]) /\ ~Dirty(d, a) /\ a \notin pinned[d]
    BY <1>18, <2>e, RecycleEffect
  <2>2. Dirty(e, x)' <=> Dirty(e, x)
    BY <2>0, DirtyKept
  <2>q. QED BY <2>0, <2>o, <2>e, <2>1, <2>2
<1>19. ASSUME Crash PROVE Coherent'
  <2>1. (\A x \in Threads : flight'[x] = None) /\ dirtyList' = <<>>
    BY <1>19 DEF Crash
  <2>2. \A e \in Devs, x \in Addrs : ~Dirty(e, x)'
    BY <2>1, EmptyRange, NamesAssumption DEF Dirty
  <2>3. \A e \in Devs, x \in Addrs : cache'[e][x] = None /\ x \notin pinned'[e]
    BY <1>19 DEF Crash
  <2>q. QED BY <2>2, <2>3 DEF Coherent
<1>q. QED BY <1>0, <1>2, <1>6, <1>8, <1>9, <1>10, <1>11, <1>18, <1>19, BufferCases

\* The blocks a recovery has copied stay equal to their slots.
LEMMA MountStageStep ==
    ASSUME OneFs, LInv, [Next]_vars
    PROVE  MountStage'
<1> USE DEF LInv
<1>1. ASSUME NEW d \in Devs, ReadHead(d) PROVE MountStage'
  BY <1>1 DEF TypeOK, ThreadsOK, MountStage, ReadHead, logvars, bufvars, diskvars
<1>2. ASSUME NEW d \in Devs, RecoverBlock(d) PROVE MountStage'
  <2>0. UNCHANGED <<mnt, outstanding, committing, lh, waitq, pc, dev,
                      mine, flight, tempq, pinned, dirtyList, head>>
    BY <1>2 DEF RecoverBlock, logvars, bufvars, diskvars
  <2> DEFINE b == lh[d][tail[d]]
  <2>1. /\ tail[d] \in DOMAIN lh[d] /\ mnt[d] = "install" /\ tail'[d] = tail[d] + 1 /\ tail[d] \in Nat
        /\ \A e \in Devs : e = d
    BY <1>2, RecoverBlockEffect DEF RecoverBlock, TypeOK, OneFs
  <2>2. \A x \in Addrs : disk'[d][x] = IF x = b THEN disk[d][tail[d]] ELSE disk[d][x]
    BY <1>2, RecoverBlockEffect
  <2>3. \A j \in DOMAIN lh[d] : j \in Addrs /\ lh[d][j] \in Addrs /\ j # b /\ j \in Nat
    BY <2>1, IndexOf
  <2>4. \A j \in DOMAIN lh[d] : lh[d][j] = b => j = tail[d]
    BY <2>1 DEF HeaderOK, Once
  <2>5. ASSUME NEW j \in DOMAIN lh[d], j < tail[d] + 1 PROVE disk'[d][lh[d][j]] = disk'[d][j]
    <3>1. CASE j = tail[d]
      BY <3>1, <2>2, <2>3
    <3>2. CASE j < tail[d]
      <4>1. disk[d][lh[d][j]] = disk[d][j]
        BY <3>2, <2>1 DEF MountStage
      <4>2. lh[d][j] # b
        BY <3>2, <2>1, <2>3, <2>4
      <4>q. QED BY <4>1, <4>2, <2>2, <2>3
    <3>q. QED BY <3>1, <3>2, <2>1, <2>3, <2>5
  <2>6. mnt[d] # "up" => pinned[d] = {}
    BY DEF MountStage
  <2>7. lh[d] = head[d]
    BY <2>1 DEF MountStage
  <2>q. QED BY <2>0, <2>1, <2>5, <2>6, <2>7 DEF MountStage
<1>3. ASSUME NEW d \in Devs, RecoverErase(d) PROVE MountStage'
  BY <1>3 DEF TypeOK, ThreadsOK, MountStage, RecoverErase, logvars, bufvars, diskvars
<1>4. ASSUME NEW t \in Threads, NEW d \in Devs, BeginOp(t, d) PROVE MountStage'
  BY <1>4 DEF TypeOK, ThreadsOK, MountStage, BeginOp, AtBegin, Admit, logvars, bufvars, diskvars
<1>5. ASSUME NEW t \in Threads, NEW d \in Devs, BeginWait(t, d) PROVE MountStage'
  BY <1>5 DEF TypeOK, ThreadsOK, MountStage, BeginWait, AtBegin, logvars, bufvars, diskvars
<1>6. ASSUME NEW t \in Threads, NEW b \in Blocks, NEW v \in Values, LogWrite(t, b, v)
      PROVE  MountStage'
  <2>0. UNCHANGED <<mnt, outstanding, committing, waitq, pc, dev, tail,
                      flight, tempq, dirtyList, disk, head>>
    BY <1>6 DEF LogWrite, logvars, bufvars, diskvars
  <2>1. \A e \in Devs : mnt'[e] = "up"
    BY <1>6, <2>0, LogWriteEffect DEF OneFs
  <2>q. QED BY <2>1 DEF MountStage
<1>7. ASSUME NEW t \in Threads, EndOp(t) PROVE MountStage'
  BY <1>7 DEF TypeOK, ThreadsOK, MountStage, EndOp, logvars, bufvars, diskvars
<1>8. ASSUME NEW t \in Threads, WriteLog(t) PROVE MountStage'
  <2>0. UNCHANGED <<mnt, outstanding, committing, lh, waitq, pc, dev,
                      mine, flight, tempq, pinned, disk, head>>
    BY <1>8 DEF WriteLog, logvars, bufvars, diskvars
  <2>1. \A e \in Devs : mnt'[e] = "up"
    BY <1>8, <2>0, WriteLogEffect DEF OneFs
  <2>q. QED BY <2>1 DEF MountStage
<1>9. ASSUME NEW t \in Threads, InstallTrans(t) PROVE MountStage'
  <2>0. UNCHANGED <<mnt, outstanding, committing, lh, waitq, pc, dev,
                      mine, flight, tempq, disk, head>>
    BY <1>9 DEF InstallTrans, logvars, bufvars, diskvars
  <2>1. \A e \in Devs : mnt'[e] = "up"
    BY <1>9, <2>0, InstallTransEffect DEF OneFs
  <2>q. QED BY <2>1 DEF MountStage
<1>10. ASSUME NEW t \in Threads, BsyncPop(t) PROVE MountStage'
  BY <1>10 DEF TypeOK, ThreadsOK, MountStage, BsyncPop, logvars, bufvars, diskvars
<1>11. ASSUME NEW t \in Threads, BsyncWrite(t) PROVE MountStage'
  <2>0. UNCHANGED <<mnt, outstanding, committing, lh, waitq, pc, dev,
                      mine, tail, tempq, cache, pinned, dirtyList, head>>
    BY <1>11 DEF BsyncWrite, logvars, bufvars, diskvars
  <2>1. \A e \in Devs : mnt'[e] = "up"
    BY <1>11, <2>0, BsyncWriteEffect DEF OneFs
  <2>q. QED BY <2>1 DEF MountStage
<1>12. ASSUME NEW t \in Threads, BsyncDone(t) PROVE MountStage'
  BY <1>12 DEF TypeOK, ThreadsOK, MountStage, BsyncDone, InBsync, logvars, bufvars, diskvars
<1>13. ASSUME NEW t \in Threads, WriteHead(t) PROVE MountStage'
  BY <1>13 DEF TypeOK, ThreadsOK, MountStage, WriteHead, logvars, bufvars, diskvars
<1>14. ASSUME NEW t \in Threads, EraseHead(t) PROVE MountStage'
  BY <1>14 DEF TypeOK, ThreadsOK, MountStage, EraseHead, logvars, bufvars, diskvars
<1>15. ASSUME NEW t \in Threads, Release(t) PROVE MountStage'
  BY <1>15 DEF TypeOK, ThreadsOK, MountStage, Release, logvars, bufvars, diskvars
<1>16. ASSUME NEW t \in Threads, NEW u \in Threads, WakeOne(t, u) PROVE MountStage'
  BY <1>16 DEF TypeOK, ThreadsOK, MountStage, WakeOne, logvars, bufvars, diskvars
<1>17. ASSUME NEW t \in Threads, WakeDone(t) PROVE MountStage'
  BY <1>17 DEF TypeOK, ThreadsOK, MountStage, WakeDone, logvars, bufvars, diskvars
<1>18. ASSUME NEW d \in Devs, NEW a \in Addrs, Recycle(d, a) PROVE MountStage'
  BY <1>18 DEF TypeOK, ThreadsOK, MountStage, Recycle, logvars, bufvars, diskvars
<1>19. ASSUME Crash PROVE MountStage'
  BY <1>19 DEF TypeOK, ThreadsOK, MountStage, Crash, diskvars
<1>20. ASSUME UNCHANGED vars PROVE MountStage'
  BY <1>20 DEF TypeOK, ThreadsOK, MountStage, vars, logvars, bufvars, diskvars
<1>q. QED BY <1>1, <1>2, <1>3, <1>4, <1>5, <1>6, <1>7, <1>8, <1>9, <1>10, <1>11, <1>12, <1>13,
     <1>14, <1>15, <1>16, <1>17, <1>18, <1>19, <1>20 DEF Next, MountStep, CommitStep

\* Between commits the header on the disk is empty and what is logged is pinned.
LEMMA OpStageStep ==
    ASSUME OneFs, LInv, [Next]_vars
    PROVE  OpStage'
<1> USE DEF LInv
<1>1. ASSUME NEW d \in Devs, ReadHead(d) PROVE OpStage'
  BY <1>1 DEF TypeOK, ThreadsOK, OpStage, CommitterOK, Committing, ReadHead, logvars, bufvars,
     diskvars
<1>2. ASSUME NEW d \in Devs, RecoverBlock(d) PROVE OpStage'
  BY <1>2 DEF TypeOK, ThreadsOK, OpStage, CommitterOK, Committing, RecoverBlock, Bread, logvars,
     bufvars, diskvars
<1>3. ASSUME NEW d \in Devs, RecoverErase(d) PROVE OpStage'
  <2>0. UNCHANGED <<outstanding, committing, waitq, pc, dev, mine, flight,
                      tempq, cache, pinned, dirtyList, disk>>
    BY <1>3 DEF RecoverErase, logvars, bufvars, diskvars
  <2>1. \A e \in Devs : e = d /\ lh'[e] = <<>> /\ head'[e] = <<>> /\ pinned'[e] = {}
    BY <1>3, <2>0 DEF OneFs, RecoverErase, TypeOK, MountStage
  <2>q. QED BY <2>1, EmptyRange DEF OpStage
<1>4. ASSUME NEW t \in Threads, NEW d \in Devs, BeginOp(t, d) PROVE OpStage'
  BY <1>4 DEF TypeOK, ThreadsOK, OpStage, CommitterOK, Committing, BeginOp, AtBegin, Admit,
     logvars, bufvars, diskvars
<1>5. ASSUME NEW t \in Threads, NEW d \in Devs, BeginWait(t, d) PROVE OpStage'
  BY <1>5 DEF TypeOK, ThreadsOK, OpStage, CommitterOK, Committing, BeginWait, AtBegin, logvars,
     bufvars, diskvars
<1>6. ASSUME NEW t \in Threads, NEW b \in Blocks, NEW v \in Values, LogWrite(t, b, v)
      PROVE  OpStage'
  <2>0. UNCHANGED <<mnt, outstanding, committing, waitq, pc, dev, tail,
                      flight, tempq, dirtyList, disk, head>>
    BY <1>6 DEF LogWrite, logvars, bufvars, diskvars
  <2>1. \A e \in Devs : e = dev[t] /\ mnt[e] = "up" /\ ~committing[e]
    BY <1>6, LogWriteEffect DEF OneFs
  <2>2. \A e \in Devs : Range(lh'[e]) = Range(lh[e]) \cup {b} /\ pinned'[e] = pinned[e] \cup {b}
    <3>1. Range(lh'[dev[t]]) = Range(lh[dev[t]]) \cup {b}
      BY <1>6, LogWriteEffect
    <3>2. pinned' = [pinned EXCEPT ![dev[t]] = @ \cup {b}] /\ dev[t] \in Devs
      BY <1>6, LogWriteEffect
    <3>3. pinned'[dev[t]] = pinned[dev[t]] \cup {b}
      BY <3>2 DEF TypeOK
    <3>q. QED BY <2>1, <3>1, <3>3
  <2>3. \A e \in Devs : t \in OpsOn(e)
    BY <1>6, <2>1, LogWriteEffect DEF OpsOn
  <2>4. \A e \in Devs : outstanding[e] # 0
    BY <2>3, OpsFinite, FS_EmptySet DEF CommitExcludesOps
  <2>q. QED BY <2>0, <2>1, <2>2, <2>4 DEF OpStage
<1>7. ASSUME NEW t \in Threads, EndOp(t) PROVE OpStage'
  <2>0. UNCHANGED <<mnt, lh, waitq, dev, flight, tempq, cache,
                      pinned, dirtyList, disk, head>>
    BY <1>7 DEF EndOp, logvars, bufvars, diskvars
  <2>1. dev[t] \in Devs /\ mnt[dev[t]] = "up" /\ ~committing[dev[t]]
    BY <1>7, DevOf DEF EndOp
  <2>2. \A e \in Devs : /\ e = dev[t] /\ outstanding[e] \in Nat
                        /\ outstanding'[e] = outstanding[e] - 1 /\ committing'[e] = (outstanding[e] = 1)
    BY <1>7, <2>1 DEF OneFs, EndOp, TypeOK
  <2>3. ASSUME NEW e \in Devs, ~committing'[e]
        PROVE  head'[e] = <<>> /\ pinned'[e] = Range(lh'[e]) /\ outstanding'[e] # 0
    <3>1. e = dev[t]
      BY <2>2
    <3>2. head[e] = <<>> /\ pinned[e] = Range(lh[e])
      BY <2>1, <3>1 DEF OpStage
    <3>3. outstanding[e] # 1 /\ outstanding'[e] = outstanding[e] - 1 /\ outstanding[e] \in Nat
      BY <2>2, <2>3
    <3>q. QED BY <2>0, <3>2, <3>3
  <2>q. QED BY <2>3 DEF OpStage
<1>8. ASSUME NEW t \in Threads, WriteLog(t) PROVE OpStage'
  BY <1>8 DEF TypeOK, ThreadsOK, OpStage, CommitterOK, Committing, WriteLog, Bread, logvars,
     bufvars, diskvars
<1>9. ASSUME NEW t \in Threads, InstallTrans(t) PROVE OpStage'
  BY <1>9 DEF TypeOK, ThreadsOK, OpStage, CommitterOK, Committing, InstallTrans, Bread, logvars,
     bufvars, diskvars
<1>10. ASSUME NEW t \in Threads, BsyncPop(t) PROVE OpStage'
  BY <1>10 DEF TypeOK, ThreadsOK, OpStage, CommitterOK, Committing, BsyncPop, logvars, bufvars,
     diskvars
<1>11. ASSUME NEW t \in Threads, BsyncWrite(t) PROVE OpStage'
  BY <1>11 DEF TypeOK, ThreadsOK, OpStage, CommitterOK, Committing, BsyncWrite, logvars, bufvars,
     diskvars
<1>12. ASSUME NEW t \in Threads, BsyncDone(t) PROVE OpStage'
  BY <1>12 DEF TypeOK, ThreadsOK, OpStage, CommitterOK, Committing, BsyncDone, InBsync, logvars,
     bufvars, diskvars
<1>13. ASSUME NEW t \in Threads, WriteHead(t) PROVE OpStage'
  BY <1>13 DEF TypeOK, ThreadsOK, OpStage, CommitterOK, Committing, WriteHead, logvars, bufvars,
     diskvars
<1>14. ASSUME NEW t \in Threads, EraseHead(t) PROVE OpStage'
  BY <1>14 DEF TypeOK, ThreadsOK, OpStage, CommitterOK, Committing, EraseHead, logvars, bufvars,
     diskvars
<1>15. ASSUME NEW t \in Threads, Release(t) PROVE OpStage'
  <2>0. UNCHANGED <<mnt, outstanding, lh, dev, mine, tail, flight,
                      cache, pinned, dirtyList, disk, head>>
    BY <1>15 DEF Release, logvars, bufvars, diskvars
  <2>1. dev[t] \in Devs /\ pc[t] = "release"
    BY <1>15, DevOf DEF Release
  <2>2. \A e \in Devs : head[e] = <<>> /\ lh[e] = <<>> /\ pinned[e] = {}
    BY <2>1 DEF EraseStage, OneFs
  <2>q. QED BY <2>0, <2>2, EmptyRange DEF OpStage
<1>16. ASSUME NEW t \in Threads, NEW u \in Threads, WakeOne(t, u) PROVE OpStage'
  BY <1>16 DEF TypeOK, ThreadsOK, OpStage, CommitterOK, Committing, WakeOne, logvars, bufvars,
     diskvars
<1>17. ASSUME NEW t \in Threads, WakeDone(t) PROVE OpStage'
  BY <1>17 DEF TypeOK, ThreadsOK, OpStage, CommitterOK, Committing, WakeDone, logvars, bufvars,
     diskvars
<1>18. ASSUME NEW d \in Devs, NEW a \in Addrs, Recycle(d, a) PROVE OpStage'
  BY <1>18 DEF TypeOK, ThreadsOK, OpStage, CommitterOK, Committing, Recycle, logvars, bufvars,
     diskvars
<1>19. ASSUME Crash PROVE OpStage'
  BY <1>19 DEF TypeOK, ThreadsOK, OpStage, CommitterOK, Committing, Crash, diskvars
<1>20. ASSUME UNCHANGED vars PROVE OpStage'
  BY <1>20 DEF TypeOK, ThreadsOK, OpStage, CommitterOK, Committing, vars, logvars, bufvars,
     diskvars
<1>q. QED BY <1>1, <1>2, <1>3, <1>4, <1>5, <1>6, <1>7, <1>8, <1>9, <1>10, <1>11, <1>12, <1>13,
     <1>14, <1>15, <1>16, <1>17, <1>18, <1>19, <1>20 DEF Next, MountStep, CommitStep

\* The slots copied so far hold what the home buffers hold.
LEMMA WriteStageStep ==
    ASSUME OneFs, LInv, [Next]_vars
    PROVE  WriteStage'
<1> USE DEF LInv
<1>1. ASSUME NEW d \in Devs, ReadHead(d) PROVE WriteStage'
  <2>1. \A x \in Threads : pc'[x] \notin {"writelog"}
    BY <1>1, NoCommitter DEF ReadHead, logvars, Committing
  <2>q. QED BY <2>1 DEF WriteStage
<1>2. ASSUME NEW d \in Devs, RecoverBlock(d) PROVE WriteStage'
  <2>1. \A x \in Threads : pc'[x] \notin {"writelog"}
    BY <1>2, NoCommitter DEF RecoverBlock, logvars, Committing
  <2>q. QED BY <2>1 DEF WriteStage
<1>3. ASSUME NEW d \in Devs, RecoverErase(d) PROVE WriteStage'
  BY <1>3 DEF TypeOK, ThreadsOK, WriteStage, CommitterOK, Committing, Bread, RecoverErase,
     logvars, bufvars, diskvars
<1>4. ASSUME NEW t \in Threads, NEW d \in Devs, BeginOp(t, d) PROVE WriteStage'
  BY <1>4 DEF TypeOK, ThreadsOK, WriteStage, CommitterOK, Committing, Bread, BeginOp, AtBegin,
     Admit, logvars, bufvars, diskvars
<1>5. ASSUME NEW t \in Threads, NEW d \in Devs, BeginWait(t, d) PROVE WriteStage'
  BY <1>5 DEF TypeOK, ThreadsOK, WriteStage, CommitterOK, Committing, Bread, BeginWait, AtBegin,
     logvars, bufvars, diskvars
<1>6. ASSUME NEW t \in Threads, NEW b \in Blocks, NEW v \in Values, LogWrite(t, b, v)
      PROVE  WriteStage'
  <2>1. \A x \in Threads : pc'[x] \notin {"writelog"}
    BY <1>6, LogWriteEffect, NoCommitter DEF LogWrite, Committing
  <2>q. QED BY <2>1 DEF WriteStage
<1>7. ASSUME NEW t \in Threads, EndOp(t) PROVE WriteStage'
  <2>0. UNCHANGED <<mnt, lh, waitq, dev, flight, tempq, cache,
                      pinned, dirtyList, disk, head>>
    BY <1>7 DEF EndOp, logvars, bufvars, diskvars
  <2>1. dev[t] \in Devs /\ mnt[dev[t]] = "up" /\ ~committing[dev[t]]
    BY <1>7, DevOf DEF EndOp
  <2>2. \A x \in Threads : pc'[x] = "writelog" => x = t
    BY <1>7, <2>1, NoCommitter DEF EndOp, TypeOK, Committing
  <2>3. head[dev[t]] = <<>> /\ pinned[dev[t]] = Range(lh[dev[t]])
    BY <2>1 DEF OpStage
  <2>4. tail'[t] = 1
    BY <1>7 DEF EndOp, TypeOK
  <2>5. \A i \in DOMAIN lh[dev[t]] : ~(i < 1)
    BY <2>1, IndexOf
  <2>q. QED BY <2>0, <2>2, <2>3, <2>4, <2>5 DEF WriteStage
<1>8. ASSUME NEW t \in Threads, WriteLog(t) PROVE WriteStage'
  <2>0. UNCHANGED <<mnt, outstanding, committing, lh, waitq, pc, dev,
                      mine, flight, tempq, pinned, disk, head>>
    BY <1>8 DEF WriteLog, logvars, bufvars, diskvars
  <2> DEFINE d == dev[t]
             i == tail[t]
  <2>1. d \in Devs /\ i \in DOMAIN lh[d] /\ pc[t] = "writelog" /\ cache[d][lh[d][i]] # None
    BY <1>8, WriteLogEffect DEF WriteLog
  <2>2. \A x \in Threads : pc[x] = "writelog" => x = t
    BY <2>1 DEF CommitterOK, Committing
  <2>3. head[d] = <<>> /\ pinned[d] = Range(lh[d])
        /\ \A j \in DOMAIN lh[d] : j < i => Bread(d, j) = cache[d][lh[d][j]]
    BY <2>1 DEF WriteStage
  <2>4. tail'[t] = i + 1 /\ i \in Nat
    BY <1>8 DEF WriteLog, TypeOK
  <2>5. \A x \in Addrs : cache'[d][x] = IF x = i THEN cache[d][lh[d][i]] ELSE cache[d][x]
    BY <1>8, WriteLogEffect
  <2>6. \A j \in DOMAIN lh[d] : j \in Addrs /\ j \in Nat /\ lh[d][j] \in Addrs /\ lh[d][j] # i
    BY <2>1, IndexOf
  <2>7. ASSUME NEW j \in DOMAIN lh[d], j < i + 1
        PROVE  (IF cache'[d][j] # None THEN cache'[d][j] ELSE disk'[d][j]) = cache'[d][lh[d][j]]
    <3>1. CASE j = i
      BY <3>1, <2>1, <2>5, <2>6
    <3>2. CASE j < i
      BY <3>2, <2>0, <2>3, <2>5, <2>6 DEF Bread
    <3>q. QED BY <3>1, <3>2, <2>4, <2>6, <2>7
  <2>q. QED BY <2>0, <2>2, <2>3, <2>4, <2>7 DEF WriteStage, Bread
<1>9. ASSUME NEW t \in Threads, InstallTrans(t) PROVE WriteStage'
  <2>1. \A x \in Threads : pc'[x] \notin {"writelog"}
    BY <1>9 DEF InstallTrans, logvars, CommitterOK, Committing
  <2>q. QED BY <2>1 DEF WriteStage
<1>10. ASSUME NEW t \in Threads, BsyncPop(t) PROVE WriteStage'
  BY <1>10 DEF TypeOK, ThreadsOK, WriteStage, CommitterOK, Committing, Bread, BsyncPop, logvars,
     bufvars, diskvars
<1>11. ASSUME NEW t \in Threads, BsyncWrite(t) PROVE WriteStage'
  <2>0. UNCHANGED <<mnt, outstanding, committing, lh, waitq, pc, dev,
                      mine, tail, tempq, cache, pinned, dirtyList, head>>
    BY <1>11 DEF BsyncWrite, logvars, bufvars, diskvars
  <2>1. \A e \in Devs, x \in Addrs : Bread(e, x)' = Bread(e, x)
    BY <1>11, BreadKept
  <2>2. SUFFICES ASSUME NEW x \in Threads, pc[x] = "writelog"
        PROVE  /\ head'[dev'[x]] = <<>> /\ pinned'[dev'[x]] = Range(lh'[dev'[x]])
               /\ \A i \in DOMAIN lh'[dev'[x]] :
                    i < tail'[x] => Bread(dev[x], i)' = cache'[dev'[x]][lh'[dev'[x]][i]]
    BY <2>0 DEF WriteStage
  <2>3. dev[x] \in Devs
    BY <2>2, DevOf
  <2>4. \A i \in DOMAIN lh[dev[x]] : /\ i \in Addrs /\ lh[dev[x]][i] \in Addrs /\ lh[dev[x]][i] \in Range(lh[dev[x]])
    BY <2>3, IndexOf
  <2>5. head[dev[x]] = <<>> /\ pinned[dev[x]] = Range(lh[dev[x]])
        /\ \A i \in DOMAIN lh[dev[x]] : i < tail[x] => Bread(dev[x], i) = cache[dev[x]][lh[dev[x]][i]]
    BY <2>2 DEF WriteStage
  <2>6. \A i \in DOMAIN lh[dev[x]] : cache'[dev[x]][lh[dev[x]][i]] = cache[dev[x]][lh[dev[x]][i]]
    BY <2>0
  <2>7. ASSUME NEW i \in DOMAIN lh[dev[x]], i < tail[x]
        PROVE  Bread(dev[x], i)' = cache'[dev[x]][lh[dev[x]][i]]
    <3> DEFINE e == dev[x]
    <3>1. Bread(dev[x], i)' = (IF cache'[e][i] # None THEN cache'[e][i] ELSE disk'[e][i])
      BY <2>0 DEF Bread
    <3>2. \A f \in Devs, z \in Addrs : (IF cache'[f][z] # None THEN cache'[f][z] ELSE disk'[f][z]) = Bread(f, z)
      BY <2>1 DEF Bread
    <3>3. (IF cache'[e][i] # None THEN cache'[e][i] ELSE disk'[e][i]) = Bread(e, i)
      BY <2>3, <2>4, <3>2
    <3>q. QED BY <2>5, <2>6, <2>7, <3>1, <3>3
  <2>q. QED BY <2>0, <2>5, <2>7
<1>12. ASSUME NEW t \in Threads, BsyncDone(t) PROVE WriteStage'
  BY <1>12 DEF TypeOK, ThreadsOK, WriteStage, CommitterOK, Committing, Bread, BsyncDone, InBsync,
     logvars, bufvars, diskvars
<1>13. ASSUME NEW t \in Threads, WriteHead(t) PROVE WriteStage'
  BY <1>13 DEF TypeOK, ThreadsOK, WriteStage, CommitterOK, Committing, Bread, WriteHead, logvars,
     bufvars, diskvars
<1>14. ASSUME NEW t \in Threads, EraseHead(t) PROVE WriteStage'
  BY <1>14 DEF TypeOK, ThreadsOK, WriteStage, CommitterOK, Committing, Bread, EraseHead, logvars,
     bufvars, diskvars
<1>15. ASSUME NEW t \in Threads, Release(t) PROVE WriteStage'
  BY <1>15 DEF TypeOK, ThreadsOK, WriteStage, CommitterOK, Committing, Bread, Release, logvars,
     bufvars, diskvars
<1>16. ASSUME NEW t \in Threads, NEW u \in Threads, WakeOne(t, u) PROVE WriteStage'
  BY <1>16 DEF TypeOK, ThreadsOK, WriteStage, CommitterOK, Committing, Bread, WakeOne, logvars,
     bufvars, diskvars
<1>17. ASSUME NEW t \in Threads, WakeDone(t) PROVE WriteStage'
  BY <1>17 DEF TypeOK, ThreadsOK, WriteStage, CommitterOK, Committing, Bread, WakeDone, logvars,
     bufvars, diskvars
<1>18. ASSUME NEW d \in Devs, NEW a \in Addrs, Recycle(d, a) PROVE WriteStage'
  <2>0. UNCHANGED <<mnt, outstanding, committing, lh, waitq, pc, dev,
                      mine, tail, flight, tempq, pinned, dirtyList, disk, head>>
    BY <1>18 DEF Recycle, logvars, bufvars, diskvars
  <2>1. \A e \in Devs, x \in Addrs : Bread(e, x)' = Bread(e, x)
    BY <1>18, BreadKept
  <2>2. SUFFICES ASSUME NEW x \in Threads, pc[x] = "writelog"
        PROVE  /\ head'[dev'[x]] = <<>> /\ pinned'[dev'[x]] = Range(lh'[dev'[x]])
               /\ \A i \in DOMAIN lh'[dev'[x]] :
                    i < tail'[x] => Bread(dev[x], i)' = cache'[dev'[x]][lh'[dev'[x]][i]]
    BY <2>0 DEF WriteStage
  <2>3. dev[x] \in Devs
    BY <2>2, DevOf
  <2>4. \A i \in DOMAIN lh[dev[x]] : /\ i \in Addrs /\ lh[dev[x]][i] \in Addrs /\ lh[dev[x]][i] \in Range(lh[dev[x]])
    BY <2>3, IndexOf
  <2>5. head[dev[x]] = <<>> /\ pinned[dev[x]] = Range(lh[dev[x]])
        /\ \A i \in DOMAIN lh[dev[x]] : i < tail[x] => Bread(dev[x], i) = cache[dev[x]][lh[dev[x]][i]]
    BY <2>2 DEF WriteStage
  <2>6. \A i \in DOMAIN lh[dev[x]] : cache'[dev[x]][lh[dev[x]][i]] = cache[dev[x]][lh[dev[x]][i]]
    <3>1. d = dev[x] /\ a \notin pinned[d] /\ \A y \in Addrs : cache'[d][y] = IF y = a THEN None ELSE cache[d][y]
      BY <1>18, <2>3, RecycleEffect DEF OneFs
    <3>q. QED BY <2>4, <2>5, <3>1
  <2>7. ASSUME NEW i \in DOMAIN lh[dev[x]], i < tail[x]
        PROVE  Bread(dev[x], i)' = cache'[dev[x]][lh[dev[x]][i]]
    <3> DEFINE e == dev[x]
    <3>1. Bread(dev[x], i)' = (IF cache'[e][i] # None THEN cache'[e][i] ELSE disk'[e][i])
      BY <2>0 DEF Bread
    <3>2. \A f \in Devs, z \in Addrs : (IF cache'[f][z] # None THEN cache'[f][z] ELSE disk'[f][z]) = Bread(f, z)
      BY <2>1 DEF Bread
    <3>3. (IF cache'[e][i] # None THEN cache'[e][i] ELSE disk'[e][i]) = Bread(e, i)
      BY <2>3, <2>4, <3>2
    <3>q. QED BY <2>5, <2>6, <2>7, <3>1, <3>3
  <2>q. QED BY <2>0, <2>5, <2>7
<1>19. ASSUME Crash PROVE WriteStage'
  BY <1>19 DEF TypeOK, ThreadsOK, WriteStage, CommitterOK, Committing, Bread, Crash, diskvars
<1>20. ASSUME UNCHANGED vars PROVE WriteStage'
  BY <1>20 DEF TypeOK, ThreadsOK, WriteStage, CommitterOK, Committing, Bread, vars, logvars,
     bufvars, diskvars
<1>q. QED BY <1>1, <1>2, <1>3, <1>4, <1>5, <1>6, <1>7, <1>8, <1>9, <1>10, <1>11, <1>12, <1>13,
     <1>14, <1>15, <1>16, <1>17, <1>18, <1>19, <1>20 DEF Next, MountStep, CommitStep

\* At the commit point every slot on the disk holds its block.
LEMMA CommitStageStep ==
    ASSUME OneFs, LInv, [Next]_vars
    PROVE  CommitStage'
<1> USE DEF LInv
<1>1. ASSUME NEW d \in Devs, ReadHead(d) PROVE CommitStage'
  BY <1>1 DEF TypeOK, ThreadsOK, CommitStage, CommitterOK, Committing, ReadHead, logvars,
     bufvars, diskvars
<1>2. ASSUME NEW d \in Devs, RecoverBlock(d) PROVE CommitStage'
  <2>1. \A x \in Threads : pc'[x] \notin {"commit"}
    BY <1>2, NoCommitter DEF RecoverBlock, logvars, Committing
  <2>q. QED BY <2>1 DEF CommitStage
<1>3. ASSUME NEW d \in Devs, RecoverErase(d) PROVE CommitStage'
  <2>1. \A x \in Threads : pc'[x] \notin {"commit"}
    BY <1>3, NoCommitter DEF RecoverErase, logvars, Committing
  <2>q. QED BY <2>1 DEF CommitStage
<1>4. ASSUME NEW t \in Threads, NEW d \in Devs, BeginOp(t, d) PROVE CommitStage'
  BY <1>4 DEF TypeOK, ThreadsOK, CommitStage, CommitterOK, Committing, BeginOp, AtBegin, Admit,
     logvars, bufvars, diskvars
<1>5. ASSUME NEW t \in Threads, NEW d \in Devs, BeginWait(t, d) PROVE CommitStage'
  BY <1>5 DEF TypeOK, ThreadsOK, CommitStage, CommitterOK, Committing, BeginWait, AtBegin,
     logvars, bufvars, diskvars
<1>6. ASSUME NEW t \in Threads, NEW b \in Blocks, NEW v \in Values, LogWrite(t, b, v)
      PROVE  CommitStage'
  <2>1. \A x \in Threads : pc'[x] \notin {"commit"}
    BY <1>6, LogWriteEffect, NoCommitter DEF LogWrite, Committing
  <2>q. QED BY <2>1 DEF CommitStage
<1>7. ASSUME NEW t \in Threads, EndOp(t) PROVE CommitStage'
  BY <1>7 DEF TypeOK, ThreadsOK, CommitStage, CommitterOK, Committing, EndOp, logvars, bufvars,
     diskvars
<1>8. ASSUME NEW t \in Threads, WriteLog(t) PROVE CommitStage'
  <2>1. \A x \in Threads : pc'[x] \notin {"commit"}
    BY <1>8 DEF WriteLog, logvars, CommitterOK, Committing
  <2>q. QED BY <2>1 DEF CommitStage
<1>9. ASSUME NEW t \in Threads, InstallTrans(t) PROVE CommitStage'
  BY <1>9 DEF TypeOK, ThreadsOK, CommitStage, CommitterOK, Committing, InstallTrans, Bread,
     logvars, bufvars, diskvars
<1>10. ASSUME NEW t \in Threads, BsyncPop(t) PROVE CommitStage'
  BY <1>10 DEF TypeOK, ThreadsOK, CommitStage, CommitterOK, Committing, BsyncPop, logvars,
     bufvars, diskvars
<1>11. ASSUME NEW t \in Threads, BsyncWrite(t) PROVE CommitStage'
  <2>1. \A x \in Threads : pc'[x] \notin {"commit"}
    BY <1>11, BsyncWriteEffect DEF BsyncWrite, logvars, InBsync, CommitterOK, Committing
  <2>q. QED BY <2>1 DEF CommitStage
<1>12. ASSUME NEW t \in Threads, BsyncDone(t) PROVE CommitStage'
  <2>0. UNCHANGED <<mnt, outstanding, committing, lh, waitq, dev, mine,
                      flight, tempq, cache, pinned, dirtyList, disk, head>>
    BY <1>12 DEF BsyncDone, InBsync, logvars, bufvars, diskvars
  <2>1. ASSUME NEW x \in Threads, pc'[x] = "commit"
        PROVE  /\ head[dev[x]] = <<>> /\ pinned[dev[x]] = Range(lh[dev[x]]) /\ tail'[x] = 1
               /\ \A i \in DOMAIN lh[dev[x]] : disk[dev[x]][i] = cache[dev[x]][lh[dev[x]][i]]
    <3>1. InBsync(t) /\ dirtyList = <<>> /\ pc[t] \in Committing
      BY <1>12 DEF BsyncDone, InBsync, Committing
    <3>2. x = t /\ pc[t] = "writelog" /\ tail'[t] = 1
      BY <1>12, <3>1, <2>1 DEF BsyncDone, TypeOK, CommitterOK, Committing
    <3> DEFINE d == dev[t]
    <3>3. d \in Devs /\ tail[t] > Len(lh[d]) /\ lh[d] \in Seq(Blocks) /\ tail[t] \in Nat
      BY <3>1, <3>2, DevOf DEF InBsync, TypeOK
    <3>4. \A u \in Threads : flight[u] = None
      BY <1>12, <3>1 DEF BsyncDone, DirtyOK, InBsync, CommitterOK, Committing
    <3>5. \A i \in DOMAIN lh[d] : ~Dirty(d, i)
      BY <3>1, <3>3, <3>4, EmptyRange, NamesAssumption, IndexOf DEF Dirty
    <3>6. /\ head[d] = <<>> /\ pinned[d] = Range(lh[d])
          /\ \A i \in DOMAIN lh[d] : i < tail[t] => Bread(d, i) = cache[d][lh[d][i]]
      BY <3>2 DEF WriteStage
    <3>7. \A i \in DOMAIN lh[d] : i < tail[t] /\ i \in Addrs /\ i \notin pinned[d]
      BY <3>3, IndexOf DEF TypeOK
    <3>8. \A i \in DOMAIN lh[d] : Bread(d, i) = disk[d][i]
      BY <3>3, <3>5, <3>7 DEF Coherent, Bread
    <3>q. QED BY <3>2, <3>6, <3>7, <3>8
  <2>q. QED BY <2>0, <2>1 DEF CommitStage
<1>13. ASSUME NEW t \in Threads, WriteHead(t) PROVE CommitStage'
  BY <1>13 DEF TypeOK, ThreadsOK, CommitStage, CommitterOK, Committing, WriteHead, logvars,
     bufvars, diskvars
<1>14. ASSUME NEW t \in Threads, EraseHead(t) PROVE CommitStage'
  BY <1>14 DEF TypeOK, ThreadsOK, CommitStage, CommitterOK, Committing, EraseHead, logvars,
     bufvars, diskvars
<1>15. ASSUME NEW t \in Threads, Release(t) PROVE CommitStage'
  BY <1>15 DEF TypeOK, ThreadsOK, CommitStage, CommitterOK, Committing, Release, logvars,
     bufvars, diskvars
<1>16. ASSUME NEW t \in Threads, NEW u \in Threads, WakeOne(t, u) PROVE CommitStage'
  BY <1>16 DEF TypeOK, ThreadsOK, CommitStage, CommitterOK, Committing, WakeOne, logvars,
     bufvars, diskvars
<1>17. ASSUME NEW t \in Threads, WakeDone(t) PROVE CommitStage'
  BY <1>17 DEF TypeOK, ThreadsOK, CommitStage, CommitterOK, Committing, WakeDone, logvars,
     bufvars, diskvars
<1>18. ASSUME NEW d \in Devs, NEW a \in Addrs, Recycle(d, a) PROVE CommitStage'
  <2>0. UNCHANGED <<mnt, outstanding, committing, lh, waitq, pc, dev,
                      mine, tail, flight, tempq, pinned, dirtyList, disk, head>>
    BY <1>18 DEF Recycle, logvars, bufvars, diskvars
  <2>1. ASSUME NEW x \in Threads, pc[x] = "commit", NEW i \in DOMAIN lh[dev[x]]
        PROVE  cache'[dev[x]][lh[dev[x]][i]] = cache[dev[x]][lh[dev[x]][i]]
    <3>1. dev[x] = d
      BY <2>1, DevOf DEF OneFs
    <3>2. lh[d][i] \in Range(lh[d]) /\ lh[d][i] \in Addrs
      BY <2>1, <3>1, IndexOf
    <3>3. lh[d][i] \in pinned[d]
      BY <2>1, <3>1, <3>2 DEF CommitStage
    <3>q. QED BY <1>18, <3>1, <3>2, <3>3, RecycleEffect
  <2>q. QED BY <2>0, <2>1 DEF CommitStage
<1>19. ASSUME Crash PROVE CommitStage'
  BY <1>19 DEF TypeOK, ThreadsOK, CommitStage, CommitterOK, Committing, Crash, diskvars
<1>20. ASSUME UNCHANGED vars PROVE CommitStage'
  BY <1>20 DEF TypeOK, ThreadsOK, CommitStage, CommitterOK, Committing, vars, logvars, bufvars,
     diskvars
<1>q. QED BY <1>1, <1>2, <1>3, <1>4, <1>5, <1>6, <1>7, <1>8, <1>9, <1>10, <1>11, <1>12, <1>13,
     <1>14, <1>15, <1>16, <1>17, <1>18, <1>19, <1>20 DEF Next, MountStep, CommitStep

\* While blocks are installed the slots keep what users see.
LEMMA InstallStageStep ==
    ASSUME OneFs, LInv, [Next]_vars
    PROVE  InstallStage'
<1> USE DEF LInv
<1>1. ASSUME NEW d \in Devs, ReadHead(d) PROVE InstallStage'
  <2>1. \A x \in Threads : pc'[x] \notin {"install"}
    BY <1>1, NoCommitter DEF ReadHead, logvars, Committing
  <2>q. QED BY <2>1 DEF InstallStage
<1>2. ASSUME NEW d \in Devs, RecoverBlock(d) PROVE InstallStage'
  <2>1. \A x \in Threads : pc'[x] \notin {"install"}
    BY <1>2, NoCommitter DEF RecoverBlock, logvars, Committing
  <2>q. QED BY <2>1 DEF InstallStage
<1>3. ASSUME NEW d \in Devs, RecoverErase(d) PROVE InstallStage'
  <2>1. \A x \in Threads : pc'[x] \notin {"install"}
    BY <1>3, NoCommitter DEF RecoverErase, logvars, Committing
  <2>q. QED BY <2>1 DEF InstallStage
<1>4. ASSUME NEW t \in Threads, NEW d \in Devs, BeginOp(t, d) PROVE InstallStage'
  BY <1>4 DEF TypeOK, ThreadsOK, InstallStage, CommitterOK, Committing, Bread, BeginOp, AtBegin,
     Admit, logvars, bufvars, diskvars
<1>5. ASSUME NEW t \in Threads, NEW d \in Devs, BeginWait(t, d) PROVE InstallStage'
  BY <1>5 DEF TypeOK, ThreadsOK, InstallStage, CommitterOK, Committing, Bread, BeginWait,
     AtBegin, logvars, bufvars, diskvars
<1>6. ASSUME NEW t \in Threads, NEW b \in Blocks, NEW v \in Values, LogWrite(t, b, v)
      PROVE  InstallStage'
  <2>1. \A x \in Threads : pc'[x] \notin {"install"}
    BY <1>6, LogWriteEffect, NoCommitter DEF LogWrite, Committing
  <2>q. QED BY <2>1 DEF InstallStage
<1>7. ASSUME NEW t \in Threads, EndOp(t) PROVE InstallStage'
  BY <1>7 DEF TypeOK, ThreadsOK, InstallStage, CommitterOK, Committing, Bread, EndOp, logvars,
     bufvars, diskvars
<1>8. ASSUME NEW t \in Threads, WriteLog(t) PROVE InstallStage'
  <2>1. \A x \in Threads : pc'[x] \notin {"install"}
    BY <1>8 DEF WriteLog, logvars, CommitterOK, Committing
  <2>q. QED BY <2>1 DEF InstallStage
<1>9. ASSUME NEW t \in Threads, InstallTrans(t) PROVE InstallStage'
  <2>0. UNCHANGED <<mnt, outstanding, committing, lh, waitq, pc, dev,
                      mine, flight, tempq, disk, head>>
    BY <1>9 DEF InstallTrans, logvars, bufvars, diskvars
  <2>1. \A e \in Devs, x \in Addrs : Bread(e, x)' = Bread(e, x)
    BY <1>9, BreadKept
  <2> DEFINE d == dev[t]
             k == tail[t]
  <2>2. d \in Devs /\ k \in DOMAIN lh[d] /\ pc[t] = "install" /\ pinned'[d] = pinned[d] \ {lh[d][k]} /\ k \in Nat
    <3>1. pinned' = [pinned EXCEPT ![d] = @ \ {lh[d][k]}] /\ d \in Devs /\ k \in DOMAIN lh[d]
      BY <1>9, InstallTransEffect
    <3>2. pinned'[d] = pinned[d] \ {lh[d][k]}
      BY <3>1 DEF TypeOK
    <3>3. pc[t] = "install" /\ k \in Nat
      BY <1>9 DEF InstallTrans, TypeOK
    <3>q. QED BY <3>1, <3>2, <3>3
  <2>3. \A x \in Threads : pc[x] = "install" => x = t
    BY <2>2 DEF CommitterOK, Committing
  <2>4. /\ head[d] = lh[d] /\ pinned[d] = {lh[d][i] : i \in {j \in DOMAIN lh[d] : j >= k}}
        /\ \A i \in DOMAIN lh[d] : disk[d][i] = Bread(d, lh[d][i])
    BY <2>2 DEF InstallStage
  <2>5. \A i \in DOMAIN lh[d] : i \in Nat /\ lh[d][i] \in Addrs /\ (lh[d][i] = lh[d][k] => i = k)
    BY <2>2, IndexOf DEF HeaderOK, Once
  <2>6. tail'[t] = k + 1
    BY <1>9 DEF InstallTrans, TypeOK
  <2>7. pinned'[d] = {lh[d][i] : i \in {j \in DOMAIN lh[d] : j >= k + 1}}
    BY <2>2, <2>4, <2>5
  <2>8. ASSUME NEW i \in DOMAIN lh[d]
        PROVE  disk'[d][i] = (IF cache'[d][lh[d][i]] # None THEN cache'[d][lh[d][i]] ELSE disk'[d][lh[d][i]])
    <3>1. \A f \in Devs, z \in Addrs : (IF cache'[f][z] # None THEN cache'[f][z] ELSE disk'[f][z]) = Bread(f, z)
      BY <2>1 DEF Bread
    <3>q. QED BY <2>0, <2>2, <2>4, <2>5, <3>1
  <2>9. ASSUME NEW x \in Threads, pc[x] = "install"
        PROVE  /\ head'[dev[x]] = lh[dev[x]]
               /\ pinned'[dev[x]] = {lh[dev[x]][i] : i \in {j \in DOMAIN lh[dev[x]] : j >= tail'[x]}}
               /\ \A i \in DOMAIN lh[dev[x]] : disk'[dev[x]][i] =
                    (IF cache'[dev[x]][lh[dev[x]][i]] # None THEN cache'[dev[x]][lh[dev[x]][i]] ELSE disk'[dev[x]][lh[dev[x]][i]])
    BY <2>0, <2>3, <2>4, <2>6, <2>7, <2>8, <2>9
  <2>q. QED BY <2>0, <2>9 DEF InstallStage, Bread
<1>10. ASSUME NEW t \in Threads, BsyncPop(t) PROVE InstallStage'
  BY <1>10 DEF TypeOK, ThreadsOK, InstallStage, CommitterOK, Committing, Bread, BsyncPop,
     logvars, bufvars, diskvars
<1>11. ASSUME NEW t \in Threads, BsyncWrite(t) PROVE InstallStage'
  <2>0. UNCHANGED <<mnt, outstanding, committing, lh, waitq, pc, dev,
                      mine, tail, tempq, cache, pinned, dirtyList, head>>
    BY <1>11 DEF BsyncWrite, logvars, bufvars, diskvars
  <2>1. \A e \in Devs, x \in Addrs : Bread(e, x)' = Bread(e, x)
    BY <1>11, BreadKept
  <2>2. SUFFICES ASSUME NEW x \in Threads, pc[x] = "install"
        PROVE  /\ head'[dev'[x]] = lh'[dev'[x]]
               /\ pinned'[dev'[x]] = {lh'[dev'[x]][i] : i \in {j \in DOMAIN lh'[dev'[x]] : j >= tail'[x]}}
               /\ \A i \in DOMAIN lh'[dev'[x]] : disk'[dev'[x]][i] = Bread(dev[x], lh[dev[x]][i])'
    BY <2>0 DEF InstallStage
  <2>3. dev[x] \in Devs
    BY <2>2, DevOf
  <2>4. \A i \in DOMAIN lh[dev[x]] : disk'[dev[x]][i] = disk[dev[x]][i]
    <3>1. PICK a \in Addrs : Dirty(dev[t], a) /\ \A y \in Addrs : disk'[dev[t]][y] = IF y = a THEN cache[dev[t]][a] ELSE disk[dev[t]][y]
      BY <1>11, BsyncWriteEffect
    <3>2. x = t
      BY <1>11, <2>2, BsyncWriteEffect DEF InBsync, CommitterOK, Committing
    <3>3. PICK j \in DOMAIN lh[dev[t]] : a = lh[dev[t]][j]
      <4>1. PICK u \in Threads : dev[u] = dev[t] /\ \/ pc[u] = "writelog"
                                                    \/ \E j \in DOMAIN lh[dev[t]] : a = lh[dev[t]][j]
        BY <2>3, <3>1, <3>2 DEF DirtyOK
      <4>2. pc[u] # "writelog"
        BY <2>2 DEF CommitterOK, Committing
      <4>q. QED BY <4>1, <4>2
    <3>q. QED BY <2>3, <3>1, <3>2, <3>3, IndexOf
  <2>5. \A i \in DOMAIN lh[dev[x]] : lh[dev[x]][i] \in Addrs
    BY <2>3, IndexOf
  <2>6. /\ head[dev[x]] = lh[dev[x]]
        /\ pinned[dev[x]] = {lh[dev[x]][i] : i \in {j \in DOMAIN lh[dev[x]] : j >= tail[x]}}
        /\ \A i \in DOMAIN lh[dev[x]] : disk[dev[x]][i] = Bread(dev[x], lh[dev[x]][i])
    BY <2>2 DEF InstallStage
  <2>7. ASSUME NEW i \in DOMAIN lh[dev[x]] PROVE disk'[dev[x]][i] = Bread(dev[x], lh[dev[x]][i])'
    <3>1. lh[dev[x]][i] \in Addrs /\ dev[x] \in Devs
      BY <2>3, <2>5
    <3> DEFINE e == dev[x]
               y == lh[e][i]
    <3>2. Bread(dev[x], lh[dev[x]][i])' = (IF cache'[e][y] # None THEN cache'[e][y] ELSE disk'[e][y])
      BY <2>0 DEF Bread
    <3>3. \A f \in Devs, z \in Addrs : (IF cache'[f][z] # None THEN cache'[f][z] ELSE disk'[f][z]) = Bread(f, z)
      BY <2>1 DEF Bread
    <3>4. (IF cache'[e][y] # None THEN cache'[e][y] ELSE disk'[e][y]) = Bread(e, y)
      BY <3>1, <3>3
    <3>q. QED BY <2>4, <2>6, <3>2, <3>4
  <2>q. QED BY <2>0, <2>6, <2>7
<1>12. ASSUME NEW t \in Threads, BsyncDone(t) PROVE InstallStage'
  BY <1>12 DEF TypeOK, ThreadsOK, InstallStage, CommitterOK, Committing, Bread, BsyncDone,
     InBsync, logvars, bufvars, diskvars
<1>13. ASSUME NEW t \in Threads, WriteHead(t) PROVE InstallStage'
  <2>0. UNCHANGED <<mnt, outstanding, committing, lh, waitq, dev, mine,
                      tail, flight, tempq, cache, pinned, dirtyList, disk>>
    BY <1>13 DEF WriteHead, logvars, bufvars, diskvars
  <2> DEFINE d == dev[t]
  <2>1. d \in Devs /\ pc[t] = "commit"
    BY <1>13, DevOf DEF WriteHead
  <2>2. \A x \in Threads : pc'[x] = "install" => x = t
    BY <1>13, <2>1 DEF CommitterOK, Committing, WriteHead, TypeOK
  <2>3. head'[d] = lh[d]
    BY <1>13, <2>1 DEF WriteHead, TypeOK
  <2>4. /\ pinned[d] = Range(lh[d]) /\ tail[t] = 1
        /\ \A i \in DOMAIN lh[d] : disk[d][i] = cache[d][lh[d][i]]
    BY <2>1 DEF CommitStage
  <2>5. \A i \in DOMAIN lh[d] : i \in Nat /\ i >= 1 /\ lh[d][i] \in Addrs /\ lh[d][i] \in Range(lh[d])
    BY <2>1, IndexOf
  <2>6. pinned[d] = {lh[d][i] : i \in {j \in DOMAIN lh[d] : j >= 1}}
    BY <2>4, <2>5 DEF Range
  <2>7. \A i \in DOMAIN lh[d] : disk[d][i] = Bread(d, lh[d][i])
    BY <2>1, <2>4, <2>5 DEF Coherent, Bread
  <2>8. ASSUME NEW x \in Threads, pc'[x] = "install"
        PROVE  /\ head'[dev[x]] = lh[dev[x]]
               /\ pinned[dev[x]] = {lh[dev[x]][i] : i \in {j \in DOMAIN lh[dev[x]] : j >= tail[x]}}
               /\ \A i \in DOMAIN lh[dev[x]] : disk[dev[x]][i] = Bread(dev[x], lh[dev[x]][i])
    BY <2>2, <2>3, <2>4, <2>6, <2>7, <2>8
  <2>q. QED BY <2>0, <2>8 DEF InstallStage, Bread
<1>14. ASSUME NEW t \in Threads, EraseHead(t) PROVE InstallStage'
  BY <1>14 DEF TypeOK, ThreadsOK, InstallStage, CommitterOK, Committing, Bread, EraseHead,
     logvars, bufvars, diskvars
<1>15. ASSUME NEW t \in Threads, Release(t) PROVE InstallStage'
  BY <1>15 DEF TypeOK, ThreadsOK, InstallStage, CommitterOK, Committing, Bread, Release, logvars,
     bufvars, diskvars
<1>16. ASSUME NEW t \in Threads, NEW u \in Threads, WakeOne(t, u) PROVE InstallStage'
  BY <1>16 DEF TypeOK, ThreadsOK, InstallStage, CommitterOK, Committing, Bread, WakeOne, logvars,
     bufvars, diskvars
<1>17. ASSUME NEW t \in Threads, WakeDone(t) PROVE InstallStage'
  BY <1>17 DEF TypeOK, ThreadsOK, InstallStage, CommitterOK, Committing, Bread, WakeDone,
     logvars, bufvars, diskvars
<1>18. ASSUME NEW d \in Devs, NEW a \in Addrs, Recycle(d, a) PROVE InstallStage'
  <2>0. UNCHANGED <<mnt, outstanding, committing, lh, waitq, pc, dev,
                      mine, tail, flight, tempq, pinned, dirtyList, disk, head>>
    BY <1>18 DEF Recycle, logvars, bufvars, diskvars
  <2>1. \A e \in Devs, x \in Addrs : Bread(e, x)' = Bread(e, x)
    BY <1>18, BreadKept
  <2>2. SUFFICES ASSUME NEW x \in Threads, pc[x] = "install"
        PROVE  /\ head'[dev'[x]] = lh'[dev'[x]]
               /\ pinned'[dev'[x]] = {lh'[dev'[x]][i] : i \in {j \in DOMAIN lh'[dev'[x]] : j >= tail'[x]}}
               /\ \A i \in DOMAIN lh'[dev'[x]] : disk'[dev'[x]][i] = Bread(dev[x], lh[dev[x]][i])'
    BY <2>0 DEF InstallStage
  <2>3. dev[x] \in Devs
    BY <2>2, DevOf
  <2>4. \A i \in DOMAIN lh[dev[x]] : disk'[dev[x]][i] = disk[dev[x]][i]
    BY <2>0
  <2>5. \A i \in DOMAIN lh[dev[x]] : lh[dev[x]][i] \in Addrs
    BY <2>3, IndexOf
  <2>6. /\ head[dev[x]] = lh[dev[x]]
        /\ pinned[dev[x]] = {lh[dev[x]][i] : i \in {j \in DOMAIN lh[dev[x]] : j >= tail[x]}}
        /\ \A i \in DOMAIN lh[dev[x]] : disk[dev[x]][i] = Bread(dev[x], lh[dev[x]][i])
    BY <2>2 DEF InstallStage
  <2>7. ASSUME NEW i \in DOMAIN lh[dev[x]] PROVE disk'[dev[x]][i] = Bread(dev[x], lh[dev[x]][i])'
    <3>1. lh[dev[x]][i] \in Addrs /\ dev[x] \in Devs
      BY <2>3, <2>5
    <3> DEFINE e == dev[x]
               y == lh[e][i]
    <3>2. Bread(dev[x], lh[dev[x]][i])' = (IF cache'[e][y] # None THEN cache'[e][y] ELSE disk'[e][y])
      BY <2>0 DEF Bread
    <3>3. \A f \in Devs, z \in Addrs : (IF cache'[f][z] # None THEN cache'[f][z] ELSE disk'[f][z]) = Bread(f, z)
      BY <2>1 DEF Bread
    <3>4. (IF cache'[e][y] # None THEN cache'[e][y] ELSE disk'[e][y]) = Bread(e, y)
      BY <3>1, <3>3
    <3>q. QED BY <2>4, <2>6, <3>2, <3>4
  <2>q. QED BY <2>0, <2>6, <2>7
<1>19. ASSUME Crash PROVE InstallStage'
  BY <1>19 DEF TypeOK, ThreadsOK, InstallStage, CommitterOK, Committing, Bread, Crash, diskvars
<1>20. ASSUME UNCHANGED vars PROVE InstallStage'
  BY <1>20 DEF TypeOK, ThreadsOK, InstallStage, CommitterOK, Committing, Bread, vars, logvars,
     bufvars, diskvars
<1>q. QED BY <1>1, <1>2, <1>3, <1>4, <1>5, <1>6, <1>7, <1>8, <1>9, <1>10, <1>11, <1>12, <1>13,
     <1>14, <1>15, <1>16, <1>17, <1>18, <1>19, <1>20 DEF Next, MountStep, CommitStep

\* When the header is cleared every home block is on the disk.
LEMMA EraseStageStep ==
    ASSUME OneFs, LInv, [Next]_vars
    PROVE  EraseStage'
<1> USE DEF LInv
<1>1. ASSUME NEW d \in Devs, ReadHead(d) PROVE EraseStage'
  BY <1>1 DEF TypeOK, ThreadsOK, EraseStage, CommitterOK, Committing, ReadHead, logvars, bufvars,
     diskvars
<1>2. ASSUME NEW d \in Devs, RecoverBlock(d) PROVE EraseStage'
  BY <1>2 DEF TypeOK, ThreadsOK, EraseStage, CommitterOK, Committing, RecoverBlock, Bread,
     logvars, bufvars, diskvars
<1>3. ASSUME NEW d \in Devs, RecoverErase(d) PROVE EraseStage'
  BY <1>3 DEF TypeOK, ThreadsOK, EraseStage, CommitterOK, Committing, RecoverErase, logvars,
     bufvars, diskvars
<1>4. ASSUME NEW t \in Threads, NEW d \in Devs, BeginOp(t, d) PROVE EraseStage'
  BY <1>4 DEF TypeOK, ThreadsOK, EraseStage, CommitterOK, Committing, BeginOp, AtBegin, Admit,
     logvars, bufvars, diskvars
<1>5. ASSUME NEW t \in Threads, NEW d \in Devs, BeginWait(t, d) PROVE EraseStage'
  BY <1>5 DEF TypeOK, ThreadsOK, EraseStage, CommitterOK, Committing, BeginWait, AtBegin,
     logvars, bufvars, diskvars
<1>6. ASSUME NEW t \in Threads, NEW b \in Blocks, NEW v \in Values, LogWrite(t, b, v)
      PROVE  EraseStage'
  <2>1. \A x \in Threads : pc'[x] \notin {"erase", "release"}
    BY <1>6, LogWriteEffect, NoCommitter DEF LogWrite, Committing
  <2>q. QED BY <2>1 DEF EraseStage
<1>7. ASSUME NEW t \in Threads, EndOp(t) PROVE EraseStage'
  <2>0. UNCHANGED <<mnt, lh, waitq, dev, flight, tempq, cache,
                      pinned, dirtyList, disk, head>>
    BY <1>7 DEF EndOp, logvars, bufvars, diskvars
  <2>1. dev[t] \in Devs /\ mnt[dev[t]] = "up" /\ ~committing[dev[t]]
    BY <1>7, DevOf DEF EndOp
  <2>2. \A x \in Threads : pc[x] \notin Committing
    BY <2>1, NoCommitter
  <2>3. head[dev[t]] = <<>> /\ pinned[dev[t]] = Range(lh[dev[t]])
    BY <2>1 DEF OpStage
  <2>4. ASSUME NEW x \in Threads, pc'[x] \in {"erase", "release"}
        PROVE  pc'[x] = "release" /\ x = t /\ lh[dev[t]] = <<>>
    <3>1. x = t
      BY <1>7, <2>2, <2>4 DEF EndOp, TypeOK, Committing
    <3>2. pc'[t] = IF outstanding[dev[t]] > 1 THEN "idle" ELSE IF lh[dev[t]] = <<>> THEN "release" ELSE "writelog"
      BY <1>7 DEF EndOp, TypeOK
    <3>q. QED BY <2>4, <3>1, <3>2
  <2>q. QED BY <2>0, <2>3, <2>4, EmptyRange DEF EraseStage
<1>8. ASSUME NEW t \in Threads, WriteLog(t) PROVE EraseStage'
  BY <1>8 DEF TypeOK, ThreadsOK, EraseStage, CommitterOK, Committing, WriteLog, Bread, logvars,
     bufvars, diskvars
<1>9. ASSUME NEW t \in Threads, InstallTrans(t) PROVE EraseStage'
  BY <1>9 DEF TypeOK, ThreadsOK, EraseStage, CommitterOK, Committing, InstallTrans, Bread,
     logvars, bufvars, diskvars
<1>10. ASSUME NEW t \in Threads, BsyncPop(t) PROVE EraseStage'
  BY <1>10 DEF TypeOK, ThreadsOK, EraseStage, CommitterOK, Committing, BsyncPop, logvars,
     bufvars, diskvars
<1>11. ASSUME NEW t \in Threads, BsyncWrite(t) PROVE EraseStage'
  <2>1. \A x \in Threads : pc'[x] \notin {"erase", "release"}
    BY <1>11, BsyncWriteEffect DEF BsyncWrite, logvars, InBsync, CommitterOK, Committing
  <2>q. QED BY <2>1 DEF EraseStage
<1>12. ASSUME NEW t \in Threads, BsyncDone(t) PROVE EraseStage'
  <2>0. UNCHANGED <<mnt, outstanding, committing, lh, waitq, dev, mine,
                      flight, tempq, cache, pinned, dirtyList, disk, head>>
    BY <1>12 DEF BsyncDone, InBsync, logvars, bufvars, diskvars
  <2>1. InBsync(t) /\ dirtyList = <<>> /\ pc[t] \in Committing
    BY <1>12 DEF BsyncDone, InBsync, Committing
  <2>2. ASSUME NEW x \in Threads, pc'[x] \in {"erase", "release"}
        PROVE  /\ pc'[x] = "erase" /\ head[dev[x]] = lh[dev[x]] /\ pinned[dev[x]] = {}
               /\ \A i \in DOMAIN lh[dev[x]] : disk[dev[x]][i] = disk[dev[x]][lh[dev[x]][i]]
    <3>2. x = t /\ pc[t] = "install" /\ pc'[x] = "erase"
      BY <1>12, <2>1, <2>2 DEF BsyncDone, InBsync, TypeOK, CommitterOK, Committing
    <3> DEFINE d == dev[t]
    <3>3. d \in Devs /\ tail[t] > Len(lh[d]) /\ lh[d] \in Seq(Blocks) /\ tail[t] \in Nat
      BY <2>1, <3>2, DevOf DEF InBsync, TypeOK
    <3>4. \A u \in Threads : flight[u] = None
      BY <1>12, <2>1 DEF BsyncDone, DirtyOK, InBsync, CommitterOK, Committing
    <3>5. \A i \in DOMAIN lh[d] : i \in Nat /\ ~(i >= tail[t]) /\ lh[d][i] \in Addrs
      BY <3>3, IndexOf
    <3>6. \A i \in DOMAIN lh[d] : ~Dirty(d, lh[d][i])
      BY <2>1, <3>3, <3>4, <3>5, EmptyRange, NamesAssumption DEF Dirty
    <3>7. /\ head[d] = lh[d] /\ pinned[d] = {lh[d][i] : i \in {j \in DOMAIN lh[d] : j >= tail[t]}}
          /\ \A i \in DOMAIN lh[d] : disk[d][i] = Bread(d, lh[d][i])
      BY <3>2 DEF InstallStage
    <3>8. pinned[d] = {}
      BY <3>5, <3>7
    <3>9. \A i \in DOMAIN lh[d] : Bread(d, lh[d][i]) = disk[d][lh[d][i]]
      BY <3>3, <3>5, <3>6, <3>8 DEF Coherent, Bread
    <3>q. QED BY <3>2, <3>7, <3>8, <3>9
  <2>q. QED BY <2>0, <2>2 DEF EraseStage
<1>13. ASSUME NEW t \in Threads, WriteHead(t) PROVE EraseStage'
  BY <1>13 DEF TypeOK, ThreadsOK, EraseStage, CommitterOK, Committing, WriteHead, logvars,
     bufvars, diskvars
<1>14. ASSUME NEW t \in Threads, EraseHead(t) PROVE EraseStage'
  BY <1>14 DEF TypeOK, ThreadsOK, EraseStage, CommitterOK, Committing, EraseHead, logvars,
     bufvars, diskvars
<1>15. ASSUME NEW t \in Threads, Release(t) PROVE EraseStage'
  BY <1>15 DEF TypeOK, ThreadsOK, EraseStage, CommitterOK, Committing, Release, logvars, bufvars,
     diskvars
<1>16. ASSUME NEW t \in Threads, NEW u \in Threads, WakeOne(t, u) PROVE EraseStage'
  BY <1>16 DEF TypeOK, ThreadsOK, EraseStage, CommitterOK, Committing, WakeOne, logvars, bufvars,
     diskvars
<1>17. ASSUME NEW t \in Threads, WakeDone(t) PROVE EraseStage'
  BY <1>17 DEF TypeOK, ThreadsOK, EraseStage, CommitterOK, Committing, WakeDone, logvars,
     bufvars, diskvars
<1>18. ASSUME NEW d \in Devs, NEW a \in Addrs, Recycle(d, a) PROVE EraseStage'
  BY <1>18 DEF TypeOK, ThreadsOK, EraseStage, CommitterOK, Committing, Recycle, logvars, bufvars,
     diskvars
<1>19. ASSUME Crash PROVE EraseStage'
  BY <1>19 DEF TypeOK, ThreadsOK, EraseStage, CommitterOK, Committing, Crash, diskvars
<1>20. ASSUME UNCHANGED vars PROVE EraseStage'
  BY <1>20 DEF TypeOK, ThreadsOK, EraseStage, CommitterOK, Committing, vars, logvars, bufvars,
     diskvars
<1>q. QED BY <1>1, <1>2, <1>3, <1>4, <1>5, <1>6, <1>7, <1>8, <1>9, <1>10, <1>11, <1>12, <1>13,
     <1>14, <1>15, <1>16, <1>17, <1>18, <1>19, <1>20 DEF Next, MountStep, CommitStep

\* Which steps start or end an operation, or change what is logged.
LEMMA OpsCases ==
    ASSUME LInv, [Next]_vars
    PROVE  \/ \E t \in Threads, d \in Devs : BeginOp(t, d)
           \/ \E t \in Threads : EndOp(t)
           \/ Crash
           \/ /\ \A e \in Devs : OpsOn(e)' = OpsOn(e)
              /\ outstanding' = outstanding /\ \A e \in Devs : committing'[e] => committing[e]
              /\ \/ lh' = lh /\ mine' = mine
                 \/ \E d \in Devs : ReadHead(d) \/ RecoverErase(d)
                 \/ \E t \in Threads, b \in Blocks, v \in Values : LogWrite(t, b, v)
                 \/ \E t \in Threads : EraseHead(t)
<1> USE DEF LInv
<1> DEFINE Kept == /\ \A e \in Devs : OpsOn(e)' = OpsOn(e)
                   /\ outstanding' = outstanding
                   /\ \A e \in Devs : committing'[e] => committing[e]
<1>1. ASSUME NEW d \in Devs, ReadHead(d) PROVE Kept
  BY <1>1, OpsKept DEF ReadHead, logvars
<1>2. ASSUME NEW d \in Devs, RecoverBlock(d) PROVE Kept /\ lh' = lh /\ mine' = mine
  BY <1>2, OpsKept DEF RecoverBlock, logvars
<1>3. ASSUME NEW d \in Devs, RecoverErase(d) PROVE Kept
  BY <1>3, OpsKept DEF RecoverErase, logvars
<1>5. ASSUME NEW t \in Threads, NEW d \in Devs, BeginWait(t, d)
      PROVE  Kept /\ lh' = lh /\ mine' = mine
  BY <1>5 DEF BeginWait, AtBegin, logvars, OpsOn, TypeOK, ThreadsOK
<1>6. ASSUME NEW t \in Threads, NEW b \in Blocks, NEW v \in Values, LogWrite(t, b, v) PROVE Kept
  BY <1>6, OpsKept DEF LogWrite, logvars
<1>8. ASSUME NEW t \in Threads, WriteLog(t) PROVE Kept /\ lh' = lh /\ mine' = mine
  BY <1>8, OpsKept DEF WriteLog, logvars
<1>9. ASSUME NEW t \in Threads, InstallTrans(t) PROVE Kept /\ lh' = lh /\ mine' = mine
  BY <1>9, OpsKept DEF InstallTrans, logvars
<1>10. ASSUME NEW t \in Threads, BsyncPop(t) PROVE Kept /\ lh' = lh /\ mine' = mine
  BY <1>10, OpsKept DEF BsyncPop, logvars
<1>11. ASSUME NEW t \in Threads, BsyncWrite(t) PROVE Kept /\ lh' = lh /\ mine' = mine
  BY <1>11, OpsKept DEF BsyncWrite, logvars
<1>12. ASSUME NEW t \in Threads, BsyncDone(t) PROVE Kept /\ lh' = lh /\ mine' = mine
  BY <1>12 DEF BsyncDone, InBsync, logvars, OpsOn, TypeOK, ThreadsOK
<1>13. ASSUME NEW t \in Threads, WriteHead(t) PROVE Kept /\ lh' = lh /\ mine' = mine
  BY <1>13 DEF WriteHead, logvars, OpsOn, TypeOK, ThreadsOK
<1>14. ASSUME NEW t \in Threads, EraseHead(t) PROVE Kept
  BY <1>14 DEF EraseHead, logvars, OpsOn, TypeOK, ThreadsOK
<1>15. ASSUME NEW t \in Threads, Release(t) PROVE Kept /\ lh' = lh /\ mine' = mine
  BY <1>15 DEF Release, logvars, OpsOn, TypeOK, ThreadsOK
<1>16. ASSUME NEW t \in Threads, NEW u \in Threads, WakeOne(t, u)
       PROVE  Kept /\ lh' = lh /\ mine' = mine
  BY <1>16 DEF WakeOne, logvars, OpsOn, TypeOK, ThreadsOK
<1>17. ASSUME NEW t \in Threads, WakeDone(t) PROVE Kept /\ lh' = lh /\ mine' = mine
  BY <1>17 DEF WakeDone, logvars, OpsOn, TypeOK, ThreadsOK
<1>18. ASSUME NEW d \in Devs, NEW a \in Addrs, Recycle(d, a)
       PROVE  Kept /\ lh' = lh /\ mine' = mine
  BY <1>18, OpsKept DEF Recycle, logvars
<1>20. ASSUME UNCHANGED vars PROVE Kept /\ lh' = lh /\ mine' = mine
  BY <1>20, OpsKept DEF vars, logvars
<1>q. QED BY <1>1, <1>2, <1>3, <1>5, <1>6, <1>8, <1>9, <1>10, <1>11, <1>12, <1>13, <1>14, <1>15,
     <1>16, <1>17, <1>18, <1>20 DEF Next, MountStep, CommitStep

\* outstanding stays the number of operations, and a commit stays alone.
LEMMA CommitExcludesOpsStep ==
    ASSUME OneFs, LInv, [Next]_vars
    PROVE  CommitExcludesOps'
<1> USE DEF LInv
<1>0. ASSUME \A e \in Devs : OpsOn(e)' = OpsOn(e), outstanding' = outstanding,
              \A e \in Devs : committing'[e] => committing[e]
      PROVE  CommitExcludesOps'
  BY <1>0 DEF CommitExcludesOps
<1>4. ASSUME NEW t \in Threads, NEW d \in Devs, BeginOp(t, d) PROVE CommitExcludesOps'
  <2>0. UNCHANGED <<mnt, committing, lh, waitq, tail, flight, tempq,
                      cache, pinned, dirtyList, disk, head>>
    BY <1>4 DEF BeginOp, AtBegin, Admit, logvars, bufvars, diskvars
  <2>1. pc[t] # "op" /\ ~committing[d]
    BY <1>4 DEF BeginOp, AtBegin
  <2>2. OpsOn(d)' = OpsOn(d) \cup {t} /\ t \notin OpsOn(d)
    BY <1>4, <2>1 DEF BeginOp, Admit, OpsOn, TypeOK
  <2>3. Cardinality(OpsOn(d) \cup {t}) = Cardinality(OpsOn(d)) + 1
    BY <2>2, OpsFinite, FS_AddElement
  <2>4. outstanding'[d] = outstanding[d] + 1 /\ \A e \in Devs : e = d
    BY <1>4 DEF BeginOp, Admit, TypeOK, OneFs
  <2>q. QED BY <2>0, <2>1, <2>2, <2>3, <2>4 DEF CommitExcludesOps
<1>7. ASSUME NEW t \in Threads, EndOp(t) PROVE CommitExcludesOps'
  <2>0. UNCHANGED <<mnt, lh, waitq, dev, flight, tempq, cache,
                      pinned, dirtyList, disk, head>>
    BY <1>7 DEF EndOp, logvars, bufvars, diskvars
  <2> DEFINE d == dev[t]
  <2>1. d \in Devs /\ pc[t] = "op" /\ t \in OpsOn(d)
    BY <1>7, DevOf DEF EndOp, OpsOn
  <2>2. pc'[t] # "op" /\ \A x \in Threads : x # t => pc'[x] = pc[x]
    BY <1>7 DEF EndOp, TypeOK
  <2>3. \A e \in Devs : OpsOn(e)' = OpsOn(e) \ {t} /\ e = d
    BY <2>0, <2>1, <2>2 DEF OpsOn, OneFs
  <2>4. Cardinality(OpsOn(d) \ {t}) = Cardinality(OpsOn(d)) - 1 /\ IsFiniteSet(OpsOn(d) \ {t})
    BY <2>1, OpsFinite, FS_RemoveElement
  <2>5. outstanding'[d] = outstanding[d] - 1 /\ committing'[d] = (outstanding[d] = 1)
    BY <1>7, <2>1 DEF EndOp, TypeOK
  <2>6. outstanding'[d] = Cardinality(OpsOn(d) \ {t})
    BY <2>1, <2>4, <2>5 DEF CommitExcludesOps
  <2>7. committing'[d] => OpsOn(d) \ {t} = {}
    <3>1. ASSUME committing'[d] PROVE Cardinality(OpsOn(d) \ {t}) = 0
      <4>1. outstanding[d] = 1
        BY <3>1, <2>5
      <4>q. QED BY <4>1, <2>1, <2>4 DEF CommitExcludesOps
    <3>q. QED BY <3>1, <2>4, FS_EmptySet
  <2>8. ASSUME NEW e \in Devs
        PROVE  outstanding'[e] = Cardinality(OpsOn(e)') /\ (committing'[e] => OpsOn(e)' = {})
    BY <2>3, <2>6, <2>7
  <2>q. QED BY <2>8 DEF CommitExcludesOps
<1>19. ASSUME Crash PROVE CommitExcludesOps'
  <2>1. \A e \in Devs : OpsOn(e)' = {} /\ outstanding'[e] = 0
    BY <1>19 DEF Crash, OpsOn
  <2>q. QED BY <2>1, FS_EmptySet DEF CommitExcludesOps
<1>q. QED BY <1>0, <1>4, <1>7, <1>19, OpsCases

\* An operation that ends leaves no more than it reserved.
LEMMA ReservationsFitStep ==
    ASSUME OneFs, LInv, [Next]_vars
    PROVE  ReservationsFit'
<1> USE DEF LInv
<1>0. ASSUME \A e \in Devs : OpsOn(e)' = OpsOn(e), outstanding' = outstanding, lh' = lh, mine' = mine
      PROVE  ReservationsFit'
  <2>1. \A e \in Devs : Leftover(e)' = Leftover(e)
    BY <1>0 DEF Leftover
  <2>q. QED BY <1>0, <2>1 DEF ReservationsFit
<1>1. ASSUME NEW d \in Devs, ReadHead(d) PROVE ReservationsFit'
  <2>0. UNCHANGED <<outstanding, committing, waitq, pc, dev, mine, flight,
                      tempq, cache, pinned, dirtyList, disk, head>>
    BY <1>1 DEF ReadHead, logvars, bufvars, diskvars
  <2>1. \A e \in Devs : OpsOn(e)' = OpsOn(e)
    BY <2>0, OpsKept
  <2>2. \A e \in Devs : e = d /\ lh'[e] = head[d] /\ OpsOn(e) = {} /\ outstanding[e] = 0
    <3>1. OpsOn(d) = {} /\ lh'[d] = head[d]
      BY <1>1, NoOps DEF ReadHead, TypeOK
    <3>2. outstanding[d] = 0
      BY <3>1, FS_EmptySet DEF CommitExcludesOps
    <3>q. QED BY <3>1, <3>2 DEF OneFs
  <2>3. Range(head[d]) \in SUBSET Range(head[d]) /\ head[d] \in Seq(Blocks) /\ Len(head[d]) <= LogSize
    BY EmptyHeader, SizesAssumption DEF TypeOK, HeaderOK
  <2>4. \A e \in Devs : Leftover(e)' = Range(head[d])
    BY <2>1, <2>2 DEF Leftover
  <2>5. Cardinality(Range(head[d])) \in Nat /\ Cardinality(Range(head[d])) <= LogSize
    BY <2>3, RangeBound, EmptyRange, FS_EmptySet, SizesAssumption
  <2>6. \A e \in Devs : Cardinality(Leftover(e)') + outstanding'[e] * MaxOpBlocks <= LogSize
    BY <2>0, <2>2, <2>4, <2>5, SizesAssumption
  <2>q. QED BY <2>1, <2>2, <2>6 DEF ReservationsFit
<1>3. ASSUME NEW d \in Devs, RecoverErase(d) PROVE ReservationsFit'
  <2>0. UNCHANGED <<outstanding, committing, waitq, pc, dev, mine, flight,
                      tempq, cache, pinned, dirtyList, disk>>
    BY <1>3 DEF RecoverErase, logvars, bufvars, diskvars
  <2>1. \A e \in Devs : OpsOn(e)' = OpsOn(e)
    BY <2>0, OpsKept
  <2>2. \A e \in Devs : e = d /\ lh'[e] = <<>> /\ OpsOn(e) = {} /\ outstanding[e] = 0
    <3>1. OpsOn(d) = {} /\ lh'[d] = <<>>
      BY <1>3, NoOps DEF RecoverErase, TypeOK
    <3>2. outstanding[d] = 0
      BY <3>1, FS_EmptySet DEF CommitExcludesOps
    <3>q. QED BY <3>1, <3>2 DEF OneFs
  <2>3. Range(<<>>) \in SUBSET Range(<<>>) /\ <<>> \in Seq(Blocks) /\ Len(<<>>) <= LogSize
    BY EmptyHeader, SizesAssumption DEF TypeOK, HeaderOK
  <2>4. \A e \in Devs : Leftover(e)' = Range(<<>>)
    BY <2>1, <2>2 DEF Leftover
  <2>5. Cardinality(Range(<<>>)) \in Nat /\ Cardinality(Range(<<>>)) <= LogSize
    BY <2>3, RangeBound, EmptyRange, FS_EmptySet, SizesAssumption
  <2>6. \A e \in Devs : Cardinality(Leftover(e)') + outstanding'[e] * MaxOpBlocks <= LogSize
    BY <2>0, <2>2, <2>4, <2>5, SizesAssumption
  <2>q. QED BY <2>1, <2>2, <2>6 DEF ReservationsFit
<1>4. ASSUME NEW t \in Threads, NEW d \in Devs, BeginOp(t, d) PROVE ReservationsFit'
  <2>0. UNCHANGED <<mnt, committing, lh, waitq, tail, flight, tempq,
                      cache, pinned, dirtyList, disk, head>>
    BY <1>4 DEF BeginOp, AtBegin, Admit, logvars, bufvars, diskvars
  <2>1. pc[t] # "op" /\ Len(lh[d]) + (outstanding[d] + 1) * MaxOpBlocks <= LogSize
    BY <1>4, SizesAssumption DEF BeginOp, AtBegin, LogTight, TypeOK
  <2>2. OpsOn(d)' = OpsOn(d) \cup {t} /\ OpsOn(d) \subseteq Threads /\ t \notin OpsOn(d)
    BY <1>4, <2>1 DEF BeginOp, Admit, OpsOn, TypeOK
  <2>3. outstanding'[d] = outstanding[d] + 1 /\ \A e \in Devs : e = d
    BY <1>4 DEF BeginOp, Admit, TypeOK, OneFs
  <2>4. mine'[t] = {} /\ \A x \in Threads : x # t => mine'[x] = mine[x]
    BY <1>4 DEF BeginOp, Admit, TypeOK
  <2>5. \A x \in OpsOn(d)' : Cardinality(mine'[x]) <= MaxOpBlocks
    <3>1. Cardinality(mine'[t]) <= MaxOpBlocks
      BY <2>4, FS_EmptySet, SizesAssumption
    <3>2. \A x \in OpsOn(d) : Cardinality(mine[x]) <= MaxOpBlocks
      BY DEF ReservationsFit
    <3>q. QED BY <2>2, <2>4, <3>1, <3>2
  <2>6. Leftover(d)' \subseteq Range(lh[d])
    BY <2>0 DEF Leftover
  <2>7. Cardinality(Leftover(d)') <= Len(lh[d]) /\ Cardinality(Leftover(d)') \in Nat /\ Len(lh[d]) \in Nat
    <3>1. lh[d] \in Seq(Blocks)
      BY DEF TypeOK
    <3>2. IsFiniteSet(Range(lh[d])) /\ Cardinality(Range(lh[d])) \in Nat /\ Cardinality(Range(lh[d])) <= Len(lh[d])
      BY <3>1, RangeBound
    <3>3. Cardinality(Leftover(d)') <= Cardinality(Range(lh[d])) /\ Cardinality(Leftover(d)') \in Nat
      BY <2>6, <3>2, FS_Subset, FS_CardinalityType
    <3>q. QED BY <3>1, <3>2, <3>3
  <2>8. (outstanding[d] + 1) * MaxOpBlocks \in Nat
    BY SizesAssumption DEF TypeOK
  <2>9. Cardinality(Leftover(d)') + outstanding'[d] * MaxOpBlocks <= LogSize
    BY <2>1, <2>3, <2>7, <2>8, SizesAssumption
  <2>q. QED BY <2>3, <2>5, <2>9 DEF ReservationsFit
<1>6. ASSUME NEW t \in Threads, NEW b \in Blocks, NEW v \in Values, LogWrite(t, b, v)
      PROVE  ReservationsFit'
  <2>0. UNCHANGED <<mnt, outstanding, committing, waitq, pc, dev, tail,
                      flight, tempq, dirtyList, disk, head>>
    BY <1>6 DEF LogWrite, logvars, bufvars, diskvars
  <2>1. \A e \in Devs : OpsOn(e)' = OpsOn(e)
    BY <2>0, OpsKept
  <2> DEFINE d == dev[t]
  <2>2. d \in Devs /\ pc[t] = "op" /\ Range(lh'[d]) = Range(lh[d]) \cup {b} /\ t \in OpsOn(d)
    BY <1>6, LogWriteEffect DEF OpsOn
  <2>3. \A e \in Devs : e = d
    BY <2>2 DEF OneFs
  <2>4. mine'[t] = mine[t] \cup {b} /\ \A x \in Threads : x # t => mine'[x] = mine[x]
    BY <1>6 DEF LogWrite, TypeOK
  <2>5. Cardinality(mine'[t]) <= MaxOpBlocks
    BY <1>6, <2>4 DEF LogWrite
  <2>6. OpsOn(d) \subseteq Threads
    BY DEF OpsOn
  <2>7. Leftover(d)' \subseteq Leftover(d)
    <3>1. OpsOn(dev[t])' = OpsOn(dev[t])
      BY <2>0 DEF OpsOn
    <3>2. ASSUME NEW y \in Leftover(d)' PROVE y \in Leftover(d)
      <4>1. y \in Range(lh'[d]) /\ \A x \in OpsOn(d) : y \notin mine'[x]
        BY <2>0, <3>1, <3>2 DEF Leftover
      <4>2. y # b /\ \A x \in OpsOn(d) : y \notin mine[x]
        BY <2>2, <2>4, <2>6, <4>1
      <4>q. QED BY <4>1, <4>2, <2>2 DEF Leftover
    <3>q. QED BY <3>2
  <2>8. IsFiniteSet(Leftover(d))
    BY <2>2, RangeBound, FS_Subset DEF Leftover, TypeOK
  <2>9. Cardinality(Leftover(d)') <= Cardinality(Leftover(d)) /\ Cardinality(Leftover(d)') \in Nat /\ Cardinality(Leftover(d)) \in Nat
    BY <2>7, <2>8, FS_Subset, FS_CardinalityType
  <2>10. Cardinality(Leftover(d)) + outstanding[d] * MaxOpBlocks <= LogSize /\ \A x \in OpsOn(d) : Cardinality(mine[x]) <= MaxOpBlocks
    BY <2>2 DEF ReservationsFit
  <2>11. outstanding[d] * MaxOpBlocks \in Nat
    BY <2>2, SizesAssumption DEF TypeOK
  <2>12. Cardinality(Leftover(d)') + outstanding[d] * MaxOpBlocks <= LogSize
    BY <2>9, <2>10, <2>11, SizesAssumption
  <2>13. \A x \in OpsOn(d) : Cardinality(mine'[x]) <= MaxOpBlocks
    BY <2>4, <2>5, <2>6, <2>10
  <2>14. ASSUME NEW e \in Devs
        PROVE  /\ \A x \in OpsOn(e)' : Cardinality(mine'[x]) <= MaxOpBlocks
               /\ Cardinality(Leftover(e)') + outstanding'[e] * MaxOpBlocks <= LogSize
    <3>1. e = d /\ OpsOn(e)' = OpsOn(d) /\ outstanding'[e] = outstanding[d]
      BY <2>0, <2>1, <2>3
    <3>2. Leftover(e)' = Leftover(dev[t])'
      BY <2>0, <3>1 DEF Leftover, OpsOn
    <3>q. QED BY <3>1, <3>2, <2>12, <2>13
  <2>q. QED BY <2>14 DEF ReservationsFit
<1>7. ASSUME NEW t \in Threads, EndOp(t) PROVE ReservationsFit'
  <2>0. UNCHANGED <<mnt, lh, waitq, dev, flight, tempq, cache,
                      pinned, dirtyList, disk, head>>
    BY <1>7 DEF EndOp, logvars, bufvars, diskvars
  <2> DEFINE d == dev[t]
  <2>1. d \in Devs /\ pc[t] = "op" /\ t \in OpsOn(d)
    BY <1>7, DevOf DEF EndOp, OpsOn
  <2>2. pc'[t] # "op" /\ \A x \in Threads : x # t => pc'[x] = pc[x]
    BY <1>7 DEF EndOp, TypeOK
  <2>3. \A e \in Devs : OpsOn(e)' = OpsOn(e) \ {t} /\ e = d
    BY <2>0, <2>1, <2>2 DEF OpsOn, OneFs
  <2>4. \A x \in Threads : x # t => mine'[x] = mine[x]
    BY <1>7 DEF EndOp, TypeOK
  <2>5. OpsOn(d) \subseteq Threads
    BY DEF OpsOn
  <2>6. IsFiniteSet(Range(lh[d])) /\ mine[t] \subseteq Range(lh[d])
    BY <2>1, RangeBound DEF TypeOK, HeaderOK
  <2>7. IsFiniteSet(Leftover(d)) /\ IsFiniteSet(mine[t])
    BY <2>6, FS_Subset DEF Leftover
  <2>8. ASSUME NEW e \in Devs PROVE Leftover(e)' \subseteq Leftover(d) \cup mine[t]
    <3>1. SUFFICES ASSUME NEW y \in Leftover(e)', y \notin mine[t] PROVE y \in Leftover(d)
      OBVIOUS
    <3>2. y \in Range(lh[d]) /\ \A x \in OpsOn(d) \ {t} : y \notin mine'[x]
      BY <2>0, <2>3, <3>1 DEF Leftover
    <3>3. \A x \in OpsOn(d) : y \notin mine[x]
      BY <2>4, <2>5, <3>1, <3>2
    <3>q. QED BY <3>2, <3>3 DEF Leftover
  <2>9. /\ Cardinality(Leftover(d)) + outstanding[d] * MaxOpBlocks <= LogSize
        /\ Cardinality(mine[t]) <= MaxOpBlocks /\ \A x \in OpsOn(d) : Cardinality(mine[x]) <= MaxOpBlocks
    BY <2>1 DEF ReservationsFit
  <2>10. outstanding'[d] = outstanding[d] - 1 /\ outstanding[d] \in Nat
    BY <1>7, <2>1 DEF EndOp, TypeOK
  <2>11. ASSUME NEW e \in Devs
         PROVE  Cardinality(Leftover(e)') + outstanding'[e] * MaxOpBlocks <= LogSize
    <3>1. /\ Cardinality(Leftover(d) \cup mine[t]) <= Cardinality(Leftover(d)) + Cardinality(mine[t])
          /\ IsFiniteSet(Leftover(d) \cup mine[t])
      <4>1. Cardinality(Leftover(d) \cap mine[t]) \in Nat /\ Cardinality(Leftover(d)) \in Nat /\ Cardinality(mine[t]) \in Nat
        BY <2>7, FS_Intersection, FS_CardinalityType
      <4>q. QED BY <4>1, <2>7, FS_Union
    <3>2. Cardinality(Leftover(e)') <= Cardinality(Leftover(d) \cup mine[t]) /\ Cardinality(Leftover(e)') \in Nat
      BY <2>8, <3>1, FS_Subset, FS_CardinalityType
    <3>3. Cardinality(Leftover(d)) \in Nat /\ Cardinality(mine[t]) \in Nat /\ Cardinality(Leftover(d) \cup mine[t]) \in Nat
      BY <2>7, <3>1, FS_CardinalityType
    <3>4. Cardinality(Leftover(e)') <= Cardinality(Leftover(d)) + MaxOpBlocks
      BY <3>1, <3>2, <3>3, <2>9, SizesAssumption
    <3>5. outstanding[d] * MaxOpBlocks = (outstanding[d] - 1) * MaxOpBlocks + MaxOpBlocks
      BY <2>10, SizesAssumption
    <3>6. outstanding'[e] * MaxOpBlocks = (outstanding[d] - 1) * MaxOpBlocks /\ (outstanding[d] - 1) * MaxOpBlocks \in Int
      BY <2>3, <2>10, SizesAssumption
    <3> DEFINE m == (outstanding[d] - 1) * MaxOpBlocks
               n == outstanding[d] * MaxOpBlocks
    <3> HIDE DEF m, n
    <3>7. n = m + MaxOpBlocks /\ m \in Int /\ outstanding'[e] * MaxOpBlocks = m /\ Cardinality(Leftover(d)) + n <= LogSize
      BY <3>5, <3>6, <2>9 DEF m, n
    <3>q. QED BY <3>2, <3>3, <3>4, <3>7, SizesAssumption
  <2>12. ASSUME NEW e \in Devs, NEW x \in OpsOn(e)' PROVE Cardinality(mine'[x]) <= MaxOpBlocks
    BY <2>3, <2>4, <2>5, <2>9, <2>12
  <2>q. QED BY <2>11, <2>12 DEF ReservationsFit
<1>14. ASSUME NEW t \in Threads, EraseHead(t) PROVE ReservationsFit'
  <2>0. UNCHANGED <<mnt, outstanding, committing, waitq, dev, mine, tail,
                      flight, tempq, cache, pinned, dirtyList, disk>>
    BY <1>14 DEF EraseHead, logvars, bufvars, diskvars
  <2>1. \A e \in Devs : OpsOn(e)' = OpsOn(e)
    BY <1>14, <2>0 DEF EraseHead, OpsOn, TypeOK, ThreadsOK
  <2>2. dev[t] \in Devs /\ pc[t] = "erase"
    BY <1>14, DevOf DEF EraseHead
  <2>3. OpsOn(dev[t]) = {} /\ lh'[dev[t]] = <<>>
    <3>1. committing[dev[t]]
      BY <2>2 DEF CommitterOK, Committing
    <3>2. OpsOn(dev[t]) = {}
      BY <2>2, <3>1, NoOps
    <3>q. QED BY <1>14, <2>2, <3>2 DEF EraseHead, TypeOK
  <2>4. outstanding[dev[t]] = 0
    BY <2>2, <2>3, FS_EmptySet DEF CommitExcludesOps
  <2>5. \A e \in Devs : e = dev[t]
    BY <2>2 DEF OneFs
  <2>6. \A e \in Devs : Leftover(e)' = {}
    BY <2>3, <2>5, EmptyRange DEF Leftover
  <2>7. \A e \in Devs : Cardinality(Leftover(e)') + outstanding'[e] * MaxOpBlocks <= LogSize
    BY <2>0, <2>4, <2>5, <2>6, FS_EmptySet, SizesAssumption
  <2>q. QED BY <2>1, <2>3, <2>5, <2>7 DEF ReservationsFit
<1>19. ASSUME Crash PROVE ReservationsFit'
  <2>1. \A e \in Devs : OpsOn(e)' = {} /\ outstanding'[e] = 0 /\ lh'[e] = <<>>
    BY <1>19 DEF Crash, OpsOn
  <2>2. \A e \in Devs : Leftover(e)' = {}
    BY <2>1, EmptyRange DEF Leftover
  <2>3. \A e \in Devs : Cardinality(Leftover(e)') + outstanding'[e] * MaxOpBlocks <= LogSize
    <3>1. Cardinality({}) = 0 /\ 0 * MaxOpBlocks = 0 /\ 0 <= LogSize
      BY FS_EmptySet, SizesAssumption
    <3>2. ASSUME NEW e \in Devs
          PROVE  Cardinality(Leftover(e)') = 0 /\ outstanding'[e] * MaxOpBlocks = 0
      BY <2>1, <2>2, <3>1
    <3>q. QED BY <3>1, <3>2, SizesAssumption
  <2>q. QED BY <2>1, <2>3 DEF ReservationsFit
<1>q. QED BY <1>0, <1>1, <1>3, <1>4, <1>6, <1>7, <1>14, <1>19, OpsCases

\* A sleeper keeps somebody who will wake it.
LEMMA NoStrandedWaiterStep ==
    ASSUME OneFs, LInv, [Next]_vars
    PROVE  NoStrandedWaiter'
<1> USE DEF LInv
<1>1. ASSUME NEW d \in Devs, ReadHead(d) PROVE NoStrandedWaiter'
  BY <1>1 DEF TypeOK, ThreadsOK, NoStrandedWaiter, ReadHead, logvars, bufvars, diskvars
<1>2. ASSUME NEW d \in Devs, RecoverBlock(d) PROVE NoStrandedWaiter'
  BY <1>2 DEF TypeOK, ThreadsOK, NoStrandedWaiter, RecoverBlock, Bread, logvars, bufvars, diskvars
<1>3. ASSUME NEW d \in Devs, RecoverErase(d) PROVE NoStrandedWaiter'
  BY <1>3 DEF TypeOK, ThreadsOK, NoStrandedWaiter, RecoverErase, logvars, bufvars, diskvars
<1>4. ASSUME NEW t \in Threads, NEW d \in Devs, BeginOp(t, d) PROVE NoStrandedWaiter'
  BY <1>4 DEF TypeOK, ThreadsOK, NoStrandedWaiter, BeginOp, AtBegin, Admit, logvars, bufvars,
     diskvars
<1>5. ASSUME NEW t \in Threads, NEW d \in Devs, BeginWait(t, d) PROVE NoStrandedWaiter'
  <2>0. UNCHANGED <<mnt, outstanding, committing, lh, mine, tail, flight,
                      tempq, cache, pinned, dirtyList, disk, head>>
    BY <1>5 DEF BeginWait, AtBegin, logvars, bufvars, diskvars
  <2>1. pc[t] # "wake" /\ (committing[d] \/ outstanding[d] > 0)
    <3>1. CASE committing[d]
      BY <1>5, <3>1 DEF BeginWait, AtBegin
    <3>2. CASE ~committing[d] /\ outstanding[d] = 0
      <4>1. lh[d] = <<>> /\ LogTight(d)
        BY <1>5, <3>2 DEF BeginWait, AtBegin, OpStage
      <4>q. QED BY <4>1, <3>2, EmptyHeader, SizesAssumption DEF LogTight
    <3>q. QED BY <1>5, <3>1, <3>2 DEF BeginWait, AtBegin, TypeOK
  <2>2. t \in waitq'[d] /\ dev'[t] = d /\ \A e \in Devs : waitq[e] \subseteq waitq'[e]
    BY <1>5 DEF BeginWait, TypeOK
  <2>3. \A x \in Threads : x # t => pc'[x] = pc[x] /\ dev'[x] = dev[x]
    BY <1>5 DEF BeginWait, TypeOK
  <2>4. \A x \in Threads : pc[x] = "wait" => dev[x] \in Devs
    BY DevOf
  <2>q. QED BY <2>0, <2>1, <2>2, <2>3, <2>4 DEF NoStrandedWaiter
<1>6. ASSUME NEW t \in Threads, NEW b \in Blocks, NEW v \in Values, LogWrite(t, b, v)
      PROVE  NoStrandedWaiter'
  BY <1>6 DEF TypeOK, ThreadsOK, NoStrandedWaiter, LogWrite, logvars, bufvars, diskvars
<1>7. ASSUME NEW t \in Threads, EndOp(t) PROVE NoStrandedWaiter'
  <2>0. UNCHANGED <<mnt, lh, waitq, dev, flight, tempq, cache,
                      pinned, dirtyList, disk, head>>
    BY <1>7 DEF EndOp, logvars, bufvars, diskvars
  <2>1. dev[t] \in Devs /\ pc[t] = "op" /\ ~committing[dev[t]] /\ t \in OpsOn(dev[t])
    BY <1>7, DevOf DEF EndOp, OpsOn
  <2>2. outstanding[dev[t]] \in Nat /\ outstanding[dev[t]] > 0
    BY <2>1, OpsFinite, FS_EmptySet DEF CommitExcludesOps, TypeOK
  <2>3. \A e \in Devs : e = dev[t] /\ outstanding'[e] = outstanding[e] - 1 /\ (outstanding[e] = 1 => committing'[e])
    BY <1>7, <2>1 DEF EndOp, TypeOK, OneFs
  <2>4. pc'[t] # "wait" /\ \A x \in Threads : x # t => pc'[x] = pc[x]
    BY <1>7 DEF EndOp, TypeOK
  <2>5. \A e \in Devs : committing'[e] \/ outstanding'[e] > 0
    BY <2>2, <2>3
  <2>6. \A x \in Threads : pc'[x] = "wait" => pc[x] = "wait" /\ dev[x] \in Devs
    BY <2>4, DevOf
  <2>7. \A c \in Threads : pc[c] = "wake" => pc'[c] = "wake"
    BY <2>1, <2>4
  <2>q. QED BY <2>0, <2>5, <2>6, <2>7 DEF NoStrandedWaiter
<1>8. ASSUME NEW t \in Threads, WriteLog(t) PROVE NoStrandedWaiter'
  BY <1>8 DEF TypeOK, ThreadsOK, NoStrandedWaiter, WriteLog, Bread, logvars, bufvars, diskvars
<1>9. ASSUME NEW t \in Threads, InstallTrans(t) PROVE NoStrandedWaiter'
  BY <1>9 DEF TypeOK, ThreadsOK, NoStrandedWaiter, InstallTrans, Bread, logvars, bufvars, diskvars
<1>10. ASSUME NEW t \in Threads, BsyncPop(t) PROVE NoStrandedWaiter'
  BY <1>10 DEF TypeOK, ThreadsOK, NoStrandedWaiter, BsyncPop, logvars, bufvars, diskvars
<1>11. ASSUME NEW t \in Threads, BsyncWrite(t) PROVE NoStrandedWaiter'
  BY <1>11 DEF TypeOK, ThreadsOK, NoStrandedWaiter, BsyncWrite, logvars, bufvars, diskvars
<1>12. ASSUME NEW t \in Threads, BsyncDone(t) PROVE NoStrandedWaiter'
  BY <1>12 DEF TypeOK, ThreadsOK, NoStrandedWaiter, BsyncDone, InBsync, logvars, bufvars, diskvars
<1>13. ASSUME NEW t \in Threads, WriteHead(t) PROVE NoStrandedWaiter'
  BY <1>13 DEF TypeOK, ThreadsOK, NoStrandedWaiter, WriteHead, logvars, bufvars, diskvars
<1>14. ASSUME NEW t \in Threads, EraseHead(t) PROVE NoStrandedWaiter'
  BY <1>14 DEF TypeOK, ThreadsOK, NoStrandedWaiter, EraseHead, logvars, bufvars, diskvars
<1>15. ASSUME NEW t \in Threads, Release(t) PROVE NoStrandedWaiter'
  BY <1>15 DEF TypeOK, ThreadsOK, NoStrandedWaiter, Release, logvars, bufvars, diskvars
<1>16. ASSUME NEW t \in Threads, NEW u \in Threads, WakeOne(t, u) PROVE NoStrandedWaiter'
  <2>0. UNCHANGED <<mnt, outstanding, committing, lh, waitq, dev, mine,
                      tail, flight, cache, pinned, dirtyList, disk, head>>
    BY <1>16 DEF WakeOne, logvars, bufvars, diskvars
  <2>1. pc[t] = "wake" /\ u \in tempq[t] /\ pc[u] = "wait"
    BY <1>16 DEF WakeOne, ThreadsOK
  <2>2. pc'[u] = "begin" /\ \A x \in Threads : x # u => pc'[x] = pc[x]
    BY <1>16 DEF WakeOne, TypeOK
  <2>3. \A c \in Threads, x \in Threads : x # u /\ x \in tempq[c] => x \in tempq'[c]
    BY <1>16 DEF WakeOne, TypeOK
  <2>4. \A c \in Threads : pc[c] = "wake" => pc'[c] = "wake"
    BY <2>1, <2>2
  <2>q. QED BY <2>0, <2>2, <2>3, <2>4 DEF NoStrandedWaiter
<1>17. ASSUME NEW t \in Threads, WakeDone(t) PROVE NoStrandedWaiter'
  BY <1>17 DEF TypeOK, ThreadsOK, NoStrandedWaiter, WakeDone, logvars, bufvars, diskvars
<1>18. ASSUME NEW d \in Devs, NEW a \in Addrs, Recycle(d, a) PROVE NoStrandedWaiter'
  BY <1>18 DEF TypeOK, ThreadsOK, NoStrandedWaiter, Recycle, logvars, bufvars, diskvars
<1>19. ASSUME Crash PROVE NoStrandedWaiter'
  BY <1>19 DEF TypeOK, ThreadsOK, NoStrandedWaiter, Crash, diskvars
<1>20. ASSUME UNCHANGED vars PROVE NoStrandedWaiter'
  BY <1>20 DEF TypeOK, ThreadsOK, NoStrandedWaiter, vars, logvars, bufvars, diskvars
<1>q. QED BY <1>1, <1>2, <1>3, <1>4, <1>5, <1>6, <1>7, <1>8, <1>9, <1>10, <1>11, <1>12, <1>13,
     <1>14, <1>15, <1>16, <1>17, <1>18, <1>19, <1>20 DEF Next, MountStep, CommitStep

----------------------------------------------------------------------------
\* What a recovery makes of a header and the contents of the disk.
Recovered(h, k, b) == IF b \in Range(h) THEN k[CHOOSE i \in DOMAIN h : h[i] = b] ELSE k[b]
\* The contents of a block as its users see it.
Seen(d, b) == IF mnt[d] = "up" THEN Bread(d, b) ELSE DurableBlock(d, b)

LEMMA RecoveredIs ==
    ASSUME NEW h, NEW k, NEW b, Once(h)
    PROVE  /\ \A i \in DOMAIN h : h[i] = b => Recovered(h, k, b) = k[i]
           /\ b \notin Range(h) => Recovered(h, k, b) = k[b]
<1>1. ASSUME NEW i \in DOMAIN h, h[i] = b PROVE Recovered(h, k, b) = k[i]
  <2>1. b \in Range(h)
    BY <1>1 DEF Range
  <2>2. \A j \in DOMAIN h : h[j] = b => j = i
    BY <1>1 DEF Once
  <2>3. (CHOOSE j \in DOMAIN h : h[j] = b) = i
    BY <1>1, <2>2
  <2>q. QED BY <2>1, <2>3 DEF Recovered
<1>q. QED BY <1>1 DEF Recovered

LEMMA DurableIs ==
    /\ \A d \in Devs, b \in Blocks : DurableBlock(d, b) = Recovered(head[d], disk[d], b)
    /\ \A d \in Devs, b \in Blocks : DurableBlock(d, b)' = Recovered(head'[d], disk'[d], b)
BY DEF DurableBlock, Recovered

LEMMA ViewsAre ==
    /\ CurrentView = [d \in Devs |-> [b \in Blocks |-> Seen(d, b)]]
    /\ CurrentView' = [d \in Devs |-> [b \in Blocks |-> Seen(d, b)']]
    /\ DurableView = [d \in Devs |-> [b \in Blocks |-> DurableBlock(d, b)]]
    /\ DurableView' = [d \in Devs |-> [b \in Blocks |-> DurableBlock(d, b)']]
<1>1. /\ DurableView = [d \in Devs |-> [b \in Blocks |-> DurableBlock(d, b)]]
      /\ DurableView' = [d \in Devs |-> [b \in Blocks |-> DurableBlock(d, b)']]
  BY DEF DurableView
<1>2. CurrentView = [d \in Devs |-> [b \in Blocks |-> Seen(d, b)]]
  <2>1. ASSUME NEW d \in Devs
        PROVE  (IF mnt[d] = "up" THEN [b \in Blocks |-> Bread(d, b)] ELSE DurableView[d])
                  = [b \in Blocks |-> Seen(d, b)]
    BY <1>1 DEF Seen
  <2>q. QED BY <2>1 DEF CurrentView
<1>3. CurrentView' = [d \in Devs |-> [b \in Blocks |-> Seen(d, b)']]
  <2>1. ASSUME NEW d \in Devs
        PROVE  (IF mnt'[d] = "up" THEN [b \in Blocks |-> Bread(d, b)'] ELSE DurableView'[d])
                  = [b \in Blocks |-> Seen(d, b)']
    BY <1>1 DEF Seen
  <2>q. QED BY <2>1 DEF CurrentView
<1>q. QED BY <1>1, <1>2, <1>3

\* A step that leaves what is seen, what is durable and who runs as they are is a
\* stuttering step of AtomicDisk.
LEMMA Stutters ==
    ASSUME \A d \in Devs, b \in Blocks : DurableBlock(d, b)' = DurableBlock(d, b),
           \A d \in Devs, b \in Blocks : Seen(d, b)' = Seen(d, b),
           \A d \in Devs : OpsOn(d)' = OpsOn(d)
    PROVE  UNCHANGED Abstract!avars
<1>1. CurrentView' = CurrentView
  BY ViewsAre
<1>2. DurableView' = DurableView
  BY ViewsAre
<1>3. [d \in Devs |-> OpsOn(d)]' = [d \in Devs |-> OpsOn(d)]
  OBVIOUS
<1>q. QED BY <1>1, <1>2, <1>3 DEF Abstract!avars

LEMMA ViewsKept ==
    ASSUME mnt' = mnt, cache' = cache, disk' = disk, head' = head
    PROVE  /\ \A d \in Devs, b \in Blocks : DurableBlock(d, b)' = DurableBlock(d, b)
           /\ \A d \in Devs, b \in Blocks : Seen(d, b)' = Seen(d, b)
<1>1. \A d \in Devs, b \in Blocks : DurableBlock(d, b)' = DurableBlock(d, b)
  BY DurableIs
<1>2. \A d \in Devs, b \in Blocks : Bread(d, b)' = Bread(d, b)
  BY DEF Bread
<1>q. QED BY <1>1, <1>2 DEF Seen

\* A buffer nobody pinned and nobody has to write back is as on the disk.
LEMMA CleanIsDurable ==
    ASSUME LInv, NEW d \in Devs, NEW x \in Addrs, x \notin pinned[d], ~Dirty(d, x)
    PROVE  Bread(d, x) = disk[d][x]
BY DEF LInv, Coherent, Bread

\* No buffer is dirty outside of the two copying stages of a commit.
LEMMA NothingDirty ==
    ASSUME LInv, NEW d \in Devs, NEW x \in Addrs,
           \A t \in Threads : dev[t] = d => pc[t] \notin {"writelog", "install"}
    PROVE  ~Dirty(d, x)
BY DEF LInv, DirtyOK


LEMMA AtomicStep ==
    ASSUME OneFs, LInv, [Next]_vars
    PROVE  [Abstract!ANext]_(Abstract!avars)
<1> USE DEF LInv
<1>1. ASSUME NEW d \in Devs, ReadHead(d)
       PROVE  [Abstract!ANext]_(Abstract!avars)
  <2>0. UNCHANGED <<outstanding, committing, waitq, pc, dev, mine, flight,
                      tempq, cache, pinned, dirtyList, disk, head>>
    BY <1>1 DEF ReadHead, logvars, bufvars, diskvars
  <2>1. \A e \in Devs : OpsOn(e)' = OpsOn(e)
    BY <2>0, OpsKept
  <2>2. \A e \in Devs, y \in Blocks : DurableBlock(e, y)' = DurableBlock(e, y)
    BY <2>0, DurableIs
  <2>3. \A e \in Devs, y \in Blocks : Seen(e, y)' = Seen(e, y)
    <3>1. \A e \in Devs : mnt[e] # "up" /\ mnt'[e] # "up"
      BY <1>1 DEF ReadHead, OneFs, TypeOK
    <3>q. QED BY <2>2, <3>1 DEF Seen
  <2>4. UNCHANGED Abstract!avars
    BY <2>1, <2>2, <2>3, Stutters
  <2>q. QED BY <2>4
<1>2. ASSUME NEW d \in Devs, RecoverBlock(d)
       PROVE  [Abstract!ANext]_(Abstract!avars)
  <2>0. UNCHANGED <<mnt, outstanding, committing, lh, waitq, pc, dev,
                      mine, flight, tempq, pinned, dirtyList, head>>
    BY <1>2 DEF RecoverBlock, logvars, bufvars, diskvars
  <2>1. \A e \in Devs : OpsOn(e)' = OpsOn(e)
    BY <2>0, OpsKept
  <2>2. ASSUME NEW e \in Devs, NEW y \in Blocks PROVE DurableBlock(e, y)' = DurableBlock(e, y)
    <3> DEFINE b == lh[d][tail[d]]
    <3>1. e = d /\ head'[d] = head[d] /\ mnt[d] = "install"
      BY <1>2, <2>0 DEF OneFs, RecoverBlock
    <3>2. head[d] = lh[d] /\ Once(head[d]) /\ lh[d] \in Seq(Blocks)
      BY <3>1 DEF MountStage, HeaderOK, TypeOK
    <3>3. tail[d] \in DOMAIN lh[d] /\ \A x \in Addrs : disk'[d][x] = IF x = b THEN disk[d][tail[d]] ELSE disk[d][x]
      BY <1>2, RecoverBlockEffect
    <3>4. b \in Range(head[d]) /\ b \notin Slots /\ y \in Addrs /\ \A i \in DOMAIN head[d] : i \in Addrs /\ i # b
      BY <3>2, <3>3, IndexOf DEF Addrs
    <3>5. CASE y \in Range(head[d])
      <4>1. PICK i \in DOMAIN head[d] : head[d][i] = y
        BY <3>5 DEF Range
      <4>2. disk'[d][i] = disk[d][i]
        BY <3>3, <3>4, <4>1
      <4>q. QED BY <3>1, <3>2, <4>1, <4>2, DurableIs, RecoveredIs
    <3>6. CASE y \notin Range(head[d])
      <4>1. disk'[d][y] = disk[d][y]
        BY <3>3, <3>4, <3>6
      <4>q. QED BY <3>1, <3>2, <3>6, <4>1, DurableIs, RecoveredIs
    <3>q. QED BY <3>5, <3>6
  <2>3. \A e \in Devs, y \in Blocks : Seen(e, y)' = Seen(e, y)
    <3>1. \A e \in Devs : mnt[e] # "up" /\ mnt'[e] # "up"
      BY <1>2, <2>0 DEF RecoverBlock, OneFs
    <3>q. QED BY <2>2, <3>1 DEF Seen
  <2>4. UNCHANGED Abstract!avars
    BY <2>1, <2>2, <2>3, Stutters
  <2>q. QED BY <2>4
<1>3. ASSUME NEW d \in Devs, RecoverErase(d)
       PROVE  [Abstract!ANext]_(Abstract!avars)
  <2>0. UNCHANGED <<outstanding, committing, waitq, pc, dev, mine, flight,
                      tempq, cache, pinned, dirtyList, disk>>
    BY <1>3 DEF RecoverErase, logvars, bufvars, diskvars
  <2>1. \A e \in Devs : OpsOn(e)' = OpsOn(e)
    BY <2>0, OpsKept
  <2>a. /\ mnt[d] = "install" /\ mnt'[d] = "up" /\ head'[d] = <<>> /\ tail[d] > Len(lh[d])
        /\ lh[d] \in Seq(Blocks) /\ head[d] = lh[d] /\ Once(head[d]) /\ tail[d] \in Nat
        /\ \A e \in Devs : e = d
    BY <1>3 DEF RecoverErase, TypeOK, MountStage, HeaderOK, OneFs
  <2>b. \A i \in DOMAIN lh[d] : disk[d][lh[d][i]] = disk[d][i]
    <3>1. \A i \in DOMAIN lh[d] : i < tail[d]
      BY <2>a
    <3>q. QED BY <3>1, <2>a DEF MountStage
  <2>c. ASSUME NEW y \in Blocks
        PROVE  DurableBlock(d, y) = disk[d][y] /\ DurableBlock(d, y)' = disk[d][y]
    <3>1. DurableBlock(d, y)' = disk[d][y]
      BY <2>0, <2>a, EmptyHeader, EmptyRange, RecoveredIs, DurableIs
    <3>2. DurableBlock(d, y) = disk[d][y]
      <4>1. CASE y \in Range(head[d])
        <5>1. PICK i \in DOMAIN head[d] : head[d][i] = y
          BY <4>1 DEF Range
        <5>q. QED BY <5>1, <2>a, <2>b, RecoveredIs, DurableIs
      <4>2. CASE y \notin Range(head[d])
        BY <4>2, <2>a, RecoveredIs, DurableIs
      <4>q. QED BY <4>1, <4>2
    <3>q. QED BY <3>1, <3>2
  <2>2. \A e \in Devs, y \in Blocks : DurableBlock(e, y)' = DurableBlock(e, y)
    BY <2>a, <2>c
  <2>3. \A e \in Devs, y \in Blocks : Seen(e, y)' = Seen(e, y)
    <3>1. ASSUME NEW y \in Blocks PROVE Bread(d, y)' = disk[d][y]
      <4>1. y \in Addrs /\ pinned[d] = {}
        BY <2>a DEF Addrs, MountStage
      <4>2. \A x \in Threads : dev[x] = d => pc[x] \notin {"writelog", "install"}
        BY <2>a DEF ThreadsOK
      <4>3. Bread(d, y) = disk[d][y]
        BY <4>1, <4>2, NothingDirty, CleanIsDurable
      <4>q. QED BY <2>0, <4>3 DEF Bread
    <3>q. QED BY <2>a, <2>c, <3>1 DEF Seen
  <2>4. UNCHANGED Abstract!avars
    BY <2>1, <2>2, <2>3, Stutters
  <2>q. QED BY <2>4
<1>4. ASSUME NEW t \in Threads, NEW d \in Devs, BeginOp(t, d)
       PROVE  [Abstract!ANext]_(Abstract!avars)
  <2>0. UNCHANGED <<mnt, committing, lh, waitq, tail, flight, tempq,
                      cache, pinned, dirtyList, disk, head>>
    BY <1>4 DEF BeginOp, AtBegin, Admit, logvars, bufvars, diskvars
  <2>1. pc[t] # "op" /\ pc'[t] = "op" /\ dev'[t] = d
    BY <1>4 DEF BeginOp, AtBegin, Admit, TypeOK
  <2>2. \A e \in Devs : t \notin OpsOn(e)
    BY <2>1 DEF OpsOn
  <2>3. \A e \in Devs : OpsOn(e)' = IF e = d THEN OpsOn(d) \cup {t} ELSE OpsOn(e)
    BY <1>4, <2>1 DEF BeginOp, Admit, OpsOn, TypeOK
  <2>4. CurrentView' = CurrentView /\ DurableView' = DurableView
    BY <2>0, ViewsKept, ViewsAre
  <2>5. Abstract!Begin(t, d)
    BY <2>2, <2>3, <2>4 DEF Abstract!Begin
  <2>q. QED BY <2>5 DEF Abstract!ANext
<1>5. ASSUME NEW t \in Threads, NEW d \in Devs, BeginWait(t, d)
       PROVE  [Abstract!ANext]_(Abstract!avars)
  <2>0. UNCHANGED <<mnt, outstanding, committing, lh, mine, tail, flight,
                      tempq, cache, pinned, dirtyList, disk, head>>
    BY <1>5 DEF BeginWait, AtBegin, logvars, bufvars, diskvars
  <2>1. \A e \in Devs : OpsOn(e)' = OpsOn(e)
    BY <1>5, <2>0 DEF BeginWait, AtBegin, OpsOn, TypeOK, ThreadsOK
  <2>2. UNCHANGED Abstract!avars
    BY <2>0, <2>1, ViewsKept, Stutters
  <2>q. QED BY <2>2
<1>6. ASSUME NEW t \in Threads, NEW b \in Blocks, NEW v \in Values, LogWrite(t, b, v)
       PROVE  [Abstract!ANext]_(Abstract!avars)
  <2>0. UNCHANGED <<mnt, outstanding, committing, waitq, pc, dev, tail,
                      flight, tempq, dirtyList, disk, head>>
    BY <1>6 DEF LogWrite, logvars, bufvars, diskvars
  <2>1. \A e \in Devs : OpsOn(e)' = OpsOn(e)
    BY <2>0, OpsKept
  <2> DEFINE d == dev[t]
  <2>2. d \in Devs /\ mnt[d] = "up" /\ t \in OpsOn(d)
    BY <1>6, LogWriteEffect DEF OpsOn
  <2>3. \A x \in Addrs : cache'[d][x] = IF x = b THEN v ELSE cache[d][x]
    BY <1>6, LogWriteEffect
  <2> HIDE DEF d
  <2>4. \A e \in Devs : e = d
    BY <2>2 DEF OneFs
  <2>5. DurableView' = DurableView
    BY <2>0, DurableIs, ViewsAre
  <2>6. \A e \in Devs, y \in Blocks : Bread(e, y)' = IF y = b THEN v ELSE Bread(e, y)
    <3>1. v # None
      BY NamesAssumption
    <3>2. \A e \in Devs, y \in Blocks : cache'[e][y] = IF y = b THEN v ELSE cache[e][y]
      BY <2>2, <2>3, <2>4 DEF Addrs
    <3>q. QED BY <2>0, <3>1, <3>2 DEF Bread
  <2>7. \A e \in Devs, y \in Blocks : Seen(e, y)' = IF e = d /\ y = b THEN v ELSE Seen(e, y)
    <3>1. \A e \in Devs, y \in Blocks : Seen(e, y)' = Bread(e, y)' /\ Seen(e, y) = Bread(e, y)
      BY <2>0, <2>2, <2>4 DEF Seen
    <3>q. QED BY <2>4, <2>6, <3>1
  <2>8. CurrentView' = [CurrentView EXCEPT ![d][b] = v]
    BY <2>2, <2>7, ViewsAre
  <2>9. Abstract!Write(t, d, b, v)
    BY <2>1, <2>2, <2>5, <2>8 DEF Abstract!Write
  <2>q. QED BY <2>2, <2>9 DEF Abstract!ANext
<1>7. ASSUME NEW t \in Threads, EndOp(t)
       PROVE  [Abstract!ANext]_(Abstract!avars)
  <2>0. UNCHANGED <<mnt, lh, waitq, dev, flight, tempq, cache,
                      pinned, dirtyList, disk, head>>
    BY <1>7 DEF EndOp, logvars, bufvars, diskvars
  <2>1. dev[t] \in Devs /\ t \in OpsOn(dev[t])
    BY <1>7, DevOf DEF EndOp, OpsOn
  <2>2. pc'[t] # "op" /\ \A x \in Threads : x # t => pc'[x] = pc[x]
    BY <1>7 DEF EndOp, TypeOK
  <2>3. \A e \in Devs : OpsOn(e)' = IF e = dev[t] THEN OpsOn(e) \ {t} ELSE OpsOn(e)
    BY <2>0, <2>2 DEF OpsOn
  <2>4. CurrentView' = CurrentView /\ DurableView' = DurableView
    BY <2>0, ViewsKept, ViewsAre
  <2>5. Abstract!End(t, dev[t])
    <3> DEFINE d == dev[t]
    <3> HIDE DEF d
    <3>1. d \in Devs /\ t \in OpsOn(d) /\ \A e \in Devs : OpsOn(e)' = IF e = d THEN OpsOn(e) \ {t} ELSE OpsOn(e)
      BY <2>1, <2>3 DEF d
    <3>2. Abstract!End(t, d)
      BY <2>4, <3>1 DEF Abstract!End
    <3>q. QED BY <3>2 DEF d
  <2>q. QED BY <2>1, <2>5 DEF Abstract!ANext
<1>8. ASSUME NEW t \in Threads, WriteLog(t)
       PROVE  [Abstract!ANext]_(Abstract!avars)
  <2>0. UNCHANGED <<mnt, outstanding, committing, lh, waitq, pc, dev,
                      mine, flight, tempq, pinned, disk, head>>
    BY <1>8 DEF WriteLog, logvars, bufvars, diskvars
  <2>1. \A e \in Devs : OpsOn(e)' = OpsOn(e)
    BY <2>0, OpsKept
  <2>2. \A e \in Devs, y \in Blocks : DurableBlock(e, y)' = DurableBlock(e, y)
    BY <2>0, DurableIs
  <2>3. \A e \in Devs, y \in Blocks : Seen(e, y)' = Seen(e, y)
    <3>1. dev[t] \in Devs /\ tail[t] \in DOMAIN lh[dev[t]]
          /\ \A x \in Addrs : x # tail[t] => cache'[dev[t]][x] = cache[dev[t]][x]
      BY <1>8, WriteLogEffect
    <3>2. tail[t] \notin Blocks /\ \A e \in Devs : e = dev[t]
      BY <3>1, IndexOf DEF OneFs
    <3>3. \A e \in Devs, y \in Blocks : cache'[e][y] = cache[e][y]
      BY <3>1, <3>2 DEF Addrs
    <3>4. \A e \in Devs, y \in Blocks : Bread(e, y)' = Bread(e, y)
      BY <2>0, <3>3 DEF Bread
    <3>q. QED BY <2>0, <2>2, <3>4 DEF Seen
  <2>4. UNCHANGED Abstract!avars
    BY <2>1, <2>2, <2>3, Stutters
  <2>q. QED BY <2>4
<1>9. ASSUME NEW t \in Threads, InstallTrans(t)
       PROVE  [Abstract!ANext]_(Abstract!avars)
  <2>0. UNCHANGED <<mnt, outstanding, committing, lh, waitq, pc, dev,
                      mine, flight, tempq, disk, head>>
    BY <1>9 DEF InstallTrans, logvars, bufvars, diskvars
  <2>1. \A e \in Devs : OpsOn(e)' = OpsOn(e)
    BY <2>0, OpsKept
  <2>2. \A e \in Devs, y \in Blocks : DurableBlock(e, y)' = DurableBlock(e, y)
    BY <2>0, DurableIs
  <2>3. \A e \in Devs, y \in Blocks : Seen(e, y)' = Seen(e, y)
    <3>1. \A e \in Devs, y \in Blocks : Bread(e, y)' = Bread(e, y)
      BY <1>9, BreadKept DEF Addrs
    <3>q. QED BY <2>0, <2>2, <3>1 DEF Seen
  <2>4. UNCHANGED Abstract!avars
    BY <2>1, <2>2, <2>3, Stutters
  <2>q. QED BY <2>4
<1>10. ASSUME NEW t \in Threads, BsyncPop(t)
       PROVE  [Abstract!ANext]_(Abstract!avars)
  <2>0. UNCHANGED <<mnt, outstanding, committing, lh, waitq, pc, dev,
                      mine, tail, tempq, cache, pinned, disk, head>>
    BY <1>10 DEF BsyncPop, logvars, bufvars, diskvars
  <2>1. \A e \in Devs : OpsOn(e)' = OpsOn(e)
    BY <2>0, OpsKept
  <2>2. UNCHANGED Abstract!avars
    BY <2>0, <2>1, ViewsKept, Stutters
  <2>q. QED BY <2>2
<1>11. ASSUME NEW t \in Threads, BsyncWrite(t)
       PROVE  [Abstract!ANext]_(Abstract!avars)
  <2>0. UNCHANGED <<mnt, outstanding, committing, lh, waitq, pc, dev,
                      mine, tail, tempq, cache, pinned, dirtyList, head>>
    BY <1>11 DEF BsyncWrite, logvars, bufvars, diskvars
  <2>1. \A e \in Devs : OpsOn(e)' = OpsOn(e)
    BY <2>0, OpsKept
  <2>a. PICK a \in Addrs :
          /\ dev[t] \in Devs /\ InBsync(t) /\ Dirty(dev[t], a)
          /\ \A x \in Addrs : disk'[dev[t]][x] = IF x = a THEN cache[dev[t]][a] ELSE disk[dev[t]][x]
    BY <1>11, BsyncWriteEffect
  <2>b. \/ head[dev[t]] = <<>> /\ a \in Slots
        \/ head[dev[t]] = lh[dev[t]] /\ \E j \in DOMAIN lh[dev[t]] : a = lh[dev[t]][j]
    <3>1. PICK u \in Threads :
            /\ dev[u] = dev[t]
            /\ \/ pc[u] = "writelog" /\ a \in Slots
               \/ pc[u] = "install" /\ \E j \in DOMAIN lh[dev[t]] : a = lh[dev[t]][j]
      BY <2>a DEF DirtyOK
    <3>q. QED BY <3>1 DEF WriteStage, InstallStage
  <2>2. ASSUME NEW e \in Devs, NEW y \in Blocks PROVE DurableBlock(e, y)' = DurableBlock(e, y)
    <3> DEFINE d == dev[t]
    <3>1. e = d /\ head'[d] = head[d] /\ Once(head[d]) /\ y \in Addrs /\ y \notin Slots
      BY <2>0, <2>a, NamesAssumption DEF OneFs, HeaderOK, Addrs
    <3>2. CASE y \in Range(head[d])
      <4>1. PICK i \in DOMAIN head[d] : head[d][i] = y
        BY <3>2 DEF Range
      <4>2. head[d] = lh[d] /\ \E j \in DOMAIN lh[d] : a = lh[d][j]
        BY <2>b, <3>2, EmptyRange
      <4>3. i \in Addrs /\ i # a
        BY <2>a, <4>1, <4>2, IndexOf
      <4>4. disk'[d][i] = disk[d][i]
        BY <2>a, <4>3
      <4>q. QED BY <3>1, <4>1, <4>4, DurableIs, RecoveredIs
    <3>3. CASE y \notin Range(head[d])
      <4>1. y # a
        BY <2>b, <3>1, <3>3 DEF Range
      <4>2. disk'[d][y] = disk[d][y]
        BY <2>a, <3>1, <4>1
      <4>q. QED BY <3>1, <3>3, <4>2, DurableIs, RecoveredIs
    <3>q. QED BY <3>2, <3>3
  <2>3. \A e \in Devs, y \in Blocks : Seen(e, y)' = Seen(e, y)
    <3>1. \A e \in Devs, y \in Blocks : Bread(e, y)' = Bread(e, y)
      BY <1>11, BreadKept DEF Addrs
    <3>q. QED BY <2>0, <2>2, <3>1 DEF Seen
  <2>4. UNCHANGED Abstract!avars
    BY <2>1, <2>2, <2>3, Stutters
  <2>q. QED BY <2>4
<1>12. ASSUME NEW t \in Threads, BsyncDone(t)
       PROVE  [Abstract!ANext]_(Abstract!avars)
  <2>0. UNCHANGED <<mnt, outstanding, committing, lh, waitq, dev, mine,
                      flight, tempq, cache, pinned, dirtyList, disk, head>>
    BY <1>12 DEF BsyncDone, InBsync, logvars, bufvars, diskvars
  <2>1. \A e \in Devs : OpsOn(e)' = OpsOn(e)
    BY <1>12, <2>0 DEF BsyncDone, InBsync, OpsOn, TypeOK, ThreadsOK
  <2>2. UNCHANGED Abstract!avars
    BY <2>0, <2>1, ViewsKept, Stutters
  <2>q. QED BY <2>2
<1>13. ASSUME NEW t \in Threads, WriteHead(t)
       PROVE  [Abstract!ANext]_(Abstract!avars)
  <2>0. UNCHANGED <<mnt, outstanding, committing, lh, waitq, dev, mine,
                      tail, flight, tempq, cache, pinned, dirtyList, disk>>
    BY <1>13 DEF WriteHead, logvars, bufvars, diskvars
  <2> DEFINE d == dev[t]
  <2>1. d \in Devs /\ mnt[d] = "up" /\ pc[t] = "commit"
    BY <1>13, DevOf DEF WriteHead
  <2>2. \A e \in Devs : OpsOn(e)' = OpsOn(e)
    BY <1>13, <2>0 DEF WriteHead, OpsOn, TypeOK
  <2>3. OpsOn(d) = {}
    BY <2>1, NoOps DEF CommitterOK, Committing
  <2>4. /\ pinned[d] = Range(lh[d]) /\ Once(lh[d]) /\ head'[d] = lh[d]
        /\ \A i \in DOMAIN lh[d] : disk[d][i] = cache[d][lh[d][i]]
    BY <1>13, <2>1 DEF CommitStage, HeaderOK, WriteHead, TypeOK
  <2> HIDE DEF d
  <2>5. \A e \in Devs : e = d
    BY <2>1 DEF OneFs
  <2>6. ASSUME NEW y \in Blocks PROVE Recovered(lh[d], disk[d], y) = Bread(d, y)
    <3>1. y \in Addrs
      BY DEF Addrs
    <3>2. CASE y \in Range(lh[d])
      <4>1. PICK i \in DOMAIN lh[d] : lh[d][i] = y
        BY <3>2 DEF Range
      <4>2. cache[d][y] # None
        BY <2>1, <2>4, <3>1, <3>2 DEF Coherent
      <4>q. QED BY <2>4, <4>1, <4>2, RecoveredIs DEF Bread
    <3>3. CASE y \notin Range(lh[d])
      <4>1. \A x \in Threads : dev[x] = d => pc[x] \notin {"writelog", "install"}
        BY <2>1 DEF CommitterOK, Committing
      <4>2. Bread(d, y) = disk[d][y]
        BY <2>1, <2>4, <3>1, <3>3, <4>1, NothingDirty, CleanIsDurable
      <4>q. QED BY <2>4, <3>3, <4>2, RecoveredIs
    <3>q. QED BY <3>2, <3>3
  <2>7. \A e \in Devs, y \in Blocks : DurableBlock(e, y)' = Bread(e, y)
    BY <2>0, <2>4, <2>5, <2>6, DurableIs
  <2>8. \A e \in Devs, y \in Blocks : Seen(e, y)' = Bread(e, y) /\ Seen(e, y) = Bread(e, y)
    <3>1. \A e \in Devs, y \in Blocks : Bread(e, y)' = Bread(e, y)
      BY <2>0 DEF Bread
    <3>q. QED BY <2>0, <2>1, <2>5, <3>1 DEF Seen
  <2>9. CurrentView' = CurrentView
    BY <2>8, ViewsAre
  <2>10. DurableView' = [DurableView EXCEPT ![d] = CurrentView[d]]
    <3>1. DurableView' = [e \in Devs |-> [y \in Blocks |-> Bread(e, y)]]
      BY <2>7, ViewsAre
    <3>2. CurrentView[d] = [y \in Blocks |-> Bread(d, y)]
      BY <2>1, <2>8, ViewsAre
    <3>3. DurableView = [e \in Devs |-> DurableView[e]]
      BY ViewsAre
    <3>q. QED BY <2>1, <2>5, <3>1, <3>2, <3>3
  <2>11. Abstract!Commit(d)
    BY <2>1, <2>2, <2>3, <2>9, <2>10 DEF Abstract!Commit
  <2>q. QED BY <2>1, <2>11 DEF Abstract!ANext
<1>14. ASSUME NEW t \in Threads, EraseHead(t)
       PROVE  [Abstract!ANext]_(Abstract!avars)
  <2>0. UNCHANGED <<mnt, outstanding, committing, waitq, dev, mine, tail,
                      flight, tempq, cache, pinned, dirtyList, disk>>
    BY <1>14 DEF EraseHead, logvars, bufvars, diskvars
  <2>1. \A e \in Devs : OpsOn(e)' = OpsOn(e)
    BY <1>14, <2>0 DEF EraseHead, OpsOn, TypeOK, ThreadsOK
  <2> DEFINE d == dev[t]
  <2>a. d \in Devs /\ pc[t] = "erase" /\ \A e \in Devs : e = d
    BY <1>14, DevOf DEF EraseHead, OneFs
  <2>b. /\ head[d] = lh[d] /\ Once(head[d]) /\ head'[d] = <<>>
        /\ \A i \in DOMAIN lh[d] : disk[d][i] = disk[d][lh[d][i]]
    BY <1>14, <2>a DEF EraseStage, HeaderOK, EraseHead, TypeOK
  <2>2. ASSUME NEW e \in Devs, NEW y \in Blocks PROVE DurableBlock(e, y)' = DurableBlock(e, y)
    <3>1. DurableBlock(e, y)' = disk[d][y] /\ DurableBlock(e, y) = Recovered(head[d], disk[d], y)
      BY <2>0, <2>a, <2>b, EmptyHeader, EmptyRange, RecoveredIs, DurableIs
    <3>2. CASE y \in Range(head[d])
      <4>1. PICK i \in DOMAIN head[d] : head[d][i] = y
        BY <3>2 DEF Range
      <4>q. QED BY <3>1, <4>1, <2>b, RecoveredIs
    <3>3. CASE y \notin Range(head[d])
      BY <3>1, <3>3, <2>b, RecoveredIs
    <3>q. QED BY <3>2, <3>3
  <2>3. \A e \in Devs, y \in Blocks : Seen(e, y)' = Seen(e, y)
    <3>1. \A e \in Devs, y \in Blocks : Bread(e, y)' = Bread(e, y)
      BY <2>0 DEF Bread
    <3>q. QED BY <2>0, <2>2, <3>1 DEF Seen
  <2>4. UNCHANGED Abstract!avars
    BY <2>1, <2>2, <2>3, Stutters
  <2>q. QED BY <2>4
<1>15. ASSUME NEW t \in Threads, Release(t)
       PROVE  [Abstract!ANext]_(Abstract!avars)
  <2>0. UNCHANGED <<mnt, outstanding, lh, dev, mine, tail, flight,
                      cache, pinned, dirtyList, disk, head>>
    BY <1>15 DEF Release, logvars, bufvars, diskvars
  <2>1. \A e \in Devs : OpsOn(e)' = OpsOn(e)
    BY <1>15, <2>0 DEF Release, OpsOn, TypeOK, ThreadsOK
  <2>2. UNCHANGED Abstract!avars
    BY <2>0, <2>1, ViewsKept, Stutters
  <2>q. QED BY <2>2
<1>16. ASSUME NEW t \in Threads, NEW u \in Threads, WakeOne(t, u)
       PROVE  [Abstract!ANext]_(Abstract!avars)
  <2>0. UNCHANGED <<mnt, outstanding, committing, lh, waitq, dev, mine,
                      tail, flight, cache, pinned, dirtyList, disk, head>>
    BY <1>16 DEF WakeOne, logvars, bufvars, diskvars
  <2>1. \A e \in Devs : OpsOn(e)' = OpsOn(e)
    BY <1>16, <2>0 DEF WakeOne, OpsOn, TypeOK, ThreadsOK
  <2>2. UNCHANGED Abstract!avars
    BY <2>0, <2>1, ViewsKept, Stutters
  <2>q. QED BY <2>2
<1>17. ASSUME NEW t \in Threads, WakeDone(t)
       PROVE  [Abstract!ANext]_(Abstract!avars)
  <2>0. UNCHANGED <<mnt, outstanding, committing, lh, waitq, dev, mine,
                      tail, flight, tempq, cache, pinned, dirtyList, disk, head>>
    BY <1>17 DEF WakeDone, logvars, bufvars, diskvars
  <2>1. \A e \in Devs : OpsOn(e)' = OpsOn(e)
    BY <1>17, <2>0 DEF WakeDone, OpsOn, TypeOK, ThreadsOK
  <2>2. UNCHANGED Abstract!avars
    BY <2>0, <2>1, ViewsKept, Stutters
  <2>q. QED BY <2>2
<1>18. ASSUME NEW d \in Devs, NEW a \in Addrs, Recycle(d, a)
       PROVE  [Abstract!ANext]_(Abstract!avars)
  <2>0. UNCHANGED <<mnt, outstanding, committing, lh, waitq, pc, dev,
                      mine, tail, flight, tempq, pinned, dirtyList, disk, head>>
    BY <1>18 DEF Recycle, logvars, bufvars, diskvars
  <2>1. \A e \in Devs : OpsOn(e)' = OpsOn(e)
    BY <2>0, OpsKept
  <2>2. \A e \in Devs, y \in Blocks : DurableBlock(e, y)' = DurableBlock(e, y)
    BY <2>0, DurableIs
  <2>3. \A e \in Devs, y \in Blocks : Seen(e, y)' = Seen(e, y)
    <3>1. \A e \in Devs, y \in Blocks : Bread(e, y)' = Bread(e, y)
      BY <1>18, BreadKept DEF Addrs
    <3>q. QED BY <2>0, <2>2, <3>1 DEF Seen
  <2>4. UNCHANGED Abstract!avars
    BY <2>1, <2>2, <2>3, Stutters
  <2>q. QED BY <2>4
<1>19. ASSUME Crash PROVE [Abstract!ANext]_(Abstract!avars)
  <2>0. UNCHANGED <<disk, head>>
    BY <1>19 DEF Crash, diskvars
  <2>1. \A e \in Devs : OpsOn(e)' = {} /\ mnt'[e] = "off"
    BY <1>19 DEF Crash, OpsOn
  <2>2. \A e \in Devs, y \in Blocks : DurableBlock(e, y)' = DurableBlock(e, y)
    BY <2>0, DurableIs
  <2>3. \A e \in Devs, y \in Blocks : Seen(e, y)' = DurableBlock(e, y)
    BY <2>1, <2>2 DEF Seen
  <2>4. CurrentView' = DurableView /\ DurableView' = DurableView
    BY <2>2, <2>3, ViewsAre
  <2>5. [e \in Devs |-> OpsOn(e)]' = [e \in Devs |-> {}]
    BY <2>1
  <2>6. Abstract!Lose
    BY <2>4, <2>5 DEF Abstract!Lose
  <2>q. QED BY <2>6 DEF Abstract!ANext
<1>20. ASSUME UNCHANGED vars PROVE [Abstract!ANext]_(Abstract!avars)
  <2>0. UNCHANGED <<mnt, outstanding, committing, lh, waitq, pc, dev,
                      mine, tail, flight, tempq, cache, pinned, dirtyList, disk, head>>
    BY <1>20 DEF vars
  <2>1. \A e \in Devs : OpsOn(e)' = OpsOn(e)
    BY <2>0, OpsKept
  <2>2. UNCHANGED Abstract!avars
    BY <2>0, <2>1, ViewsKept, Stutters
  <2>q. QED BY <2>2
<1>q. QED BY <1>1, <1>2, <1>3, <1>4, <1>5, <1>6, <1>7, <1>8, <1>9, <1>10, <1>11, <1>12, <1>13,
     <1>14, <1>15, <1>16, <1>17, <1>18, <1>19, <1>20 DEF Next, MountStep, CommitStep

----------------------------------------------------------------------------
LEMMA LInit == Init => LInv
<1> SUFFICES ASSUME Init PROVE LInv
  OBVIOUS
<1> USE DEF Init, MemoryInit
<1>1. TypeOK
  BY SizesAssumption DEF TypeOK
<1>2. \A d \in Devs, a \in Addrs : ~Dirty(d, a)
  BY EmptyRange, NamesAssumption DEF Dirty
<1>3. ThreadsOK /\ CommitterOK
  BY DEF ThreadsOK, CommitterOK, Committing
<1>4. DirtyOK /\ Coherent
  BY <1>2 DEF DirtyOK, Coherent
<1>5. \A d \in Devs : OpsOn(d) = {}
  BY DEF OpsOn
<1>6. HeaderOK
  BY <1>5, EmptyHeader, SizesAssumption DEF HeaderOK
<1>7. MountStage /\ OpStage /\ WriteStage /\ CommitStage /\ InstallStage /\ EraseStage
  BY DEF MountStage, OpStage, WriteStage, CommitStage, InstallStage, EraseStage
<1>8. CommitExcludesOps
  BY <1>5, FS_EmptySet DEF CommitExcludesOps
<1>9. ReservationsFit
  <2>1. \A d \in Devs : Leftover(d) = {} /\ outstanding[d] = 0
    BY <1>5, EmptyRange DEF Leftover
  <2>2. Cardinality({}) = 0 /\ 0 * MaxOpBlocks = 0 /\ 0 <= LogSize
    BY FS_EmptySet, SizesAssumption
  <2>3. ASSUME NEW d \in Devs
        PROVE  Cardinality(Leftover(d)) + outstanding[d] * MaxOpBlocks <= LogSize
    <3>1. Cardinality(Leftover(d)) = 0 /\ outstanding[d] * MaxOpBlocks = 0
      BY <2>1, <2>2
    <3>q. QED BY <2>2, <3>1, SizesAssumption
  <2>q. QED BY <1>5, <2>3 DEF ReservationsFit
<1>10. NoStrandedWaiter
  BY DEF NoStrandedWaiter
<1>q. QED BY <1>1, <1>3, <1>4, <1>6, <1>7, <1>8, <1>9, <1>10 DEF LInv

LEMMA LStep ==
    ASSUME OneFs, LInv, [Next]_vars
    PROVE  LInv'
<1>1. TypeOK' /\ ThreadsOK' /\ CommitterOK' /\ DirtyOK' /\ HeaderOK' /\ Coherent'
  BY TypeOKStep, ThreadsOKStep, CommitterOKStep, DirtyOKStep, HeaderOKStep, CoherentStep
<1>2. MountStage' /\ OpStage' /\ WriteStage' /\ CommitStage' /\ InstallStage' /\ EraseStage'
  BY MountStageStep, OpStageStep, WriteStageStep, CommitStageStep, InstallStageStep,
     EraseStageStep
<1>3. CommitExcludesOps' /\ ReservationsFit' /\ NoStrandedWaiter'
  BY CommitExcludesOpsStep, ReservationsFitStep, NoStrandedWaiterStep
<1>q. QED BY <1>1, <1>2, <1>3 DEF LInv

LEMMA LInvariant ==
    ASSUME OneFs
    PROVE  Spec => []LInv
<1>1. LInv /\ [Next]_vars => LInv'
  BY LStep
<1>q. QED BY <1>1, LInit, PTL DEF Spec

LEMMA LInvHolds == LInv => LogHolds
<1> SUFFICES ASSUME LInv PROVE LogHolds
  OBVIOUS
<1> USE DEF LInv
<1>1. ASSUME NEW d \in Devs, mnt[d] = "up", outstanding[d] = 0, ~committing[d]
      PROVE  /\ head[d] = <<>> /\ lh[d] = <<>> /\ pinned[d] = {}
             /\ \A b \in Blocks : Bread(d, b) = disk[d][b]
  <2>1. head[d] = <<>> /\ lh[d] = <<>> /\ pinned[d] = {}
    BY <1>1, EmptyRange DEF OpStage
  <2>2. \A t \in Threads : dev[t] = d => pc[t] \notin {"writelog", "install"}
    BY <1>1 DEF CommitterOK, Committing
  <2>q. QED BY <2>1, <2>2, NothingDirty, CleanIsDurable DEF Addrs
<1>2. QuietIsDurable
  BY <1>1 DEF QuietIsDurable
<1>q. QED BY <1>2 DEF LogHolds

\* What begin_op and end_op rely on holds in every reachable state (LogHolds): quiet
\* means durable, the log never overflows however operations overlap, no operation runs
\* inside a commit, and every thread asleep in begin_op has somebody to wake it
\* (log.c:155-270).
THEOREM LogHoldsAlways ==
    ASSUME OneFs
    PROVE  Spec => []LogHolds
BY LInvariant, LInvHolds, PTL

\* The log implements AtomicDisk (AtomicCommits): the steps of a commit and of a
\* recovery are invisible but for the write of the header, which makes all operations
\* since the last commit durable at once; a crash anywhere loses exactly what was not.
THEOREM LogIsAtomic ==
    ASSUME OneFs
    PROVE  Spec => AtomicCommits
<1>1. Init => Abstract!AInit
  <2> SUFFICES ASSUME Init PROVE Abstract!AInit
    OBVIOUS
  <2>1. \A d \in Devs, b \in Blocks : DurableBlock(d, b) = InitValue
    BY EmptyRange, EmptyHeader, DurableIs, RecoveredIs DEF Init, Addrs
  <2>2. \A d \in Devs, b \in Blocks : Seen(d, b) = InitValue
    BY <2>1 DEF Init, Seen
  <2>3. \A d \in Devs : OpsOn(d) = {}
    BY DEF Init, MemoryInit, OpsOn
  <2>4. CurrentView = [d \in Devs |-> [b \in Blocks |-> InitValue]] /\ DurableView = CurrentView
    BY <2>1, <2>2, ViewsAre
  <2>q. QED BY <2>3, <2>4 DEF Abstract!AInit
<1>2. LInv /\ [Next]_vars => [Abstract!ANext]_(Abstract!avars)
  BY AtomicStep
<1>q. QED BY <1>1, <1>2, LInvariant, PTL DEF Spec, AtomicCommits, Abstract!ASpec
=============================================================================
