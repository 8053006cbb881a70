------------------------------- MODULE RcuProofs -------------------------------
(* The grace period of Rcu.tla for any number of CPUs, tasks and callbacks.     *)
(*                                                                              *)
(* Neither GracePeriod nor SyncGracePeriod is inductive: what makes a ready     *)
(* callback safe is the history of one minimum, collected from timestamps that  *)
(* were read at different moments. GInv says what survives of that history: a   *)
(* timestamp is never younger than a reader on its CPU (Clock), because a       *)
(* reader keeps its CPU from switching (Pinned), so a partial minimum is never  *)
(* younger than any reader, old or new, on a CPU the scan has passed (Scanned). *)
(*                                                                              *)
(* CallbackInOnePlace needs PInv: the lists of a CPU repeat nothing, the lists  *)
(* of two CPUs share nothing, and the head a task holds is on no list yet.      *)
EXTENDS Rcu, FiniteSetTheorems, TLAPS

\* A task that will enqueue or call its callback has one.
HeadOK ==
    \A t \in Tasks :
        (\/ pc[t] \in {"enqueue", "func"}
         \/ pc[t] \in {"note", "sync"} /\ cont[t] = "func")
        => head[t] \in Callbacks

TInv == TypeOK /\ HeadOK

LEMMA TypeInit == Init => TInv
  BY CpuAssumption, BoundAssumption
  DEF Init, TInv, TypeOK, HeadOK, Times, Conts, Threads, Jiffs, RCU_UINT64_MAX

LEMMA YieldType ==
    ASSUME TypeOK, NEW c \in CPUs, scheduler_yield(c)
    PROVE  /\ run' \in [CPUs -> Threads]
           /\ rcu_timestamp' \in [CPUs -> Times]
           /\ switching' \subseteq CPUs
<1>1. CASE \E p \in Threads : SwitchTo(c, p)
  BY <1>1, BoundAssumption DEF TypeOK, Times, SwitchTo, Jiffs
<1>2. CASE rcu_note_context_switch(c) /\ UNCHANGED switching
  BY <1>2 DEF TypeOK, rcu_note_context_switch
<1>. QED  BY <1>1, <1>2 DEF scheduler_yield

LEMMA ScanStartType ==
    ASSUME TypeOK, NEW p \in Threads, ScanStart(p)
    PROVE  left' \in [Threads -> SUBSET CPUs] /\ min' \in [Threads -> 0 .. RCU_UINT64_MAX]
  BY BoundAssumption DEF TypeOK, ScanStart, RCU_UINT64_MAX

LEMMA SyncStartType ==
    ASSUME TypeOK, NEW t \in Tasks, NEW then \in Conts, NEW xs, SyncStart(t, then, xs)
    PROVE  /\ stamp' \in [Callbacks \cup Tasks -> Times]
           /\ must' \in [Callbacks \cup Tasks -> SUBSET Tasks]
           /\ pc' = [pc EXCEPT ![t] = "note"]
           /\ cont' \in [Tasks -> Conts]
           /\ wait' \in [Tasks -> 0 .. MaxWait]
<1>1. stamp' \in [Callbacks \cup Tasks -> Times]
  BY DEF TypeOK, SyncStart
<1>2. must' \in [Callbacks \cup Tasks -> SUBSET Tasks]
  BY DEF TypeOK, SyncStart
<1>3. cont' \in [Tasks -> Conts] /\ pc' = [pc EXCEPT ![t] = "note"]
  BY DEF TypeOK, SyncStart, Goto
<1>4. wait' \in [Tasks -> 0 .. MaxWait]
  BY BoundAssumption DEF TypeOK, SyncStart
<1>. QED  BY <1>1, <1>2, <1>3, <1>4

LEMMA SyncReturnType ==
    ASSUME TypeOK, NEW t \in Tasks, SyncReturn(t)
    PROVE  /\ left' \in [Threads -> SUBSET CPUs]
           /\ min' \in [Threads -> 0 .. RCU_UINT64_MAX]
           /\ pc' = [pc EXCEPT ![t] = cont[t]]
           /\ cont' = [cont EXCEPT ![t] = "idle"]
           /\ wait' \in [Tasks -> 0 .. MaxWait]
           /\ stamp' \in [Callbacks \cup Tasks -> Times]
           /\ must' \in [Callbacks \cup Tasks -> SUBSET Tasks]
<1>1. t \in Threads
  BY DEF Threads
<1>2. CASE ScanStart(t)
  BY <1>1, <1>2, ScanStartType, BoundAssumption DEF TypeOK, SyncReturn, Goto, Times
<1>3. CASE ScanEnd(t)
  BY <1>1, <1>3, BoundAssumption DEF TypeOK, SyncReturn, ScanEnd, Goto, Times, RCU_UINT64_MAX
<1>. QED  BY <1>2, <1>3 DEF SyncReturn

LEMMA TypeStep ==
    ASSUME TInv, [Next]_vars
    PROVE  TInv'
<1>1. ASSUME Tick PROVE TInv'
  BY <1>1, CpuAssumption, BoundAssumption DEF TInv, TypeOK, HeadOK, Times, Conts, Threads, RCU_UINT64_MAX, cpuVars, readVars, scanVars, listVars, syncVars, ghostVars, Tick
<1>2. ASSUME NEW c \in CPUs, Yield(c) PROVE TInv'
  BY <1>2, YieldType DEF TInv, TypeOK, HeadOK, Yield, cpuVars, readVars, scanVars, listVars, syncVars, ghostVars
<1>3. ASSUME NEW c \in CPUs, SwitchEnd(c) PROVE TInv'
  BY <1>3, CpuAssumption, BoundAssumption DEF TInv, TypeOK, HeadOK, Times, Conts, Threads, RCU_UINT64_MAX, cpuVars, readVars, scanVars, listVars, syncVars, ghostVars, SwitchEnd, rcu_note_context_switch
<1>4. ASSUME NEW c \in CPUs, kthread_wakeup(c) PROVE TInv'
  BY <1>4, CpuAssumption, BoundAssumption DEF TInv, TypeOK, HeadOK, Times, Conts, Threads, RCU_UINT64_MAX, cpuVars, readVars, scanVars, listVars, syncVars, ghostVars, kthread_wakeup, Goto, ScanStart, CpuOf
<1>5. ASSUME NEW t \in Tasks, rcu_read_lock(t) PROVE TInv'
  BY <1>5, CpuAssumption, BoundAssumption DEF TInv, TypeOK, HeadOK, Times, Conts, Threads, RCU_UINT64_MAX, cpuVars, readVars, scanVars, listVars, syncVars, ghostVars, rcu_read_lock
<1>6. ASSUME NEW t \in Tasks, rcu_read_unlock(t) PROVE TInv'
  BY <1>6, CpuAssumption, BoundAssumption DEF TInv, TypeOK, HeadOK, Times, Conts, Threads, RCU_UINT64_MAX, cpuVars, readVars, scanVars, listVars, syncVars, ghostVars, rcu_read_unlock
<1>7. ASSUME NEW t \in Tasks, call_rcu_enqueue(t) PROVE TInv'
  <2>1. head[t] \in Callbacks
    BY <1>7 DEF TInv, HeadOK, call_rcu_enqueue, At
  <2>2. pending' \in [CPUs -> SUBSET Callbacks]
    BY <1>7, <2>1 DEF TInv, TypeOK, call_rcu_enqueue, rcu_cblist_enqueue
  <2>3. TypeOK'
    BY <1>7, <2>2, CpuAssumption DEF TInv, TypeOK, Threads, call_rcu_enqueue, Goto, cpuVars, readVars, scanVars, listVars, syncVars, ghostVars
  <2>4. HeadOK'
    BY <1>7 DEF TInv, TypeOK, Threads, HeadOK, call_rcu_enqueue, Goto
  <2>. QED  BY <2>3, <2>4 DEF TInv
<1>8. ASSUME NEW t \in Tasks, call_rcu_func(t) PROVE TInv'
  BY <1>8, CpuAssumption, BoundAssumption DEF TInv, TypeOK, HeadOK, Times, Conts, Threads, RCU_UINT64_MAX, cpuVars, readVars, scanVars, listVars, syncVars, ghostVars, call_rcu_func, Invoke, Goto, At
<1>9. ASSUME NEW t \in Tasks, synchronize_rcu(t) PROVE TInv'
  BY <1>9, CpuAssumption, BoundAssumption DEF TInv, TypeOK, HeadOK, Times, Conts, Threads, RCU_UINT64_MAX, cpuVars, readVars, scanVars, listVars, syncVars, ghostVars, synchronize_rcu, SyncStart, Goto
<1>10. ASSUME NEW t \in Tasks, sync_note(t) PROVE TInv'
  BY <1>10, CpuAssumption, BoundAssumption DEF TInv, TypeOK, HeadOK, Times, Conts, Threads, RCU_UINT64_MAX, cpuVars, readVars, scanVars, listVars, syncVars, ghostVars, sync_note, rcu_note_context_switch, ScanStart, CpuOf, Goto, At
<1>11. ASSUME NEW t \in Tasks, sync_return(t) PROVE TInv'
  <2>1. SyncReturn(t) /\ pc[t] = "sync" /\ t \in Threads /\ head' = head
    BY <1>11 DEF sync_return, At, Threads
  <2>2. /\ left' \in [Threads -> SUBSET CPUs]
        /\ min' \in [Threads -> 0 .. RCU_UINT64_MAX]
        /\ pc' = [pc EXCEPT ![t] = cont[t]]
        /\ cont' = [cont EXCEPT ![t] = "idle"]
        /\ wait' \in [Tasks -> 0 .. MaxWait]
        /\ stamp' \in [Callbacks \cup Tasks -> Times]
        /\ must' \in [Callbacks \cup Tasks -> SUBSET Tasks]
    BY <2>1, SyncReturnType DEF TInv
  <2>3. TypeOK'
    BY <1>11, <2>1, <2>2 DEF TInv, TypeOK, Conts, sync_return, cpuVars, readVars, scanVars, listVars, syncVars, ghostVars
  <2>4. HeadOK'
    BY <2>1, <2>2 DEF TInv, TypeOK, Conts, HeadOK
  <2>. QED  BY <2>3, <2>4 DEF TInv
<1>12. ASSUME NEW t \in Tasks, sync_yield(t) PROVE TInv'
  <2>1. cpuid[t] \in CPUs /\ t \in Threads
    BY CpuAssumption DEF Threads
  <2>2. TypeOK'
    BY <1>12, <2>1, YieldType, ScanStartType, BoundAssumption
    DEF TInv, TypeOK, sync_yield, MayWait, cpuVars, readVars, scanVars, listVars, syncVars, ghostVars
  <2>3. HeadOK'
    BY <1>12 DEF TInv, HeadOK, sync_yield
  <2>. QED  BY <2>2, <2>3 DEF TInv
<1>13. ASSUME NEW t \in Tasks, sync_give_up(t) PROVE TInv'
  <2>1. SyncReturn(t) /\ pc[t] = "sync" /\ t \in Threads /\ head' = head
    BY <1>13 DEF sync_give_up, At, Threads
  <2>2. /\ left' \in [Threads -> SUBSET CPUs]
        /\ min' \in [Threads -> 0 .. RCU_UINT64_MAX]
        /\ pc' = [pc EXCEPT ![t] = cont[t]]
        /\ cont' = [cont EXCEPT ![t] = "idle"]
        /\ wait' \in [Tasks -> 0 .. MaxWait]
        /\ stamp' \in [Callbacks \cup Tasks -> Times]
        /\ must' \in [Callbacks \cup Tasks -> SUBSET Tasks]
    BY <2>1, SyncReturnType DEF TInv
  <2>3. TypeOK'
    BY <1>13, <2>1, <2>2 DEF TInv, TypeOK, Conts, sync_give_up, cpuVars, readVars, scanVars, listVars, syncVars, ghostVars
  <2>4. HeadOK'
    BY <2>1, <2>2 DEF TInv, TypeOK, Conts, HeadOK
  <2>. QED  BY <2>3, <2>4 DEF TInv
<1>14. ASSUME NEW t \in Tasks, rcu_barrier(t) PROVE TInv'
  <2>1. SyncStart(t, "process", {t}) /\ "process" \in Conts /\ t \in Threads /\ head' = head
    BY <1>14 DEF rcu_barrier, Conts, Threads
  <2>2. /\ stamp' \in [Callbacks \cup Tasks -> Times]
        /\ must' \in [Callbacks \cup Tasks -> SUBSET Tasks]
        /\ pc' = [pc EXCEPT ![t] = "note"]
        /\ cont' \in [Tasks -> Conts]
        /\ wait' \in [Tasks -> 0 .. MaxWait]
    BY <2>1, SyncStartType DEF TInv
  <2>3. owed' \in [Tasks -> SUBSET Callbacks]
    BY <1>14 DEF TInv, TypeOK, rcu_barrier, Queued
  <2>4. TypeOK'
    BY <1>14, <2>1, <2>2, <2>3, BoundAssumption DEF TInv, TypeOK, rcu_barrier, cpuVars, readVars, scanVars, listVars, syncVars, ghostVars
  <2>5. HeadOK'
    BY <2>1, <2>2 DEF TInv, TypeOK, HeadOK, SyncStart
  <2>. QED  BY <2>4, <2>5 DEF TInv
<1>15. ASSUME NEW t \in Tasks, barrier_check(t) PROVE TInv'
  <2>1. PICK then \in {"returned", "again"} : SyncStart(t, then, {t})
    BY <1>15 DEF barrier_check
  <2>2. t \in Threads /\ then \in Conts /\ head' = head
    BY <1>15 DEF Threads, Conts, barrier_check
  <2>3. /\ stamp' \in [Callbacks \cup Tasks -> Times]
        /\ must' \in [Callbacks \cup Tasks -> SUBSET Tasks]
        /\ pc' = [pc EXCEPT ![t] = "note"]
        /\ cont' \in [Tasks -> Conts]
        /\ wait' \in [Tasks -> 0 .. MaxWait]
    BY <2>1, <2>2, SyncStartType DEF TInv
  <2>4. round' \in [Tasks -> 0 .. MaxWait]
    <3>1. round \in [Tasks -> 0 .. MaxWait]
      BY DEF TInv, TypeOK
    <3>2. CASE round[t] # MaxWait /\ round' = [round EXCEPT ![t] = round[t] + 1]
      BY <3>1, <3>2, BoundAssumption
    <3>. QED  BY <1>15, <3>1, <3>2 DEF barrier_check
  <2>5. TypeOK'
    BY <1>15, <2>2, <2>3, <2>4 DEF TInv, TypeOK, barrier_check, cpuVars, readVars, scanVars, listVars, syncVars, ghostVars
  <2>6. HeadOK'
    BY <2>1, <2>2, <2>3 DEF TInv, TypeOK, HeadOK, SyncStart
  <2>. QED  BY <2>5, <2>6 DEF TInv
<1>16. ASSUME NEW t \in Tasks, barrier_again(t) PROVE TInv'
  <2>1. cpuid[t] \in CPUs /\ t \in Threads
    BY CpuAssumption DEF Threads
  <2>2. TypeOK'
    BY <1>16, <2>1, YieldType, ScanStartType
    DEF TInv, TypeOK, barrier_again, Goto, cpuVars, readVars, scanVars, listVars, syncVars, ghostVars
  <2>3. HeadOK'
    BY <1>16, <2>1 DEF TInv, TypeOK, HeadOK, barrier_again, Goto, syncVars
  <2>. QED  BY <2>2, <2>3 DEF TInv
<1>17. ASSUME NEW t \in Tasks, barrier_return(t) PROVE TInv'
  BY <1>17, CpuAssumption, BoundAssumption DEF TInv, TypeOK, HeadOK, Times, Conts, Threads, RCU_UINT64_MAX, cpuVars, readVars, scanVars, listVars, syncVars, ghostVars, barrier_return, Goto
<1>18. ASSUME NEW t \in Tasks, NEW b \in Callbacks, call_rcu(t, b) PROVE TInv'
  BY <1>18, CpuAssumption, BoundAssumption DEF TInv, TypeOK, HeadOK, Times, Conts, Threads, RCU_UINT64_MAX, cpuVars, readVars, scanVars, listVars, syncVars, ghostVars, call_rcu, Goto
<1>19. ASSUME NEW t \in Tasks, NEW b \in Callbacks, call_rcu_nomem(t, b) PROVE TInv'
  BY <1>19, CpuAssumption, BoundAssumption DEF TInv, TypeOK, HeadOK, Times, Conts, Threads, RCU_UINT64_MAX, cpuVars, readVars, scanVars, listVars, syncVars, ghostVars, call_rcu_nomem, SyncStart, Goto
<1>20. ASSUME NEW p \in Threads, rcu_get_min_other_cpu_timestamp(p) PROVE TInv'
  BY <1>20, CpuAssumption, BoundAssumption DEF TInv, TypeOK, HeadOK, Times, Conts, Threads, RCU_UINT64_MAX, cpuVars, readVars, scanVars, listVars, syncVars, ghostVars, rcu_get_min_other_cpu_timestamp, ScanCpu
<1>21. ASSUME NEW p \in Threads, take_pending(p) PROVE TInv'
  BY <1>21, CpuAssumption, BoundAssumption DEF TInv, TypeOK, HeadOK, Times, Conts, Threads, RCU_UINT64_MAX, cpuVars, readVars, scanVars, listVars, syncVars, ghostVars, take_pending, ScanEnd, CpuOf, Goto
<1>22. ASSUME NEW p \in Threads, rcu_invoke_callbacks(p) PROVE TInv'
  BY <1>22, CpuAssumption, BoundAssumption DEF TInv, TypeOK, HeadOK, Times, Conts, Threads, RCU_UINT64_MAX, cpuVars, readVars, scanVars, listVars, syncVars, ghostVars, rcu_invoke_callbacks, Invoke
<1>23. ASSUME NEW p \in Threads, put_back(p) PROVE TInv'
  BY <1>23, CpuAssumption, BoundAssumption DEF TInv, TypeOK, HeadOK, Times, Conts, Threads, RCU_UINT64_MAX, cpuVars, readVars, scanVars, listVars, syncVars, ghostVars, put_back, PutBack, CpuOf, Goto
<1>24. CASE UNCHANGED vars
  BY <1>24 DEF TInv, TypeOK, HeadOK, vars, cpuVars, readVars, scanVars, listVars, syncVars, ghostVars
<1>. QED  BY <1>1, <1>2, <1>3, <1>4, <1>5, <1>6, <1>7, <1>8, <1>9, <1>10, <1>11, <1>12, <1>13, <1>14, <1>15, <1>16, <1>17, <1>18, <1>19, <1>20, <1>21, <1>22, <1>23, <1>24 DEF Next, Process, Start, Continue

\* Every field keeps its type, in every step of every thread.
THEOREM RcuTypeOK == Spec => []TypeOK
<1>1. Init => TInv  BY TypeInit
<1>2. TInv /\ [Next]_vars => TInv'  BY TypeStep
<1>3. TInv => TypeOK  BY DEF TInv
<1>. QED  BY <1>1, <1>2, <1>3, PTL DEF Spec

--------------------------------------------------------------------------------
\* A reader runs on its CPU, and is not inside another routine of rcu.c.
Pinned ==
    \A t \in reading : /\ run[cpuid[t]] = t
                       /\ cpuid[t] \notin switching
                       /\ pc[t] \in {"idle", "enqueue"}

\* Every CPU has a timestamp, of the past, and older than a reader there.
Clock ==
    /\ now >= 2
    /\ \A c \in CPUs : rcu_timestamp[c] >= 1 /\ rcu_timestamp[c] <= now
    /\ \A t \in reading : since[t] <= now /\ rcu_timestamp[cpuid[t]] <= since[t]

\* The minimum of a scan under way, over the CPUs it has read.
Scanned ==
    \A p \in Threads, d \in CPUs :
        pc[p] \in {"sync", "process"} /\ d # CpuOf(p) /\ d \notin left[p]
        => /\ min[p] <= now
           /\ \A t \in reading : cpuid[t] = d => min[p] <= since[t]

\* The ghost sets hold readers, and for a waiting task none of its own CPU.
Owes ==
    /\ \A x \in Callbacks \cup Tasks : must[x] \subseteq reading
    /\ \A t \in Tasks : \A u \in must[t] : cpuid[u] # cpuid[t]

\* Nothing but a registered callback is in a list.
Known ==
    /\ \A c \in CPUs : pending[c] \subseteq Registered
    /\ \A p \in Threads : ready[p] \subseteq Registered /\ notready[p] \subseteq Registered
    /\ \A t \in Tasks : pc[t] = "enqueue" => head[t] \in Registered

GInv == TInv /\ Pinned /\ Clock /\ Scanned /\ Owes /\ Known /\ GracePeriod

LEMMA YieldCpu ==
    ASSUME GInv, NEW c \in CPUs, scheduler_yield(c)
    PROVE  /\ \A t \in reading : cpuid[t] # c
           /\ \E v \in {Jiffs, now} : rcu_timestamp' = [rcu_timestamp EXCEPT ![c] = v]
           /\ \A d \in CPUs \ {c} : run'[d] = run[d] /\ (d \in switching' <=> d \in switching)
<1>1. \A t \in reading : cpuid[t] # c
  BY DEF GInv, Pinned, scheduler_yield, MayYield
<1>2. CASE \E p \in Threads : SwitchTo(c, p)
  BY <1>1, <1>2 DEF GInv, TInv, TypeOK, SwitchTo
<1>3. CASE rcu_note_context_switch(c) /\ UNCHANGED switching
  BY <1>1, <1>3 DEF rcu_note_context_switch
<1>. QED  BY <1>2, <1>3 DEF scheduler_yield

LEMMA NoReaderHere ==
    ASSUME GInv, NEW p \in Threads, Running(p), pc[p] \notin {"idle", "enqueue"}
    PROVE  \A u \in reading : cpuid[u] # CpuOf(p)
  BY DEF GInv, Pinned, Running

LEMMA NoReaderAtCheck ==
    ASSUME GInv, NEW t \in Tasks, barrier_check(t)
    PROVE  \A u \in reading : cpuid[u] # cpuid[t]
<1>1. CpuOf(t) = cpuid[t] /\ t \in Threads
  BY CpuAssumption DEF CpuOf, Threads
<1>2. Running(t) /\ pc[t] = "check"
  BY DEF barrier_check, At
<1>. QED  BY <1>1, <1>2, NoReaderHere

LEMMA NoReaderAtTake ==
    ASSUME GInv, NEW p \in Threads, take_pending(p)
    PROVE  \A u \in reading : cpuid[u] # CpuOf(p)
<1>1. Running(p) /\ pc[p] = "process"
  BY DEF take_pending, At
<1>. QED  BY <1>1, NoReaderHere

LEMMA BarrierCheckSync ==
    ASSUME NEW t \in Tasks, barrier_check(t)
    PROVE  /\ At(t, "check")
           /\ \E then \in {"returned", "again"} : SyncStart(t, then, {t})
           /\ UNCHANGED <<now, cpuVars, readVars, scanVars, listVars, head>>
  BY DEF barrier_check

\* A reader keeps its CPU: what other threads do there waits for it.
LEMMA PinnedStep ==
    ASSUME GInv, TInv', [Next]_vars
    PROVE  Pinned'
<1>. USE CpuAssumption, BoundAssumption
     DEF GInv, TInv, TypeOK, Pinned, Times, Conts, Threads,
         CpuOf, At, Running, Goto, cpuVars, readVars, scanVars, listVars, syncVars, ghostVars
<1>1. ASSUME Tick PROVE Pinned'
  BY <1>1 DEF Tick
<1>2. ASSUME NEW c \in CPUs, Yield(c) PROVE Pinned'
  <2>1. scheduler_yield(c) /\ c \in CPUs
    BY <1>2 DEF Yield
  <2>2. /\ \A u \in reading : cpuid[u] # c
        /\ \A d \in CPUs \ {c} : run'[d] = run[d] /\ (d \in switching' <=> d \in switching)
    BY <2>1, YieldCpu
  <2>. QED  BY <1>2, <2>1, <2>2 DEF Yield
<1>3. ASSUME NEW c \in CPUs, SwitchEnd(c) PROVE Pinned'
  BY <1>3 DEF SwitchEnd, rcu_note_context_switch
<1>4. ASSUME NEW c \in CPUs, kthread_wakeup(c) PROVE Pinned'
  BY <1>4 DEF kthread_wakeup, ScanStart
<1>5. ASSUME NEW t \in Tasks, rcu_read_lock(t) PROVE Pinned'
  BY <1>5 DEF rcu_read_lock
<1>6. ASSUME NEW t \in Tasks, rcu_read_unlock(t) PROVE Pinned'
  BY <1>6 DEF rcu_read_unlock
<1>7. ASSUME NEW t \in Tasks, call_rcu_enqueue(t) PROVE Pinned'
  BY <1>7 DEF call_rcu_enqueue, rcu_cblist_enqueue
<1>8. ASSUME NEW t \in Tasks, call_rcu_func(t) PROVE Pinned'
  BY <1>8 DEF call_rcu_func, Invoke
<1>9. ASSUME NEW t \in Tasks, synchronize_rcu(t) PROVE Pinned'
  BY <1>9 DEF synchronize_rcu, SyncStart
<1>10. ASSUME NEW t \in Tasks, sync_note(t) PROVE Pinned'
  BY <1>10 DEF sync_note, rcu_note_context_switch, ScanStart
<1>11. ASSUME NEW t \in Tasks, sync_return(t) PROVE Pinned'
  BY <1>11 DEF sync_return, SyncReturn, ScanStart, ScanEnd
<1>12. ASSUME NEW t \in Tasks, sync_yield(t) PROVE Pinned'
  <2>1. scheduler_yield(cpuid[t]) /\ cpuid[t] \in CPUs
    BY <1>12 DEF sync_yield
  <2>2. /\ \A u \in reading : cpuid[u] # cpuid[t]
        /\ \A d \in CPUs \ {cpuid[t]} : run'[d] = run[d] /\ (d \in switching' <=> d \in switching)
    BY <2>1, YieldCpu
  <2>. QED  BY <1>12, <2>1, <2>2 DEF sync_yield
<1>13. ASSUME NEW t \in Tasks, sync_give_up(t) PROVE Pinned'
  BY <1>13 DEF sync_give_up, SyncReturn, ScanStart, ScanEnd
<1>14. ASSUME NEW t \in Tasks, rcu_barrier(t) PROVE Pinned'
  BY <1>14 DEF rcu_barrier, SyncStart
<1>15. ASSUME NEW t \in Tasks, barrier_check(t) PROVE Pinned'
  <2>1. pc' = [pc EXCEPT ![t] = "note"] /\ pc[t] = "check"
    BY <1>15, BarrierCheckSync DEF SyncStart
  <2>. QED  BY <1>15, <2>1 DEF barrier_check
<1>16. ASSUME NEW t \in Tasks, barrier_again(t) PROVE Pinned'
  <2>1. scheduler_yield(cpuid[t]) /\ cpuid[t] \in CPUs
    BY <1>16 DEF barrier_again
  <2>2. /\ \A u \in reading : cpuid[u] # cpuid[t]
        /\ \A d \in CPUs \ {cpuid[t]} : run'[d] = run[d] /\ (d \in switching' <=> d \in switching)
    BY <2>1, YieldCpu
  <2>. QED  BY <1>16, <2>1, <2>2 DEF barrier_again
<1>17. ASSUME NEW t \in Tasks, barrier_return(t) PROVE Pinned'
  BY <1>17 DEF barrier_return
<1>18. ASSUME NEW t \in Tasks, NEW b \in Callbacks, call_rcu(t, b) PROVE Pinned'
  BY <1>18 DEF call_rcu
<1>19. ASSUME NEW t \in Tasks, NEW b \in Callbacks, call_rcu_nomem(t, b) PROVE Pinned'
  BY <1>19 DEF call_rcu_nomem, SyncStart
<1>20. ASSUME NEW p \in Threads, rcu_get_min_other_cpu_timestamp(p) PROVE Pinned'
  BY <1>20 DEF rcu_get_min_other_cpu_timestamp, ScanCpu
<1>21. ASSUME NEW p \in Threads, take_pending(p) PROVE Pinned'
  BY <1>21 DEF take_pending, ScanEnd, CallbackReady
<1>22. ASSUME NEW p \in Threads, rcu_invoke_callbacks(p) PROVE Pinned'
  BY <1>22 DEF rcu_invoke_callbacks, Invoke
<1>23. ASSUME NEW p \in Threads, put_back(p) PROVE Pinned'
  BY <1>23 DEF put_back, PutBack
<1>24. CASE UNCHANGED vars
  BY <1>24 DEF vars
<1>. QED
  BY <1>1, <1>2, <1>3, <1>4, <1>5, <1>6, <1>7, <1>8, <1>9, <1>10, <1>11, <1>12, <1>13,
     <1>14, <1>15, <1>16, <1>17, <1>18, <1>19, <1>20, <1>21, <1>22, <1>23, <1>24
  DEF Next, Process, Start, Continue

\* Timestamps are of the past, and of a time before a reader there began.
LEMMA ClockStep ==
    ASSUME GInv, TInv', [Next]_vars
    PROVE  Clock'
<1>. USE CpuAssumption, BoundAssumption
     DEF GInv, TInv, TypeOK, Pinned, Clock, Times, Conts, Threads,
         CpuOf, At, Running, Goto, cpuVars, readVars, scanVars, listVars, syncVars, ghostVars
<1>1. ASSUME Tick PROVE Clock'
  BY <1>1 DEF Tick
<1>2. ASSUME NEW c \in CPUs, Yield(c) PROVE Clock'
  <2>1. scheduler_yield(c) /\ c \in CPUs
    BY <1>2 DEF Yield
  <2>2. PICK v \in {Jiffs, now} : rcu_timestamp' = [rcu_timestamp EXCEPT ![c] = v]
    BY <2>1, YieldCpu
  <2>3. /\ \A u \in reading : cpuid[u] # c
        /\ \A d \in CPUs \ {c} : run'[d] = run[d] /\ (d \in switching' <=> d \in switching)
    BY <2>1, YieldCpu
  <2>. QED  BY <1>2, <2>1, <2>2, <2>3 DEF Yield, Jiffs
<1>3. ASSUME NEW c \in CPUs, SwitchEnd(c) PROVE Clock'
  BY <1>3 DEF SwitchEnd, rcu_note_context_switch
<1>4. ASSUME NEW c \in CPUs, kthread_wakeup(c) PROVE Clock'
  BY <1>4 DEF kthread_wakeup, ScanStart
<1>5. ASSUME NEW t \in Tasks, rcu_read_lock(t) PROVE Clock'
  <2>1. since' = [since EXCEPT ![t] = now] /\ reading' = reading \cup {t} /\ UNCHANGED <<now, rcu_timestamp>>
    BY <1>5 DEF rcu_read_lock
  <2>2. rcu_timestamp[cpuid[t]] <= now
    OBVIOUS
  <2>. QED  BY <2>1, <2>2
<1>6. ASSUME NEW t \in Tasks, rcu_read_unlock(t) PROVE Clock'
  BY <1>6 DEF rcu_read_unlock
<1>7. ASSUME NEW t \in Tasks, call_rcu_enqueue(t) PROVE Clock'
  BY <1>7 DEF call_rcu_enqueue, rcu_cblist_enqueue
<1>8. ASSUME NEW t \in Tasks, call_rcu_func(t) PROVE Clock'
  BY <1>8 DEF call_rcu_func, Invoke
<1>9. ASSUME NEW t \in Tasks, synchronize_rcu(t) PROVE Clock'
  BY <1>9 DEF synchronize_rcu, SyncStart
<1>10. ASSUME NEW t \in Tasks, sync_note(t) PROVE Clock'
  <2>0. Running(t) /\ pc[t] = "note" /\ CpuOf(t) = cpuid[t] /\ t \in Threads
    BY <1>10 DEF sync_note
  <2>1. \A u \in reading : cpuid[u] # cpuid[t]
    BY <2>0, NoReaderHere
  <2>2. rcu_timestamp' = [rcu_timestamp EXCEPT ![cpuid[t]] = now] /\ UNCHANGED <<now, readVars>>
    BY <1>10 DEF sync_note, rcu_note_context_switch
  <2>. QED  BY <2>1, <2>2
<1>11. ASSUME NEW t \in Tasks, sync_return(t) PROVE Clock'
  BY <1>11 DEF sync_return, SyncReturn, ScanStart, ScanEnd
<1>12. ASSUME NEW t \in Tasks, sync_yield(t) PROVE Clock'
  <2>1. scheduler_yield(cpuid[t]) /\ cpuid[t] \in CPUs
    BY <1>12 DEF sync_yield
  <2>2. PICK v \in {Jiffs, now} : rcu_timestamp' = [rcu_timestamp EXCEPT ![cpuid[t]] = v]
    BY <2>1, YieldCpu
  <2>3. /\ \A u \in reading : cpuid[u] # cpuid[t]
        /\ \A d \in CPUs \ {cpuid[t]} : run'[d] = run[d] /\ (d \in switching' <=> d \in switching)
    BY <2>1, YieldCpu
  <2>. QED  BY <1>12, <2>1, <2>2, <2>3 DEF sync_yield, Jiffs
<1>13. ASSUME NEW t \in Tasks, sync_give_up(t) PROVE Clock'
  BY <1>13 DEF sync_give_up, SyncReturn, ScanStart, ScanEnd
<1>14. ASSUME NEW t \in Tasks, rcu_barrier(t) PROVE Clock'
  BY <1>14 DEF rcu_barrier, SyncStart
<1>15. ASSUME NEW t \in Tasks, barrier_check(t) PROVE Clock'
  BY <1>15, BarrierCheckSync DEF SyncStart
<1>16. ASSUME NEW t \in Tasks, barrier_again(t) PROVE Clock'
  <2>1. scheduler_yield(cpuid[t]) /\ cpuid[t] \in CPUs
    BY <1>16 DEF barrier_again
  <2>2. PICK v \in {Jiffs, now} : rcu_timestamp' = [rcu_timestamp EXCEPT ![cpuid[t]] = v]
    BY <2>1, YieldCpu
  <2>3. /\ \A u \in reading : cpuid[u] # cpuid[t]
        /\ \A d \in CPUs \ {cpuid[t]} : run'[d] = run[d] /\ (d \in switching' <=> d \in switching)
    BY <2>1, YieldCpu
  <2>. QED  BY <1>16, <2>1, <2>2, <2>3 DEF barrier_again, Jiffs
<1>17. ASSUME NEW t \in Tasks, barrier_return(t) PROVE Clock'
  BY <1>17 DEF barrier_return
<1>18. ASSUME NEW t \in Tasks, NEW b \in Callbacks, call_rcu(t, b) PROVE Clock'
  BY <1>18 DEF call_rcu
<1>19. ASSUME NEW t \in Tasks, NEW b \in Callbacks, call_rcu_nomem(t, b) PROVE Clock'
  BY <1>19 DEF call_rcu_nomem, SyncStart
<1>20. ASSUME NEW p \in Threads, rcu_get_min_other_cpu_timestamp(p) PROVE Clock'
  BY <1>20 DEF rcu_get_min_other_cpu_timestamp, ScanCpu
<1>21. ASSUME NEW p \in Threads, take_pending(p) PROVE Clock'
  BY <1>21 DEF take_pending, ScanEnd, CallbackReady
<1>22. ASSUME NEW p \in Threads, rcu_invoke_callbacks(p) PROVE Clock'
  BY <1>22 DEF rcu_invoke_callbacks, Invoke
<1>23. ASSUME NEW p \in Threads, put_back(p) PROVE Clock'
  BY <1>23 DEF put_back, PutBack
<1>24. CASE UNCHANGED vars
  BY <1>24 DEF vars
<1>. QED
  BY <1>1, <1>2, <1>3, <1>4, <1>5, <1>6, <1>7, <1>8, <1>9, <1>10, <1>11, <1>12, <1>13,
     <1>14, <1>15, <1>16, <1>17, <1>18, <1>19, <1>20, <1>21, <1>22, <1>23, <1>24
  DEF Next, Process, Start, Continue

\* A scan never keeps a timestamp younger than a reader on a CPU it has passed.
LEMMA ScannedStep ==
    ASSUME GInv, TInv', [Next]_vars
    PROVE  Scanned'
<1>. USE CpuAssumption, BoundAssumption
     DEF GInv, TInv, TypeOK, Pinned, Clock, Scanned, Times, Conts, Threads,
         CpuOf, At, Running, Goto, cpuVars, readVars, scanVars, listVars, syncVars, ghostVars
<1>1. ASSUME Tick PROVE Scanned'
  BY <1>1 DEF Tick
<1>2. ASSUME NEW c \in CPUs, Yield(c) PROVE Scanned'
  BY <1>2 DEF Yield, scheduler_yield, SwitchTo, Runnable, rcu_note_context_switch, MayYield, Jiffs
<1>3. ASSUME NEW c \in CPUs, SwitchEnd(c) PROVE Scanned'
  BY <1>3 DEF SwitchEnd, rcu_note_context_switch
<1>4. ASSUME NEW c \in CPUs, kthread_wakeup(c) PROVE Scanned'
  BY <1>4 DEF kthread_wakeup, ScanStart
<1>5. ASSUME NEW t \in Tasks, rcu_read_lock(t) PROVE Scanned'
  BY <1>5 DEF rcu_read_lock
<1>6. ASSUME NEW t \in Tasks, rcu_read_unlock(t) PROVE Scanned'
  BY <1>6 DEF rcu_read_unlock
<1>7. ASSUME NEW t \in Tasks, call_rcu_enqueue(t) PROVE Scanned'
  BY <1>7 DEF call_rcu_enqueue, rcu_cblist_enqueue
<1>8. ASSUME NEW t \in Tasks, call_rcu_func(t) PROVE Scanned'
  BY <1>8 DEF call_rcu_func, Invoke
<1>9. ASSUME NEW t \in Tasks, synchronize_rcu(t) PROVE Scanned'
  BY <1>9 DEF synchronize_rcu, SyncStart
<1>10. ASSUME NEW t \in Tasks, sync_note(t) PROVE Scanned'
  BY <1>10 DEF sync_note, rcu_note_context_switch, ScanStart
<1>11. ASSUME NEW t \in Tasks, sync_return(t) PROVE Scanned'
  BY <1>11 DEF sync_return, SyncReturn, ScanStart, ScanEnd
<1>12. ASSUME NEW t \in Tasks, sync_yield(t) PROVE Scanned'
  BY <1>12 DEF sync_yield, scheduler_yield, SwitchTo, rcu_note_context_switch, MayYield, ScanStart, Jiffs
<1>13. ASSUME NEW t \in Tasks, sync_give_up(t) PROVE Scanned'
  BY <1>13 DEF sync_give_up, SyncReturn, ScanStart, ScanEnd
<1>14. ASSUME NEW t \in Tasks, rcu_barrier(t) PROVE Scanned'
  BY <1>14 DEF rcu_barrier, SyncStart
<1>15. ASSUME NEW t \in Tasks, barrier_check(t) PROVE Scanned'
  <2>1. pc' = [pc EXCEPT ![t] = "note"] /\ UNCHANGED <<now, readVars, scanVars>>
    BY <1>15, BarrierCheckSync DEF SyncStart
  <2>. QED  BY <2>1
<1>16. ASSUME NEW t \in Tasks, barrier_again(t) PROVE Scanned'
  BY <1>16 DEF barrier_again, scheduler_yield, SwitchTo, rcu_note_context_switch, MayYield, ScanStart, Jiffs
<1>17. ASSUME NEW t \in Tasks, barrier_return(t) PROVE Scanned'
  BY <1>17 DEF barrier_return
<1>18. ASSUME NEW t \in Tasks, NEW b \in Callbacks, call_rcu(t, b) PROVE Scanned'
  BY <1>18 DEF call_rcu
<1>19. ASSUME NEW t \in Tasks, NEW b \in Callbacks, call_rcu_nomem(t, b) PROVE Scanned'
  BY <1>19 DEF call_rcu_nomem, SyncStart
<1>20. ASSUME NEW p \in Threads, rcu_get_min_other_cpu_timestamp(p) PROVE Scanned'
  BY <1>20 DEF rcu_get_min_other_cpu_timestamp, ScanCpu
<1>21. ASSUME NEW p \in Threads, take_pending(p) PROVE Scanned'
  BY <1>21 DEF take_pending, ScanEnd, CallbackReady
<1>22. ASSUME NEW p \in Threads, rcu_invoke_callbacks(p) PROVE Scanned'
  BY <1>22 DEF rcu_invoke_callbacks, Invoke
<1>23. ASSUME NEW p \in Threads, put_back(p) PROVE Scanned'
  BY <1>23 DEF put_back, PutBack
<1>24. CASE UNCHANGED vars
  BY <1>24 DEF vars
<1>. QED
  BY <1>1, <1>2, <1>3, <1>4, <1>5, <1>6, <1>7, <1>8, <1>9, <1>10, <1>11, <1>12, <1>13,
     <1>14, <1>15, <1>16, <1>17, <1>18, <1>19, <1>20, <1>21, <1>22, <1>23, <1>24
  DEF Next, Process, Start, Continue

\* A waiting thread waits for readers on other CPUs only.
LEMMA OwesStep ==
    ASSUME GInv, TInv', [Next]_vars
    PROVE  Owes'
<1>. USE CpuAssumption, BoundAssumption
     DEF GInv, TInv, TypeOK, Pinned, Owes, Times, Conts, Threads,
         CpuOf, At, Running, Goto, cpuVars, readVars, scanVars, listVars, syncVars, ghostVars
<1>1. ASSUME Tick PROVE Owes'
  BY <1>1 DEF Tick
<1>2. ASSUME NEW c \in CPUs, Yield(c) PROVE Owes'
  BY <1>2 DEF Yield, scheduler_yield, SwitchTo, Runnable, rcu_note_context_switch, MayYield, Jiffs
<1>3. ASSUME NEW c \in CPUs, SwitchEnd(c) PROVE Owes'
  BY <1>3 DEF SwitchEnd, rcu_note_context_switch
<1>4. ASSUME NEW c \in CPUs, kthread_wakeup(c) PROVE Owes'
  BY <1>4 DEF kthread_wakeup, ScanStart
<1>5. ASSUME NEW t \in Tasks, rcu_read_lock(t) PROVE Owes'
  BY <1>5 DEF rcu_read_lock
<1>6. ASSUME NEW t \in Tasks, rcu_read_unlock(t) PROVE Owes'
  BY <1>6 DEF rcu_read_unlock
<1>7. ASSUME NEW t \in Tasks, call_rcu_enqueue(t) PROVE Owes'
  BY <1>7 DEF call_rcu_enqueue, rcu_cblist_enqueue
<1>8. ASSUME NEW t \in Tasks, call_rcu_func(t) PROVE Owes'
  BY <1>8 DEF call_rcu_func, Invoke
<1>9. ASSUME NEW t \in Tasks, synchronize_rcu(t) PROVE Owes'
  BY <1>9 DEF synchronize_rcu, SyncStart
<1>10. ASSUME NEW t \in Tasks, sync_note(t) PROVE Owes'
  BY <1>10 DEF sync_note, rcu_note_context_switch, ScanStart
<1>11. ASSUME NEW t \in Tasks, sync_return(t) PROVE Owes'
  BY <1>11 DEF sync_return, SyncReturn, ScanStart, ScanEnd
<1>12. ASSUME NEW t \in Tasks, sync_yield(t) PROVE Owes'
  BY <1>12 DEF sync_yield, scheduler_yield, SwitchTo, rcu_note_context_switch, MayYield, ScanStart, Jiffs
<1>13. ASSUME NEW t \in Tasks, sync_give_up(t) PROVE Owes'
  BY <1>13 DEF sync_give_up, SyncReturn, ScanStart, ScanEnd
<1>14. ASSUME NEW t \in Tasks, rcu_barrier(t) PROVE Owes'
  BY <1>14 DEF rcu_barrier, SyncStart
<1>15. ASSUME NEW t \in Tasks, barrier_check(t) PROVE Owes'
  <2>1. PICK then : SyncStart(t, then, {t})
    BY <1>15, BarrierCheckSync
  <2>2. reading' = reading
    BY <1>15, BarrierCheckSync
  <2>3. \A u \in reading : cpuid[u] # cpuid[t]
    BY <1>15, NoReaderAtCheck
  <2>. QED  BY <2>1, <2>2, <2>3 DEF SyncStart
<1>16. ASSUME NEW t \in Tasks, barrier_again(t) PROVE Owes'
  BY <1>16 DEF barrier_again, scheduler_yield, SwitchTo, rcu_note_context_switch, MayYield, ScanStart, Jiffs
<1>17. ASSUME NEW t \in Tasks, barrier_return(t) PROVE Owes'
  BY <1>17 DEF barrier_return
<1>18. ASSUME NEW t \in Tasks, NEW b \in Callbacks, call_rcu(t, b) PROVE Owes'
  BY <1>18 DEF call_rcu
<1>19. ASSUME NEW t \in Tasks, NEW b \in Callbacks, call_rcu_nomem(t, b) PROVE Owes'
  BY <1>19 DEF call_rcu_nomem, SyncStart
<1>20. ASSUME NEW p \in Threads, rcu_get_min_other_cpu_timestamp(p) PROVE Owes'
  BY <1>20 DEF rcu_get_min_other_cpu_timestamp, ScanCpu
<1>21. ASSUME NEW p \in Threads, take_pending(p) PROVE Owes'
  BY <1>21 DEF take_pending, ScanEnd, CallbackReady
<1>22. ASSUME NEW p \in Threads, rcu_invoke_callbacks(p) PROVE Owes'
  BY <1>22 DEF rcu_invoke_callbacks, Invoke
<1>23. ASSUME NEW p \in Threads, put_back(p) PROVE Owes'
  BY <1>23 DEF put_back, PutBack
<1>24. CASE UNCHANGED vars
  BY <1>24 DEF vars
<1>. QED
  BY <1>1, <1>2, <1>3, <1>4, <1>5, <1>6, <1>7, <1>8, <1>9, <1>10, <1>11, <1>12, <1>13,
     <1>14, <1>15, <1>16, <1>17, <1>18, <1>19, <1>20, <1>21, <1>22, <1>23, <1>24
  DEF Next, Process, Start, Continue

\* Callbacks in a list are registered.
LEMMA KnownStep ==
    ASSUME GInv, TInv', [Next]_vars
    PROVE  Known'
<1>. USE CpuAssumption, BoundAssumption
     DEF GInv, TInv, TypeOK, Known, Registered, Times, Conts, Threads,
         CpuOf, At, Running, Goto, cpuVars, readVars, scanVars, listVars, syncVars, ghostVars
<1>1. ASSUME Tick PROVE Known'
  BY <1>1 DEF Tick
<1>2. ASSUME NEW c \in CPUs, Yield(c) PROVE Known'
  BY <1>2 DEF Yield, scheduler_yield, SwitchTo, Runnable, rcu_note_context_switch, MayYield, Jiffs
<1>3. ASSUME NEW c \in CPUs, SwitchEnd(c) PROVE Known'
  BY <1>3 DEF SwitchEnd, rcu_note_context_switch
<1>4. ASSUME NEW c \in CPUs, kthread_wakeup(c) PROVE Known'
  BY <1>4 DEF kthread_wakeup, ScanStart
<1>5. ASSUME NEW t \in Tasks, rcu_read_lock(t) PROVE Known'
  BY <1>5 DEF rcu_read_lock
<1>6. ASSUME NEW t \in Tasks, rcu_read_unlock(t) PROVE Known'
  BY <1>6 DEF rcu_read_unlock
<1>7. ASSUME NEW t \in Tasks, call_rcu_enqueue(t) PROVE Known'
  BY <1>7 DEF call_rcu_enqueue, rcu_cblist_enqueue
<1>8. ASSUME NEW t \in Tasks, call_rcu_func(t) PROVE Known'
  BY <1>8 DEF call_rcu_func, Invoke
<1>9. ASSUME NEW t \in Tasks, synchronize_rcu(t) PROVE Known'
  BY <1>9 DEF synchronize_rcu, SyncStart
<1>10. ASSUME NEW t \in Tasks, sync_note(t) PROVE Known'
  BY <1>10 DEF sync_note, rcu_note_context_switch, ScanStart
<1>11. ASSUME NEW t \in Tasks, sync_return(t) PROVE Known'
  <2>1. \A b \in Callbacks : stamp'[b] = stamp[b]
    BY <1>11 DEF sync_return, SyncReturn
  <2>2. pc' = [pc EXCEPT ![t] = cont[t]] /\ cont[t] # "enqueue"
    BY <1>11 DEF sync_return, SyncReturn
  <2>. QED  BY <1>11, <2>1, <2>2 DEF sync_return
<1>12. ASSUME NEW t \in Tasks, sync_yield(t) PROVE Known'
  BY <1>12 DEF sync_yield, scheduler_yield, SwitchTo, rcu_note_context_switch, MayYield, ScanStart, Jiffs
<1>13. ASSUME NEW t \in Tasks, sync_give_up(t) PROVE Known'
  <2>1. \A b \in Callbacks : stamp'[b] = stamp[b]
    BY <1>13 DEF sync_give_up, SyncReturn
  <2>2. pc' = [pc EXCEPT ![t] = cont[t]] /\ cont[t] # "enqueue"
    BY <1>13 DEF sync_give_up, SyncReturn
  <2>. QED  BY <1>13, <2>1, <2>2 DEF sync_give_up
<1>14. ASSUME NEW t \in Tasks, rcu_barrier(t) PROVE Known'
  BY <1>14 DEF rcu_barrier, SyncStart
<1>15. ASSUME NEW t \in Tasks, barrier_check(t) PROVE Known'
  <2>1. PICK then : SyncStart(t, then, {t})
    BY <1>15, BarrierCheckSync
  <2>2. UNCHANGED <<pending, ready, notready, invoked, head>>
    BY <1>15, BarrierCheckSync
  <2>3. pc' = [pc EXCEPT ![t] = "note"] /\ \A b \in Callbacks : stamp'[b] = stamp[b]
    BY <2>1 DEF SyncStart
  <2>. QED  BY <2>2, <2>3
<1>16. ASSUME NEW t \in Tasks, barrier_again(t) PROVE Known'
  BY <1>16 DEF barrier_again, scheduler_yield, SwitchTo, rcu_note_context_switch, MayYield, ScanStart, Jiffs
<1>17. ASSUME NEW t \in Tasks, barrier_return(t) PROVE Known'
  BY <1>17 DEF barrier_return
<1>18. ASSUME NEW t \in Tasks, NEW b \in Callbacks, call_rcu(t, b) PROVE Known'
  <2>1. Registered \subseteq Registered' /\ b \in Registered'
    BY <1>18 DEF call_rcu, Clock
  <2>. QED  BY <1>18, <2>1 DEF call_rcu
<1>19. ASSUME NEW t \in Tasks, NEW b \in Callbacks, call_rcu_nomem(t, b) PROVE Known'
  BY <1>19 DEF call_rcu_nomem, SyncStart
<1>20. ASSUME NEW p \in Threads, rcu_get_min_other_cpu_timestamp(p) PROVE Known'
  BY <1>20 DEF rcu_get_min_other_cpu_timestamp, ScanCpu
<1>21. ASSUME NEW p \in Threads, take_pending(p) PROVE Known'
  BY <1>21 DEF take_pending, ScanEnd, CallbackReady
<1>22. ASSUME NEW p \in Threads, rcu_invoke_callbacks(p) PROVE Known'
  BY <1>22 DEF rcu_invoke_callbacks, Invoke
<1>23. ASSUME NEW p \in Threads, put_back(p) PROVE Known'
  BY <1>23 DEF put_back, PutBack
<1>24. CASE UNCHANGED vars
  BY <1>24 DEF vars
<1>. QED
  BY <1>1, <1>2, <1>3, <1>4, <1>5, <1>6, <1>7, <1>8, <1>9, <1>10, <1>11, <1>12, <1>13,
     <1>14, <1>15, <1>16, <1>17, <1>18, <1>19, <1>20, <1>21, <1>22, <1>23, <1>24
  DEF Next, Process, Start, Continue

\* take_pending() is the step that has something to show.
LEMMA GracePeriodStep ==
    ASSUME GInv, TInv', [Next]_vars
    PROVE  GracePeriod'
<1>. USE CpuAssumption, BoundAssumption
     DEF GInv, TInv, TypeOK, Pinned, Scanned, Owes, Known, Registered, GracePeriod, OldReadersGone, Times, Conts, Threads,
         CpuOf, At, Running, Goto, cpuVars, readVars, scanVars, listVars, syncVars, ghostVars
<1>1. ASSUME Tick PROVE GracePeriod'
  BY <1>1 DEF Tick
<1>2. ASSUME NEW c \in CPUs, Yield(c) PROVE GracePeriod'
  BY <1>2 DEF Yield, scheduler_yield, SwitchTo, Runnable, rcu_note_context_switch, MayYield, Jiffs
<1>3. ASSUME NEW c \in CPUs, SwitchEnd(c) PROVE GracePeriod'
  BY <1>3 DEF SwitchEnd, rcu_note_context_switch
<1>4. ASSUME NEW c \in CPUs, kthread_wakeup(c) PROVE GracePeriod'
  BY <1>4 DEF kthread_wakeup, ScanStart
<1>5. ASSUME NEW t \in Tasks, rcu_read_lock(t) PROVE GracePeriod'
  BY <1>5 DEF rcu_read_lock
<1>6. ASSUME NEW t \in Tasks, rcu_read_unlock(t) PROVE GracePeriod'
  BY <1>6 DEF rcu_read_unlock
<1>7. ASSUME NEW t \in Tasks, call_rcu_enqueue(t) PROVE GracePeriod'
  BY <1>7 DEF call_rcu_enqueue, rcu_cblist_enqueue
<1>8. ASSUME NEW t \in Tasks, call_rcu_func(t) PROVE GracePeriod'
  BY <1>8 DEF call_rcu_func, Invoke
<1>9. ASSUME NEW t \in Tasks, synchronize_rcu(t) PROVE GracePeriod'
  BY <1>9 DEF synchronize_rcu, SyncStart
<1>10. ASSUME NEW t \in Tasks, sync_note(t) PROVE GracePeriod'
  BY <1>10 DEF sync_note, rcu_note_context_switch, ScanStart
<1>11. ASSUME NEW t \in Tasks, sync_return(t) PROVE GracePeriod'
  BY <1>11 DEF sync_return, SyncReturn, ScanStart, ScanEnd
<1>12. ASSUME NEW t \in Tasks, sync_yield(t) PROVE GracePeriod'
  BY <1>12 DEF sync_yield, scheduler_yield, SwitchTo, rcu_note_context_switch, MayYield, ScanStart, Jiffs
<1>13. ASSUME NEW t \in Tasks, sync_give_up(t) PROVE GracePeriod'
  BY <1>13 DEF sync_give_up, SyncReturn, ScanStart, ScanEnd
<1>14. ASSUME NEW t \in Tasks, rcu_barrier(t) PROVE GracePeriod'
  BY <1>14 DEF rcu_barrier, SyncStart
<1>15. ASSUME NEW t \in Tasks, barrier_check(t) PROVE GracePeriod'
  <2>1. PICK then : SyncStart(t, then, {t})
    BY <1>15, BarrierCheckSync
  <2>2. UNCHANGED <<ready, since>>
    BY <1>15, BarrierCheckSync
  <2>3. \A b \in Callbacks : stamp'[b] = stamp[b] /\ must'[b] = must[b]
    BY <2>1 DEF SyncStart
  <2>. QED  BY <2>2, <2>3
<1>16. ASSUME NEW t \in Tasks, barrier_again(t) PROVE GracePeriod'
  BY <1>16 DEF barrier_again, scheduler_yield, SwitchTo, rcu_note_context_switch, MayYield, ScanStart, Jiffs
<1>17. ASSUME NEW t \in Tasks, barrier_return(t) PROVE GracePeriod'
  BY <1>17 DEF barrier_return
<1>18. ASSUME NEW t \in Tasks, NEW b \in Callbacks, call_rcu(t, b) PROVE GracePeriod'
  BY <1>18 DEF call_rcu
<1>19. ASSUME NEW t \in Tasks, NEW b \in Callbacks, call_rcu_nomem(t, b) PROVE GracePeriod'
  BY <1>19 DEF call_rcu_nomem, SyncStart
<1>20. ASSUME NEW p \in Threads, rcu_get_min_other_cpu_timestamp(p) PROVE GracePeriod'
  BY <1>20 DEF rcu_get_min_other_cpu_timestamp, ScanCpu
<1>21. ASSUME NEW p \in Threads, take_pending(p) PROVE GracePeriod'
  <2>. SUFFICES ASSUME NEW b \in pending[CpuOf(p)], CallbackReady(p, b), NEW u \in must[b]
                PROVE  since[u] >= stamp[b]
    BY <1>21 DEF take_pending
  <2>1. u \in reading /\ u \in Tasks /\ stamp[b] <= min[p]
    BY DEF CallbackReady
  <2>2. cpuid[u] # CpuOf(p)
    BY <1>21, <2>1, NoReaderAtTake
  <2>3. min[p] <= since[u]
    BY <1>21, <2>1, <2>2 DEF take_pending
  <2>4. b \in Callbacks /\ min[p] \in Int /\ since[u] \in Int /\ stamp[b] \in Int
    BY <2>1
  <2>. QED  BY <2>1, <2>3, <2>4
<1>22. ASSUME NEW p \in Threads, rcu_invoke_callbacks(p) PROVE GracePeriod'
  BY <1>22 DEF rcu_invoke_callbacks, Invoke
<1>23. ASSUME NEW p \in Threads, put_back(p) PROVE GracePeriod'
  BY <1>23 DEF put_back, PutBack
<1>24. CASE UNCHANGED vars
  BY <1>24 DEF vars
<1>. QED
  BY <1>1, <1>2, <1>3, <1>4, <1>5, <1>6, <1>7, <1>8, <1>9, <1>10, <1>11, <1>12, <1>13,
     <1>14, <1>15, <1>16, <1>17, <1>18, <1>19, <1>20, <1>21, <1>22, <1>23, <1>24
  DEF Next, Process, Start, Continue

LEMMA GInit ==
    ASSUME Booting = {}, Init
    PROVE  GInv
<1>1. TInv
  BY TypeInit
<1>2. Pinned /\ Clock /\ Scanned
  BY CpuAssumption DEF Init, Pinned, Clock, Scanned, Threads, Jiffs
<1>3. Owes /\ Known /\ GracePeriod
  BY CpuAssumption DEF Init, Owes, Known, GracePeriod, Threads
<1>. QED  BY <1>1, <1>2, <1>3 DEF GInv

LEMMA GStep ==
    ASSUME GInv, [Next]_vars
    PROVE  GInv'
<1>1. TInv'
  BY TypeStep DEF GInv
<1>. QED
  BY <1>1, PinnedStep, ClockStep, ScannedStep, OwesStep, KnownStep, GracePeriodStep DEF GInv

\* synchronize_rcu() returns for the same reason as a callback is ready; on its
\* own CPU nobody has been waiting for it.
LEMMA GInvSync == GInv => SyncGracePeriod
<1>. SUFFICES ASSUME GInv, NEW t \in Tasks, pc[t] = "sync", left[t] = {}, SyncDone(t),
                     NEW u \in must[t]
              PROVE  since[u] >= stamp[t]
  BY DEF SyncGracePeriod, OldReadersGone
<1>1. u \in reading /\ cpuid[u] # cpuid[t] /\ u \in Tasks
  BY DEF GInv, Owes, TInv, TypeOK
<1>2. t \in Threads /\ CpuOf(t) = cpuid[t] /\ cpuid[u] \in CPUs
  BY <1>1, CpuAssumption DEF Threads, CpuOf
<1>3. min[t] <= since[u]
  BY <1>1, <1>2 DEF GInv, Scanned
<1>4. min[t] \in Int /\ since[u] \in Int /\ stamp[t] \in Int
  BY <1>1, <1>2 DEF GInv, TInv, TypeOK, Times
<1>. QED  BY <1>3, <1>4 DEF SyncDone

\* However many CPUs, readers and callbacks there are, and however the scans,
\* the switches and the clock interleave, no callback is found ready while a
\* reader older than its tick reads. Every CPU has switched once at the start.
THEOREM RcuGracePeriod ==
    ASSUME Booting = {}
    PROVE  Spec => []GracePeriod
<1>1. Init => GInv  BY GInit
<1>2. GInv /\ [Next]_vars => GInv'  BY GStep
<1>3. GInv => GracePeriod  BY DEF GInv
<1>. QED  BY <1>1, <1>2, <1>3, PTL DEF Spec

\* The same for synchronize_rcu(), unless it gives up.
THEOREM RcuSyncGracePeriod ==
    ASSUME Booting = {}
    PROVE  Spec => []SyncGracePeriod
<1>1. Init => GInv  BY GInit
<1>2. GInv /\ [Next]_vars => GInv'  BY GStep
<1>3. GInv => SyncGracePeriod  BY GInvSync
<1>. QED  BY <1>1, <1>2, <1>3, PTL DEF Spec

--------------------------------------------------------------------------------
(* CallbackInOnePlace counts the places of a callback. PInv says the same without *)
(* counting: a callback is in one list of one thread at most (Once, Disjoint), and *)
(* somewhere when it is registered (Somewhere). For this to survive the steps that *)
(* overwrite head and the kthread's lists, these must be empty then.              *)

\* A task outside call_rcu() has no callback in its hands.
HeadFree ==
    \A t \in Tasks :
        head[t] # None => \/ pc[t] \in {"enqueue", "func"}
                          \/ pc[t] \in {"note", "sync"} /\ cont[t] = "func"

\* The split lists are those of a round under way.
ListsFree == \A p \in Threads : pc[p] # "invoke" => ready[p] = {} /\ notready[p] = {}

Once ==
    /\ \A c, d \in CPUs, b \in Callbacks : b \in pending[c] /\ b \in pending[d] => c = d
    /\ \A p, q \in Threads, b \in Callbacks : b \in ready[p] /\ b \in ready[q] => p = q
    /\ \A p, q \in Threads, b \in Callbacks : b \in notready[p] /\ b \in notready[q] => p = q
    /\ \A t, u \in Tasks : head[t] # None /\ head[t] = head[u] => t = u

Disjoint ==
    /\ \A c \in CPUs, p \in Threads, b \in Callbacks :
          b \in pending[c] => b \notin ready[p] /\ b \notin notready[p]
    /\ \A p, q \in Threads, b \in Callbacks : b \in ready[p] => b \notin notready[q]
    /\ \A t \in Tasks, c \in CPUs : head[t] \notin pending[c]
    /\ \A t \in Tasks, p \in Threads : head[t] \notin ready[p] /\ head[t] \notin notready[p]
    /\ \A b \in invoked : /\ \A c \in CPUs : b \notin pending[c]
                          /\ \A p \in Threads : b \notin ready[p] /\ b \notin notready[p]
                          /\ \A t \in Tasks : head[t] # b

InAPlace(b) ==
    \/ \E c \in CPUs : b \in pending[c]
    \/ \E p \in Threads : b \in ready[p] \/ b \in notready[p]
    \/ \E t \in Tasks : head[t] = b
    \/ b \in invoked

Somewhere == \A b \in Callbacks : (stamp[b] # 0 \/ b \in invoked) <=> InAPlace(b)

Places == Once /\ Disjoint /\ Somewhere
PInv == TInv /\ now # 0 /\ HeadFree /\ ListsFree /\ Places

\* A step that touches no list and no head moves no callback.
LEMMA PlacesKept ==
    ASSUME Places, UNCHANGED <<pending, ready, notready, invoked, head>>,
           \A b \in Callbacks : stamp'[b] = stamp[b]
    PROVE  Places'
<1>1. Once'  BY DEF Places, Once
<1>2. Disjoint'  BY DEF Places, Disjoint
<1>3. Somewhere'  BY DEF Places, Somewhere, InAPlace
<1>. QED  BY <1>1, <1>2, <1>3 DEF Places

\* A task lets go of its callback before it does anything else, and a round ends with
\* empty lists.
LEMMA FreeStep ==
    ASSUME PInv, TInv', [Next]_vars
    PROVE  now' # 0 /\ HeadFree' /\ ListsFree'
<1>. USE CpuAssumption, BoundAssumption
     DEF PInv, TInv, TypeOK, HeadFree, ListsFree, Times, Conts, Threads,
         At, Goto, cpuVars, readVars, scanVars, listVars, syncVars, ghostVars
<1>1. ASSUME Tick PROVE now' # 0 /\ HeadFree' /\ ListsFree'
  BY <1>1 DEF Tick
<1>2. ASSUME NEW c \in CPUs, Yield(c) PROVE now' # 0 /\ HeadFree' /\ ListsFree'
  BY <1>2 DEF Yield
<1>3. ASSUME NEW c \in CPUs, SwitchEnd(c) PROVE now' # 0 /\ HeadFree' /\ ListsFree'
  BY <1>3 DEF SwitchEnd
<1>4. ASSUME NEW c \in CPUs, kthread_wakeup(c) PROVE now' # 0 /\ HeadFree' /\ ListsFree'
  BY <1>4 DEF kthread_wakeup
<1>5. ASSUME NEW t \in Tasks, rcu_read_lock(t) PROVE now' # 0 /\ HeadFree' /\ ListsFree'
  BY <1>5 DEF rcu_read_lock
<1>6. ASSUME NEW t \in Tasks, rcu_read_unlock(t) PROVE now' # 0 /\ HeadFree' /\ ListsFree'
  BY <1>6 DEF rcu_read_unlock
<1>7. ASSUME NEW t \in Tasks, call_rcu_enqueue(t) PROVE now' # 0 /\ HeadFree' /\ ListsFree'
  BY <1>7 DEF call_rcu_enqueue, rcu_cblist_enqueue
<1>8. ASSUME NEW t \in Tasks, call_rcu_func(t) PROVE now' # 0 /\ HeadFree' /\ ListsFree'
  BY <1>8 DEF call_rcu_func, Invoke
<1>9. ASSUME NEW t \in Tasks, synchronize_rcu(t) PROVE now' # 0 /\ HeadFree' /\ ListsFree'
  BY <1>9 DEF synchronize_rcu, SyncStart
<1>10. ASSUME NEW t \in Tasks, sync_note(t) PROVE now' # 0 /\ HeadFree' /\ ListsFree'
  BY <1>10 DEF sync_note
<1>11. ASSUME NEW t \in Tasks, sync_return(t) PROVE now' # 0 /\ HeadFree' /\ ListsFree'
  BY <1>11 DEF sync_return, SyncReturn
<1>12. ASSUME NEW t \in Tasks, sync_yield(t) PROVE now' # 0 /\ HeadFree' /\ ListsFree'
  BY <1>12 DEF sync_yield
<1>13. ASSUME NEW t \in Tasks, sync_give_up(t) PROVE now' # 0 /\ HeadFree' /\ ListsFree'
  BY <1>13 DEF sync_give_up, SyncReturn
<1>14. ASSUME NEW t \in Tasks, rcu_barrier(t) PROVE now' # 0 /\ HeadFree' /\ ListsFree'
  BY <1>14 DEF rcu_barrier, SyncStart
<1>15. ASSUME NEW t \in Tasks, barrier_check(t) PROVE now' # 0 /\ HeadFree' /\ ListsFree'
  <2>1. PICK then \in {"returned", "again"} : SyncStart(t, then, {t})
    BY <1>15, BarrierCheckSync
  <2>2. pc' = [pc EXCEPT ![t] = "note"] /\ cont' = [cont EXCEPT ![t] = then]
    BY <2>1 DEF SyncStart
  <2>3. pc[t] = "check" /\ UNCHANGED <<now, ready, notready, head>>
    BY <1>15, BarrierCheckSync
  <2>. QED  BY <2>2, <2>3
<1>16. ASSUME NEW t \in Tasks, barrier_again(t) PROVE now' # 0 /\ HeadFree' /\ ListsFree'
  BY <1>16 DEF barrier_again
<1>17. ASSUME NEW t \in Tasks, barrier_return(t) PROVE now' # 0 /\ HeadFree' /\ ListsFree'
  BY <1>17 DEF barrier_return
<1>18. ASSUME NEW t \in Tasks, NEW b \in Callbacks, call_rcu(t, b) PROVE now' # 0 /\ HeadFree' /\ ListsFree'
  BY <1>18 DEF call_rcu
<1>19. ASSUME NEW t \in Tasks, NEW b \in Callbacks, call_rcu_nomem(t, b) PROVE now' # 0 /\ HeadFree' /\ ListsFree'
  BY <1>19 DEF call_rcu_nomem, SyncStart
<1>20. ASSUME NEW p \in Threads, rcu_get_min_other_cpu_timestamp(p) PROVE now' # 0 /\ HeadFree' /\ ListsFree'
  BY <1>20 DEF rcu_get_min_other_cpu_timestamp
<1>21. ASSUME NEW p \in Threads, take_pending(p) PROVE now' # 0 /\ HeadFree' /\ ListsFree'
  BY <1>21 DEF take_pending
<1>22. ASSUME NEW p \in Threads, rcu_invoke_callbacks(p) PROVE now' # 0 /\ HeadFree' /\ ListsFree'
  BY <1>22 DEF rcu_invoke_callbacks, Invoke
<1>23. ASSUME NEW p \in Threads, put_back(p) PROVE now' # 0 /\ HeadFree' /\ ListsFree'
  BY <1>23 DEF put_back, PutBack
<1>24. CASE UNCHANGED vars
  BY <1>24 DEF vars
<1>. QED
  BY <1>1, <1>2, <1>3, <1>4, <1>5, <1>6, <1>7, <1>8, <1>9, <1>10, <1>11, <1>12, <1>13,
     <1>14, <1>15, <1>16, <1>17, <1>18, <1>19, <1>20, <1>21, <1>22, <1>23, <1>24
  DEF Next, Process, Start, Continue

LEMMA PlacesStep ==
    ASSUME PInv, TInv', [Next]_vars
    PROVE  Places'
<1>. USE CpuAssumption, BoundAssumption
     DEF PInv, TInv, TypeOK, Times, Conts, Threads, listVars, syncVars
<1>1. ASSUME Tick PROVE Places'
  BY <1>1, PlacesKept DEF Tick
<1>2. ASSUME NEW c \in CPUs, Yield(c) PROVE Places'
  BY <1>2, PlacesKept DEF Yield
<1>3. ASSUME NEW c \in CPUs, SwitchEnd(c) PROVE Places'
  BY <1>3, PlacesKept DEF SwitchEnd
<1>4. ASSUME NEW c \in CPUs, kthread_wakeup(c) PROVE Places'
  BY <1>4, PlacesKept DEF kthread_wakeup
<1>5. ASSUME NEW t \in Tasks, rcu_read_lock(t) PROVE Places'
  BY <1>5, PlacesKept DEF rcu_read_lock
<1>6. ASSUME NEW t \in Tasks, rcu_read_unlock(t) PROVE Places'
  BY <1>6, PlacesKept DEF rcu_read_unlock
<1>7. ASSUME NEW t \in Tasks, call_rcu_enqueue(t) PROVE Places'
  <2>1. Once'
    BY <1>7 DEF Places, Once, Disjoint, HeadOK, At, call_rcu_enqueue, rcu_cblist_enqueue
  <2>2. Disjoint'
    BY <1>7 DEF Places, Once, Disjoint, HeadOK, At, call_rcu_enqueue, rcu_cblist_enqueue
  <2>3. Somewhere'
    <3>1. ASSUME NEW x \in Callbacks, InAPlace(x) PROVE InAPlace(x)'
      BY <1>7, <3>1 DEF InAPlace, At, CpuOf, HeadOK, HeadFree, ListsFree, call_rcu_enqueue, rcu_cblist_enqueue
    <3>2. ASSUME NEW x \in Callbacks, InAPlace(x)' PROVE InAPlace(x)
      BY <1>7, <3>2 DEF InAPlace, At, CpuOf, HeadOK, HeadFree, ListsFree, call_rcu_enqueue, rcu_cblist_enqueue
    <3>3. UNCHANGED <<stamp, invoked>>
      BY <1>7 DEF call_rcu_enqueue
    <3>. QED  BY <3>1, <3>2, <3>3 DEF Places, Somewhere
  <2>. QED  BY <2>1, <2>2, <2>3 DEF Places
<1>8. ASSUME NEW t \in Tasks, call_rcu_func(t) PROVE Places'
  <2>1. Once'
    BY <1>8 DEF Places, Once, Disjoint, HeadOK, At, call_rcu_func, Invoke
  <2>2. Disjoint'
    BY <1>8 DEF Places, Once, Disjoint, HeadOK, At, call_rcu_func, Invoke
  <2>3. Somewhere'
    <3>1. ASSUME NEW x \in Callbacks, InAPlace(x) PROVE InAPlace(x)'
      BY <1>8, <3>1 DEF InAPlace, At, CpuOf, HeadOK, HeadFree, ListsFree, call_rcu_func, Invoke
    <3>2. ASSUME NEW x \in Callbacks, InAPlace(x)' PROVE InAPlace(x)
      BY <1>8, <3>2 DEF InAPlace, At, CpuOf, HeadOK, HeadFree, ListsFree, call_rcu_func, Invoke
    <3>3. \A x \in Callbacks : (stamp'[x] # 0 \/ x \in invoked') <=> (stamp[x] # 0 \/ x \in invoked)
      <4>1. PICK b \in Callbacks : b = head[t] /\ Invoke(b)
        BY <1>8 DEF At, HeadOK, call_rcu_func
      <4>2. stamp[b] # 0 \/ b \in invoked
        BY <1>8, <4>1 DEF Places, Somewhere, InAPlace
      <4>. QED  BY <4>1, <4>2 DEF Invoke
    <3>. QED  BY <3>1, <3>2, <3>3 DEF Places, Somewhere
  <2>. QED  BY <2>1, <2>2, <2>3 DEF Places
<1>9. ASSUME NEW t \in Tasks, synchronize_rcu(t) PROVE Places'
  BY <1>9, PlacesKept DEF synchronize_rcu, SyncStart
<1>10. ASSUME NEW t \in Tasks, sync_note(t) PROVE Places'
  BY <1>10, PlacesKept DEF sync_note
<1>11. ASSUME NEW t \in Tasks, sync_return(t) PROVE Places'
  BY <1>11, PlacesKept DEF sync_return, SyncReturn
<1>12. ASSUME NEW t \in Tasks, sync_yield(t) PROVE Places'
  BY <1>12, PlacesKept DEF sync_yield
<1>13. ASSUME NEW t \in Tasks, sync_give_up(t) PROVE Places'
  BY <1>13, PlacesKept DEF sync_give_up, SyncReturn
<1>14. ASSUME NEW t \in Tasks, rcu_barrier(t) PROVE Places'
  BY <1>14, PlacesKept DEF rcu_barrier, SyncStart
<1>15. ASSUME NEW t \in Tasks, barrier_check(t) PROVE Places'
  BY <1>15, PlacesKept DEF barrier_check, SyncStart
<1>16. ASSUME NEW t \in Tasks, barrier_again(t) PROVE Places'
  BY <1>16, PlacesKept DEF barrier_again
<1>17. ASSUME NEW t \in Tasks, barrier_return(t) PROVE Places'
  BY <1>17, PlacesKept DEF barrier_return
<1>18. ASSUME NEW t \in Tasks, NEW b \in Callbacks, call_rcu(t, b) PROVE Places'
  <2>1. Once'
    BY <1>18 DEF Places, Once, Disjoint, Somewhere, InAPlace, Registered, call_rcu
  <2>2. Disjoint'
    BY <1>18 DEF Places, Once, Disjoint, Somewhere, InAPlace, Registered, call_rcu
  <2>3. Somewhere'
    <3>1. ASSUME NEW x \in Callbacks, InAPlace(x) PROVE InAPlace(x)'
      <4>1. pc[t] = "idle" /\ x # None
        BY <1>18 DEF At, call_rcu
      <4>3. head[t] = None
        BY <4>1 DEF HeadFree
      <4>2. head' = [head EXCEPT ![t] = b] /\ UNCHANGED <<pending, ready, notready, invoked>>
        BY <1>18 DEF call_rcu
      <4>. QED  BY <3>1, <4>1, <4>2, <4>3 DEF InAPlace
    <3>2. ASSUME NEW x \in Callbacks, InAPlace(x)', x # b PROVE InAPlace(x)
      BY <1>18, <3>2 DEF InAPlace, At, CpuOf, HeadOK, HeadFree, ListsFree, call_rcu
    <3>3. \A x \in Callbacks : (stamp'[x] # 0 \/ x \in invoked') <=> (stamp[x] # 0 \/ x \in invoked \/ x = b)
      BY <1>18 DEF call_rcu
    <3>4. InAPlace(b)'
      BY <1>18 DEF InAPlace, call_rcu
    <3>. QED  BY <3>1, <3>2, <3>3, <3>4 DEF Places, Somewhere
  <2>. QED  BY <2>1, <2>2, <2>3 DEF Places
<1>19. ASSUME NEW t \in Tasks, NEW b \in Callbacks, call_rcu_nomem(t, b) PROVE Places'
  <2>1. Once'
    BY <1>19 DEF Places, Once, Disjoint, Somewhere, InAPlace, Registered, call_rcu_nomem, SyncStart
  <2>2. Disjoint'
    BY <1>19 DEF Places, Once, Disjoint, Somewhere, InAPlace, Registered, call_rcu_nomem, SyncStart
  <2>3. Somewhere'
    <3>1. ASSUME NEW x \in Callbacks, InAPlace(x) PROVE InAPlace(x)'
      <4>1. pc[t] = "idle" /\ x # None
        BY <1>19 DEF At, call_rcu_nomem
      <4>3. head[t] = None
        BY <4>1 DEF HeadFree
      <4>2. head' = [head EXCEPT ![t] = b] /\ UNCHANGED <<pending, ready, notready, invoked>>
        BY <1>19 DEF call_rcu_nomem
      <4>. QED  BY <3>1, <4>1, <4>2, <4>3 DEF InAPlace
    <3>2. ASSUME NEW x \in Callbacks, InAPlace(x)', x # b PROVE InAPlace(x)
      BY <1>19, <3>2 DEF InAPlace, At, CpuOf, HeadOK, HeadFree, ListsFree, call_rcu_nomem, SyncStart
    <3>3. \A x \in Callbacks : (stamp'[x] # 0 \/ x \in invoked') <=> (stamp[x] # 0 \/ x \in invoked \/ x = b)
      BY <1>19 DEF call_rcu_nomem, SyncStart
    <3>4. InAPlace(b)'
      BY <1>19 DEF InAPlace, call_rcu_nomem
    <3>. QED  BY <3>1, <3>2, <3>3, <3>4 DEF Places, Somewhere
  <2>. QED  BY <2>1, <2>2, <2>3 DEF Places
<1>20. ASSUME NEW p \in Threads, rcu_get_min_other_cpu_timestamp(p) PROVE Places'
  BY <1>20, PlacesKept DEF rcu_get_min_other_cpu_timestamp
<1>21. ASSUME NEW p \in Threads, take_pending(p) PROVE Places'
  <2>1. Once'
    BY <1>21 DEF Places, Once, Disjoint, ListsFree, At, CpuOf, take_pending
  <2>2. Disjoint'
    BY <1>21 DEF Places, Once, Disjoint, ListsFree, At, CpuOf, take_pending
  <2>3. Somewhere'
    <3>1. ASSUME NEW x \in Callbacks, InAPlace(x) PROVE InAPlace(x)'
      <4>1. ready[p] = {} /\ notready[p] = {}
        BY <1>21 DEF ListsFree, At, take_pending
      <4>2. ASSUME NEW c \in CPUs, x \in pending[c] PROVE InAPlace(x)'
        <5>1. CASE c = CpuOf(p)
          BY <1>21, <4>2, <5>1 DEF InAPlace, take_pending
        <5>2. CASE c # CpuOf(p)
          BY <1>21, <4>2, <5>2 DEF InAPlace, take_pending
        <5>. QED  BY <5>1, <5>2
      <4>3. ASSUME NEW q \in Threads, x \in ready[q] \/ x \in notready[q] PROVE InAPlace(x)'
        BY <1>21, <4>1, <4>3 DEF InAPlace, take_pending
      <4>4. UNCHANGED <<head, invoked>>
        BY <1>21 DEF take_pending
      <4>. QED  BY <3>1, <4>2, <4>3, <4>4 DEF InAPlace
    <3>2. ASSUME NEW x \in Callbacks, InAPlace(x)' PROVE InAPlace(x)
      BY <1>21, <3>2 DEF InAPlace, At, CpuOf, HeadOK, HeadFree, ListsFree, take_pending
    <3>3. UNCHANGED <<stamp, invoked>>
      BY <1>21 DEF take_pending
    <3>. QED  BY <3>1, <3>2, <3>3 DEF Places, Somewhere
  <2>. QED  BY <2>1, <2>2, <2>3 DEF Places
<1>22. ASSUME NEW p \in Threads, rcu_invoke_callbacks(p) PROVE Places'
  <2>1. Once'
    BY <1>22 DEF Places, Once, Disjoint, rcu_invoke_callbacks, Invoke
  <2>2. Disjoint'
    BY <1>22 DEF Places, Once, Disjoint, rcu_invoke_callbacks, Invoke
  <2>3. Somewhere'
    <3>1. ASSUME NEW x \in Callbacks, InAPlace(x) PROVE InAPlace(x)'
      BY <1>22, <3>1 DEF InAPlace, At, CpuOf, HeadOK, HeadFree, ListsFree, rcu_invoke_callbacks, Invoke
    <3>2. ASSUME NEW x \in Callbacks, InAPlace(x)' PROVE InAPlace(x)
      BY <1>22, <3>2 DEF InAPlace, At, CpuOf, HeadOK, HeadFree, ListsFree, rcu_invoke_callbacks, Invoke
    <3>3. \A x \in Callbacks : (stamp'[x] # 0 \/ x \in invoked') <=> (stamp[x] # 0 \/ x \in invoked)
      <4>1. PICK b \in Callbacks : b \in ready[p] /\ Invoke(b)
        BY <1>22 DEF At, HeadOK, rcu_invoke_callbacks
      <4>2. stamp[b] # 0 \/ b \in invoked
        BY <1>22, <4>1 DEF Places, Somewhere, InAPlace
      <4>. QED  BY <4>1, <4>2 DEF Invoke
    <3>. QED  BY <3>1, <3>2, <3>3 DEF Places, Somewhere
  <2>. QED  BY <2>1, <2>2, <2>3 DEF Places
<1>23. ASSUME NEW p \in Threads, put_back(p) PROVE Places'
  <2>1. Once'
    BY <1>23 DEF Places, Once, Disjoint, CpuOf, put_back, PutBack
  <2>2. Disjoint'
    BY <1>23 DEF Places, Once, Disjoint, CpuOf, put_back, PutBack
  <2>3. Somewhere'
    <3>1. ASSUME NEW x \in Callbacks, InAPlace(x) PROVE InAPlace(x)'
      BY <1>23, <3>1 DEF InAPlace, At, CpuOf, HeadOK, HeadFree, ListsFree, put_back, PutBack
    <3>2. ASSUME NEW x \in Callbacks, InAPlace(x)' PROVE InAPlace(x)
      BY <1>23, <3>2 DEF InAPlace, At, CpuOf, HeadOK, HeadFree, ListsFree, put_back, PutBack
    <3>3. UNCHANGED <<stamp, invoked>>
      BY <1>23 DEF put_back
    <3>. QED  BY <3>1, <3>2, <3>3 DEF Places, Somewhere
  <2>. QED  BY <2>1, <2>2, <2>3 DEF Places
<1>24. CASE UNCHANGED vars
  BY <1>24, PlacesKept DEF vars
<1>. QED
  BY <1>1, <1>2, <1>3, <1>4, <1>5, <1>6, <1>7, <1>8, <1>9, <1>10, <1>11, <1>12, <1>13,
     <1>14, <1>15, <1>16, <1>17, <1>18, <1>19, <1>20, <1>21, <1>22, <1>23, <1>24
  DEF Next, Process, Start, Continue

LEMMA PInit == Init => PInv
<1>. SUFFICES ASSUME Init PROVE PInv  OBVIOUS
<1>1. TInv  BY TypeInit
<1>2. now # 0 /\ HeadFree /\ ListsFree  BY DEF Init, HeadFree, ListsFree
<1>3. Once /\ Disjoint
  BY CpuAssumption DEF Init, Once, Disjoint
<1>4. Somewhere
  BY CpuAssumption DEF Init, Somewhere, InAPlace
<1>. QED  BY <1>1, <1>2, <1>3, <1>4 DEF PInv, Places

LEMMA PStep ==
    ASSUME PInv, [Next]_vars
    PROVE  PInv'
<1>1. TInv'
  BY TypeStep DEF PInv
<1>. QED  BY <1>1, FreeStep, PlacesStep DEF PInv

\* One place, or none, makes a set of one element, or none.
LEMMA OnePlace ==
    ASSUME PInv, NEW b \in Callbacks
    PROVE  Cardinality(Holders(b)) = IF b \in Registered THEN 1 ELSE 0
<1>1. b \in Registered <=> InAPlace(b)
  BY DEF PInv, Places, Somewhere, Registered
<1>2. b # None
  BY CpuAssumption
<1>3. CASE ~InAPlace(b)
  <2>1. Holders(b) = {}
    BY <1>3 DEF Holders, InAPlace
  <2>. QED  BY <1>1, <1>3, <2>1, FS_EmptySet
<1>4. CASE InAPlace(b)
  <2>1. \E x : Holders(b) = {x}
    <3>. USE DEF PInv, Places, Once, Disjoint, Holders
    <3>1. ASSUME NEW c \in CPUs, b \in pending[c] PROVE Holders(b) = {<<"pending", c>>}
      BY <1>2, <3>1
    <3>2. ASSUME NEW p \in Threads, b \in ready[p] PROVE Holders(b) = {<<"ready", p>>}
      BY <1>2, <3>2
    <3>3. ASSUME NEW p \in Threads, b \in notready[p] PROVE Holders(b) = {<<"notready", p>>}
      BY <1>2, <3>3
    <3>4. ASSUME NEW t \in Tasks, head[t] = b PROVE Holders(b) = {<<"head", t>>}
      BY <1>2, <3>4
    <3>5. ASSUME b \in invoked PROVE Holders(b) = {<<"invoked", b>>}
      BY <1>2, <3>5
    <3>. QED  BY <1>4, <3>1, <3>2, <3>3, <3>4, <3>5 DEF InAPlace
  <2>. QED  BY <1>1, <1>4, <2>1, FS_Singleton
<1>. QED  BY <1>3, <1>4

\* However many CPUs take, split, invoke and put back callback lists while tasks register
\* callbacks and run barriers, a registered callback is in exactly one place: none is lost
\* and none is called twice.
THEOREM RcuCallbackInOnePlace == Spec => []CallbackInOnePlace
<1>1. Init => PInv  BY PInit
<1>2. PInv /\ [Next]_vars => PInv'  BY PStep
<1>3. PInv => CallbackInOnePlace
  BY OnePlace DEF CallbackInOnePlace
<1>. QED  BY <1>1, <1>2, <1>3, PTL DEF Spec

================================================================================
