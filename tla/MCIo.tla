-------------------------------- MODULE MCIo --------------------------------
(***************************************************************************)
(* What ends a wait from outside the threads: the timers with their        *)
(* workqueue, and the disk.  The two share no state; Init chooses one.     *)
(***************************************************************************)
EXTENDS Timers, Virtio

VARIABLE part
all == <<part, wqVars, tmVars, vioVars>>

InTimers == part = "timers" /\ UNCHANGED <<part, vioVars>>
InVirtio == part = "virtio" /\ UNCHANGED <<part, wqVars, tmVars>>

IoInit == part \in {"timers", "virtio"} /\ TimersInit /\ VirtioInit
IoNext == (InTimers /\ TimersNext) \/ (InVirtio /\ VirtioNext)

(***************************************************************************)
(* The clock interrupt comes, a scheduler looks at the tick, the manager   *)
(* and the workers run; the device works, its interrupt is handled and a   *)
(* requester that can go on does.                                          *)
(***************************************************************************)
IoFairness ==
  /\ WF_all(InTimers /\ Clockintr) /\ WF_all(InTimers /\ TimerTick) /\ WF_all(InTimers /\ ManagerStep)
  /\ \A k \in Workers : WF_all(InTimers /\ (TakeStep(k) \/ DeferRuns(k)))
  /\ \A s \in Sleepers : WF_all(InTimers /\ (RemoveTest(s) \/ RemoveLocked(s)))
  /\ WF_all(InVirtio /\ DeviceTakes) /\ WF_all(InVirtio /\ IntrStep)
  /\ WF_all(InVirtio /\ \E h \in Descs : DeviceDone(h))
  /\ \A r \in Requesters : WF_all(InVirtio /\ RwStep(r))

IoSpec == IoInit /\ [][IoNext]_all /\ IoFairness

\* The tree, the list and the next expiry agree on the armed timers, and a callback
\* that was armed runs at most once (Timers), with removals, expiry and retries racing.
TimersHold == TimersAgree /\ CallbackRunsOnce

\* Every descriptor is free or in one chain, and a bio that ended has had all its
\* segments transferred (Virtio), however requests, device and interrupt interleave.
TransfersHold == ChainsAreOwned /\ EndMeansTransferred
=============================================================================
