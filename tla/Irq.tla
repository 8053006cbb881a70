--------------------------------- MODULE Irq ---------------------------------
(***************************************************************************)
(* Interrupts: the descriptors of device interrupts (kernel/irq/irq.c) and *)
(* inter-processor interrupts (kernel/ipi/ipi.c).  A hart handles one      *)
(* interrupt at a time, with interrupts off.  SBI's send_ipi and the PLIC  *)
(* are external: the first sets the target's SSIP bit, the second gives a  *)
(* device's interrupt to one hart until it completes it.                   *)
(***************************************************************************)
EXTENDS Integers, FiniteSets

CONSTANTS NHarts, MaxDescs   \* harts, and irq_desc structures in a run
ASSUME IrqShape == NHarts \in Nat /\ MaxDescs \in Nat

VARIABLES ssip,             \* SIP.SSIP of each hart
          ipiPending,       \* ipi_pending[]: the reasons
          ipiOwed,          \* history: reasons sent to a hart and not yet processed
          toMark, toRing,   \* the IPI each hart is sending: harts to mark, harts to ring,
          sendReason,       \* and its reason
          irqPc,            \* where each hart is in its interrupt handler
          ipiTodo,          \* the reasons __ipi_irq_handler has taken
          handling,         \* the irq_desc __do_plic_irq has loaded
          irqDesc,          \* irq_descs[] of the device's interrupt, 0 for NULL
          descState,        \* "none", "on", "retired" or "freed", of each structure
          irqGrace          \* harts call_rcu waits for
sendVars == <<toMark, toRing, sendReason>>
ipiVars == <<ssip, ipiPending, ipiOwed, sendVars>>
hartVars == <<irqPc, ipiTodo, handling>>
descVars == <<irqDesc, descState, irqGrace>>
irqVars == <<ipiVars, hartVars, descVars>>

Harts == 1..NHarts
\* The other reasons of ipi.h are handled by doing nothing.
Reasons == {"crash", "resched"}
\* bits_ctz8: the lowest reason first, and a crash is reason 0.
FirstOf(rs) == IF "crash" \in rs THEN "crash" ELSE "resched"
DescIds == 1..MaxDescs

(* Sending ------------------------------------------------------------------- *)

CanSend(h) == irqPc[h] = "out" /\ toRing[h] = {}

\* ipi_send_single, ipi_send_all, ipi_send_all_but_self and ipi_send_mask.
SendTo(h, targets, reason) ==
    /\ toMark' = [toMark EXCEPT ![h] = targets] /\ toRing' = [toRing EXCEPT ![h] = targets]
    /\ sendReason' = [sendReason EXCEPT ![h] = reason]
IpiSend(h, targets, reason) ==
    /\ CanSend(h) /\ targets \in {{g} : g \in Harts \ {h}} \cup {Harts, Harts \ {h}}
    /\ SendTo(h, targets, reason)
    /\ UNCHANGED <<ssip, ipiPending, ipiOwed, hartVars, descVars>>

\* The bit of one target after the other is set, ...
SendMark(h, g) ==
    /\ g \in toMark[h] /\ \A i \in toMark[h] : g <= i
    /\ ipiPending' = [ipiPending EXCEPT ![g] = @ \cup {sendReason[h]}]
    /\ ipiOwed' = [ipiOwed EXCEPT ![g] = @ \cup {sendReason[h]}]
    /\ toMark' = [toMark EXCEPT ![h] = @ \ {g}]
    /\ UNCHANGED <<ssip, toRing, sendReason, hartVars, descVars>>

\* ... and SBI raises all their interrupts.
SendRing(h) ==
    /\ toMark[h] = {} /\ toRing[h] # {}
    /\ ssip' = [g \in Harts |-> ssip[g] \/ g \in toRing[h]]
    /\ toRing' = [toRing EXCEPT ![h] = {}]
    /\ UNCHANGED <<ipiPending, ipiOwed, toMark, sendReason, hartVars, descVars>>

(* The handler ---------------------------------------------------------------- *)

\* __ipi_irq_handler clears SSIP first, ...
IpiAck(h) ==
    /\ irqPc[h] = "out" /\ ssip[h]
    /\ ssip' = [ssip EXCEPT ![h] = FALSE]
    /\ irqPc' = [irqPc EXCEPT ![h] = "take"]
    /\ UNCHANGED <<ipiPending, ipiOwed, sendVars, ipiTodo, handling, descVars>>

\* ... exchanges the reasons for 0, ...
IpiTake(h) ==
    /\ irqPc[h] = "take"
    /\ irqPc' = [irqPc EXCEPT ![h] = "process"]
    /\ ipiTodo' = [ipiTodo EXCEPT ![h] = ipiPending[h]]
    /\ ipiPending' = [ipiPending EXCEPT ![h] = {}]
    /\ UNCHANGED <<ssip, ipiOwed, sendVars, handling, descVars>>

\* ... and processes each: a crash is sent on and stops the hart for good.
IpiProcess(h) ==
    LET r == FirstOf(ipiTodo[h])
    IN /\ irqPc[h] = "process" /\ ipiTodo[h] # {}
       /\ ipiOwed' = [ipiOwed EXCEPT ![h] = @ \ ({r} \ ipiPending[h])]
       /\ \/ /\ r = "crash"
             /\ irqPc' = [irqPc EXCEPT ![h] = "crashed"] /\ ipiTodo' = [ipiTodo EXCEPT ![h] = {}]
             /\ SendTo(h, Harts \ {h}, "crash")
          \/ /\ r # "crash"
             /\ ipiTodo' = [ipiTodo EXCEPT ![h] = @ \ {r}]
             /\ UNCHANGED <<irqPc, sendVars>>
       /\ UNCHANGED <<ssip, ipiPending, handling, descVars>>

\* Bug: SSIP is cleared when the reasons are processed, not before they are taken.
IpiReturnAcks(h) ==
    /\ irqPc[h] = "process" /\ ipiTodo[h] = {}
    /\ irqPc' = [irqPc EXCEPT ![h] = "out"]
    /\ ssip' = [ssip EXCEPT ![h] = FALSE]
    /\ UNCHANGED <<ipiPending, ipiOwed, sendVars, ipiTodo, handling, descVars>>

\* The loop ends when no reason is left.
IpiReturn(h) ==
    /\ irqPc[h] = "process" /\ ipiTodo[h] = {}
    /\ irqPc' = [irqPc EXCEPT ![h] = "out"]
    /\ UNCHANGED <<ipiVars, ipiTodo, handling, descVars>>

(* Device interrupts ----------------------------------------------------------- *)

DescReaders(h) == irqPc[h] \in {"load", "handle"}

\* register_irq_handler; -EEXIST if there is one.
RegisterIrq(n) ==
    /\ irqDesc = 0 /\ descState[n] = "none"
    /\ irqDesc' = n /\ descState' = [descState EXCEPT ![n] = "on"]
    /\ UNCHANGED <<ipiVars, hartVars, irqGrace>>

\* unregister_irq_handler: unpublish, then call_rcu.
UnregisterIrq ==
    /\ irqDesc # 0
    /\ irqDesc' = 0
    /\ descState' = [descState EXCEPT ![irqDesc] = "retired"]
    /\ irqGrace' = [irqGrace EXCEPT ![irqDesc] = {h \in Harts : DescReaders(h)}]
    /\ UNCHANGED <<ipiVars, hartVars>>
RcuFreeIrqDesc(n) ==
    /\ descState[n] = "retired" /\ irqGrace[n] = {}
    /\ descState' = [descState EXCEPT ![n] = "freed"]
    /\ UNCHANGED <<ipiVars, hartVars, irqDesc, irqGrace>>

\* __do_plic_irq: claim and enter the read section, load the descriptor (none:
\* complete at once), count and call the handler, leave and complete.
PlicClaim(h) ==
    /\ irqPc[h] = "out" /\ \A g \in Harts : ~DescReaders(g)
    /\ irqPc' = [irqPc EXCEPT ![h] = "load"]
    /\ UNCHANGED <<ipiVars, ipiTodo, handling, descVars>>
IrqLoad(h) ==
    /\ irqPc[h] = "load" /\ irqDesc # 0
    /\ irqPc' = [irqPc EXCEPT ![h] = "handle"]
    /\ handling' = [handling EXCEPT ![h] = irqDesc]
    /\ UNCHANGED <<ipiVars, ipiTodo, descVars>>
IrqHandled(h) ==
    /\ irqPc[h] = "handle" \/ (irqPc[h] = "load" /\ irqDesc = 0)
    /\ irqPc' = [irqPc EXCEPT ![h] = "out"]
    /\ handling' = [handling EXCEPT ![h] = 0]
    /\ irqGrace' = [n \in DescIds |-> irqGrace[n] \ {h}]
    /\ UNCHANGED <<ipiVars, ipiTodo, irqDesc, descState>>

IrqInit ==
    /\ ssip = [h \in Harts |-> FALSE]
    /\ ipiPending = [h \in Harts |-> {}] /\ ipiOwed = [h \in Harts |-> {}]
    /\ toMark = [h \in Harts |-> {}] /\ toRing = [h \in Harts |-> {}]
    /\ sendReason = [h \in Harts |-> "resched"]
    /\ irqPc = [h \in Harts |-> "out"] /\ ipiTodo = [h \in Harts |-> {}]
    /\ handling = [h \in Harts |-> 0]
    /\ irqDesc = 0 /\ descState = [n \in DescIds |-> "none"]
    /\ irqGrace = [n \in DescIds |-> {}]

SendStep(h) == SendRing(h) \/ \E g \in Harts : SendMark(h, g)
IpiNext ==
    \E h \in Harts :
        \/ SendStep(h) \/ IpiAck(h) \/ IpiTake(h) \/ IpiProcess(h) \/ IpiReturn(h)
        \/ \E ts \in SUBSET Harts, r \in Reasons : IpiSend(h, ts, r)
IrqNext ==
    \/ \E h \in Harts : PlicClaim(h) \/ IrqLoad(h) \/ IrqHandled(h)
    \/ UnregisterIrq
    \/ \E n \in DescIds : RegisterIrq(n) \/ RcuFreeIrqDesc(n)

IrqSpec == IrqInit /\ [][IpiNext \/ IrqNext]_irqVars

(* Properties -------------------------------------------------------------------- *)

IrqTypeOK ==
    /\ ssip \in [Harts -> BOOLEAN]
    /\ ipiPending \in [Harts -> SUBSET Reasons] /\ ipiOwed \in [Harts -> SUBSET Reasons]
    /\ toMark \in [Harts -> SUBSET Harts] /\ toRing \in [Harts -> SUBSET Harts]
    /\ sendReason \in [Harts -> Reasons]
    /\ irqPc \in [Harts -> {"out", "take", "process", "crashed", "load", "handle"}]
    /\ ipiTodo \in [Harts -> SUBSET Reasons] /\ handling \in [Harts -> 0..MaxDescs]
    /\ irqDesc \in 0..MaxDescs
    /\ descState \in [DescIds -> {"none", "on", "retired", "freed"}]
    /\ irqGrace \in [DescIds -> SUBSET Harts]

\* A reason sent to a hart is never lost, though reasons and interrupts merge: until
\* it is processed it is in the hands of the handler, or pending with the interrupt
\* raised, about to be raised, or about to be taken, unless the hart has crashed.
NoLostIpi ==
    \A h \in Harts : \A r \in ipiOwed[h] :
        \/ irqPc[h] = "crashed"
        \/ r \in ipiTodo[h]
        \/ /\ r \in ipiPending[h]
           /\ \/ ssip[h] \/ irqPc[h] = "take"
              \/ \E g \in Harts : h \in toRing[g]

\* A device interrupt handler runs with a descriptor that is not freed, however
\* unregister_irq_handler races it.
HandlerDescIsLive ==
    \A h \in Harts : irqPc[h] = "handle" => descState[handling[h]] \in {"on", "retired"}

\* Both kinds of interrupt keep what they promise while they interleave on every hart:
\* no reason sent by ipi_send_* is lost, and no handler runs on a freed irq_desc.
InterruptsHold == IrqTypeOK /\ NoLostIpi /\ HandlerDescIsLive
=============================================================================
