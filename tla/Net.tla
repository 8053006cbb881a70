-------------------------------- MODULE Net --------------------------------
(***************************************************************************)
(* The network path: the rings of the e1000 driver (kernel/e1000.c), the   *)
(* protocol layer (kernel/net.c) and UDP sockets (kernel/sysnet.c).        *)
(* A packet buffer (mbuf) is an identity; the frame in it is a kind: a     *)
(* datagram for the socket, an ARP request for this host, or one that is   *)
(* dropped because it fails a header check or no socket wants it.  What is *)
(* done under si->lock, sock_lock or e1000_lock is one step.               *)
(***************************************************************************)
EXTENDS Integers, Sequences, FiniteSets, FiniteSetsExt, SequencesExt

CONSTANTS RX_RING_SIZE, TX_RING_SIZE,
          NMbufs,            \* pages kalloc can give out; enough that it does not fail
          NetReaders,        \* threads in sockread
          MaxFrames,         \* bound on the frames that arrive
          MaxSends           \* bound on the calls of sockwrite

VARIABLES rxDesc,            \* rx_ring and rx_mbufs: [dd, mbuf, frame]
          rdh, rdt,          \* the device's head and tail registers
          icr,               \* a receive interrupt is pending
          netIntr,           \* e1000_intr: "idle", "loop" or "refill"
          rxq,               \* the socket's queue: [mbuf, frame]
          netReader,         \* "run" or "sleep"
          txMbufs, tdh, tdt, \* tx_mbufs and the transmit registers
          onWire,            \* mbufs handed to the device and not yet sent
          mbufFree,          \* mbufs with the allocator
          nSends,            \* calls of sockwrite so far
          arrived, netGot       \* the frames received, and the datagrams read
netVars == <<rxDesc, rdh, rdt, icr, netIntr, rxq, netReader, txMbufs, tdh, tdt, onWire, mbufFree, nSends, arrived, netGot>>

Mbufs == 1..NMbufs
NoMbuf == 0
NoFrame == [kind |-> "none", n |-> 0]
Kinds == {"ours", "arp", "dropped"}
Ours(frames) == SelectSeq(frames, LAMBDA f : f.kind = "ours")

\* e1000_init: every receive descriptor has an mbuf and belongs to the device.
NetInit ==
    /\ rxDesc = [i \in 0..RX_RING_SIZE - 1 |-> [dd |-> FALSE, mbuf |-> i + 1, frame |-> NoFrame]]
    /\ rdh = 0 /\ rdt = RX_RING_SIZE - 1 /\ icr = FALSE /\ netIntr = "idle"
    /\ rxq = <<>> /\ netReader = [r \in NetReaders |-> "run"]
    /\ txMbufs = [i \in 0..TX_RING_SIZE - 1 |-> NoMbuf] /\ tdh = 0 /\ tdt = 0 /\ onWire = {}
    /\ mbufFree = Mbufs \ (1..RX_RING_SIZE)
    /\ nSends = 0 /\ arrived = <<>> /\ netGot = <<>>

\* The device writes a frame into the descriptor at its head, if it has one.
DeviceReceives(kind) ==
    /\ rdh # rdt /\ Len(arrived) < MaxFrames
    /\ LET frame == [kind |-> kind, n |-> Len(arrived) + 1]
       IN /\ rxDesc' = [rxDesc EXCEPT ![rdh] = [@ EXCEPT !.dd = TRUE, !.frame = frame]]
          /\ arrived' = Append(arrived, frame)
    /\ rdh' = (rdh + 1) % RX_RING_SIZE
    /\ icr' = TRUE
    /\ UNCHANGED <<nSends, rdt, netIntr, rxq, netReader, txMbufs, tdh, tdt, onWire, mbufFree, netGot>>

\* The device sends the frame at its transmit head.
DeviceSends ==
    /\ tdh # tdt
    /\ onWire' = onWire \ {txMbufs[tdh]}
    /\ tdh' = (tdh + 1) % TX_RING_SIZE
    /\ UNCHANGED <<nSends, rxDesc, rdh, rdt, icr, netIntr, rxq, netReader, txMbufs, tdt, mbufFree, arrived, netGot>>

(***************************************************************************)
(* e1000_transmit.  The descriptor's done bit is set by e1000_init and     *)
(* never cleared, so the test for a full ring does not fire: the device    *)
(* is assumed to keep ahead of the senders.                                *)
(***************************************************************************)
RoomToSend == (tdt + 1) % TX_RING_SIZE # tdh
Transmit(m, free) ==
    /\ txMbufs' = [txMbufs EXCEPT ![tdt] = m]
    /\ onWire' = onWire \cup {m}
    /\ mbufFree' = IF txMbufs[tdt] = NoMbuf THEN free ELSE free \cup {txMbufs[tdt]}
    /\ tdt' = (tdt + 1) % TX_RING_SIZE

\* e1000_intr acknowledges first and then empties the ring.
IntrReceive ==
    /\ icr /\ netIntr = "idle"
    /\ icr' = FALSE /\ netIntr' = "loop"
    /\ UNCHANGED <<nSends, rxDesc, rdh, rdt, rxq, netReader, txMbufs, tdh, tdt, onWire, mbufFree, arrived, netGot>>

RxNext == (rdt + 1) % RX_RING_SIZE

\* net_rx of the next filled descriptor: to the socket, answered, or dropped.
NetRx ==
    LET desc == rxDesc[RxNext]
    IN /\ netIntr = "loop" /\ desc.dd /\ netIntr' = "refill"
       /\ \/ /\ desc.frame.kind = "ours"
             /\ rxq' = Append(rxq, [mbuf |-> desc.mbuf, frame |-> desc.frame])
             /\ netReader' = [r \in NetReaders |-> "run"]
             /\ UNCHANGED <<txMbufs, tdt, onWire, mbufFree>>
          \/ /\ desc.frame.kind = "arp" /\ RoomToSend /\ mbufFree # {}
             /\ Transmit(Min(mbufFree), (mbufFree \ {Min(mbufFree)}) \cup {desc.mbuf})
             /\ UNCHANGED <<rxq, netReader>>
          \/ /\ desc.frame.kind = "dropped"
             /\ mbufFree' = mbufFree \cup {desc.mbuf}
             /\ UNCHANGED <<rxq, netReader, txMbufs, tdt, onWire>>
    /\ UNCHANGED <<nSends, rxDesc, rdh, rdt, icr, tdh, arrived, netGot>>

\* Bug: the tail is moved before the descriptor has its new buffer and is clear.
RxRefillMovesOnly ==
    /\ netIntr = "refill" /\ netIntr' = "loop" /\ mbufFree # {}
    /\ rxDesc' = [rxDesc EXCEPT ![RxNext] = [@ EXCEPT !.dd = FALSE]]
    /\ rdt' = RxNext
    /\ UNCHANGED <<nSends, rdh, icr, rxq, netReader, txMbufs, tdh, tdt, onWire, mbufFree, arrived, netGot>>

\* The descriptor gets a new mbuf and goes back to the device.
RxRefill ==
    /\ netIntr = "refill" /\ netIntr' = "loop" /\ mbufFree # {}
    /\ rxDesc' = [rxDesc EXCEPT ![RxNext] = [dd |-> FALSE, mbuf |-> Min(mbufFree), frame |-> NoFrame]]
    /\ mbufFree' = mbufFree \ {Min(mbufFree)}
    /\ rdt' = RxNext
    /\ UNCHANGED <<nSends, rdh, icr, rxq, netReader, txMbufs, tdh, tdt, onWire, arrived, netGot>>

IntrReturn ==
    /\ netIntr = "loop" /\ ~rxDesc[RxNext].dd
    /\ netIntr' = "idle"
    /\ UNCHANGED <<nSends, rxDesc, rdh, rdt, icr, rxq, netReader, txMbufs, tdh, tdt, onWire, mbufFree, arrived, netGot>>

\* sockread: one datagram, or asleep on the queue.  The mbuf is freed after the copy.
SockRead(r) ==
    /\ netReader[r] = "run"
    /\ \/ /\ rxq = <<>>
          /\ netReader' = [netReader EXCEPT ![r] = "sleep"]
          /\ UNCHANGED <<rxq, mbufFree, netGot>>
       \/ /\ rxq # <<>>
          /\ rxq' = Tail(rxq)
          /\ mbufFree' = mbufFree \cup {Head(rxq).mbuf}
          /\ netGot' = Append(netGot, Head(rxq).frame)
          /\ UNCHANGED netReader
    /\ UNCHANGED <<nSends, rxDesc, rdh, rdt, icr, netIntr, txMbufs, tdh, tdt, onWire, arrived>>

\* sockwrite down to the ring.
SockWrite ==
    /\ RoomToSend /\ mbufFree # {} /\ nSends < MaxSends
    /\ nSends' = nSends + 1
    /\ Transmit(Min(mbufFree), mbufFree \ {Min(mbufFree)})
    /\ UNCHANGED <<rxDesc, rdh, rdt, icr, netIntr, rxq, netReader, tdh, arrived, netGot>>

NetNext ==
    \/ \E kind \in Kinds : DeviceReceives(kind)
    \/ DeviceSends \/ IntrReceive \/ NetRx \/ RxRefill \/ IntrReturn
    \/ \E r \in NetReaders : SockRead(r)
    \/ SockWrite

\* The filled descriptors, oldest first; the one being refilled has been delivered.
Filled ==
    LET at == [k \in 1..RX_RING_SIZE |-> rxDesc[(rdt + k) % RX_RING_SIZE]]
        first == IF netIntr = "refill" THEN 2 ELSE 1
    IN SelectSeq(SubSeq(at, first, RX_RING_SIZE), LAMBDA d : d.dd)
FilledFrames == [k \in 1..Len(Filled) |-> Filled[k].frame]

\* Datagrams are read in the order in which they arrived, each once, a filled descriptor
\* has an interrupt coming or a handler looking, no reader sleeps on a queued datagram,
\* and every mbuf is in one place: a descriptor, the queue, the device or the allocator
\* (e1000_recv, sockrecvudp, sockread, e1000_transmit).
PacketsInOrder ==
    LET delivered == IF netIntr = "refill" THEN {RxNext} ELSE {}
        ring == {rxDesc[i].mbuf : i \in (0..RX_RING_SIZE - 1) \ delivered}
        queued == {rxq[i].mbuf : i \in 1..Len(rxq)}
        sent == {txMbufs[i] : i \in 0..TX_RING_SIZE - 1} \ {NoMbuf}
    IN /\ Ours(arrived) = netGot \o [i \in 1..Len(rxq) |-> rxq[i].frame]
                              \o Ours(FilledFrames)
       /\ Filled # <<>> => icr \/ netIntr # "idle"
       /\ rxq # <<>> => \A r \in NetReaders : netReader[r] = "run"
       /\ Cardinality(ring) = RX_RING_SIZE - Cardinality(delivered)
       /\ Cardinality(queued) = Len(rxq)
       /\ onWire \subseteq sent
       /\ \A a, b \in {"ring", "queued", "sent", "free"} :
            LET Place(x) == CASE x = "ring" -> ring [] x = "queued" -> queued [] x = "sent" -> sent [] OTHER -> mbufFree
            IN a # b => Place(a) \cap Place(b) = {}
=============================================================================
