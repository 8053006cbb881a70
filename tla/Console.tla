------------------------------- MODULE Console -------------------------------
(***************************************************************************)
(* The console (kernel/console.c) over the UART (kernel/uart.c).  Input:   *)
(* the interrupt handler drains the hardware FIFO into uart_rx_buf and     *)
(* feeds each character to the line discipline; readers take whole lines.  *)
(* Output: writers fill uart_tx_buf, uartstart moves it to the hardware.   *)
(* A critical section of one of the three locks is one step.  The indices  *)
(* wrap at CounterMax, a multiple of the buffers' sizes.                   *)
(* Below them the channels that readers, writers, the page cache and the   *)
(* sockets sleep on (kernel/proc/sched.c, the tree queue of                *)
(* kernel/proc/thread_queue.c), step by step.                              *)
(***************************************************************************)
EXTENDS Integers, Sequences, SequencesExt, FiniteSets

CONSTANTS INPUT_BUF_SIZE, UART_TX_BUF_SIZE, UART_FIFO_SIZE,
          CounterMax,        \* 2^32 for the console's indices
          KBufSize,          \* consoleread's kbuf, 64 in the code
          MaxTyped,          \* characters typed in a run
          ReadCount,         \* the count of a read
          TtyReaders, TtyWriters,
          MaxWritten,        \* characters written in a run
          Chans,             \* channels: addresses, the keys of the tree
          ChanThreads        \* threads, numbered as their waiters' addresses are
ASSUME ConsoleShape ==
    /\ CounterMax % INPUT_BUF_SIZE = 0 /\ CounterMax % UART_TX_BUF_SIZE = 0
    /\ UART_FIFO_SIZE % 2 = 0 /\ KBufSize > 0
    /\ Chans \subseteq Nat /\ ChanThreads \subseteq Nat

VARIABLES rxFifo,            \* characters the hardware has received
          rxBuf,             \* uart_rx_buf between uart_rx_r and uart_rx_w
          consBuf, consR, consW, consE,
          edit, ready,       \* the line discipline's promise: the line being
                             \* edited, and what is committed and not yet read
          nTyped,            \* keys pressed so far
          ttyReader,         \* each reader: pc, bytes wanted, batch in kbuf
          txBuf, txR, txW,   \* uart_tx_buf and its indices
          txEnabled,         \* IER_TX_ENABLE in uart_ier
          txFifo, txSent,    \* the hardware's transmit FIFO, and what left it
          ttyWriter,         \* "idle", "put" or "sleep"
          ttyWritten,           \* history: what writers put in
          chanReady,         \* what is waited for on each channel is there
          chanLock,          \* the caller's lock of each channel: its holder
          sleepLock,         \* __sleep_lock: its holder, or the thread that its CPU left
          chanTree,          \* __chan_queue_root: the waiters, a key and a thread each
          chanAt             \* each thread: where it is, the channel of its call, and
                             \* current->chan
rxVars == <<rxFifo, rxBuf, consBuf, consR, consW, consE, edit, ready, nTyped, ttyReader>>
txVars == <<txBuf, txR, txW, txEnabled, txFifo, txSent, ttyWriter, ttyWritten>>
chanVars == <<chanReady, chanLock, sleepLock, chanTree, chanAt>>
ttyVars == <<rxVars, txVars>>

Typed == {"a", "\n", "^D", "^U", "BS"}
IdxUp(i) == (i + 1) % CounterMax
IdxDown(i) == (i + CounterMax - 1) % CounterMax
Gap(hi, lo) == (hi + CounterMax - lo) % CounterMax
Cell(i) == i % INPUT_BUF_SIZE

(* The receiver ----------------------------------------------------------------- *)

\* A key is pressed: the hardware raises its interrupt.
Press(c) ==
    /\ nTyped < MaxTyped /\ nTyped' = nTyped + 1
    /\ rxFifo' = Append(rxFifo, c)
    /\ UNCHANGED <<rxBuf, consBuf, consR, consW, consE, edit, ready, ttyReader, txVars>>

\* uartrecv, in uartintr: all of the hardware's FIFO.  (A full buffer drops the
\* rest; it never fills, for each interrupt empties it.)
UartRecv ==
    /\ rxFifo # <<>>
    /\ rxBuf' = rxBuf \o rxFifo /\ rxFifo' = <<>>
    /\ UNCHANGED <<consBuf, consR, consW, consE, edit, ready, nTyped, ttyReader, txVars>>

(* consoleintr -------------------------------------------------------------------- *)

WakeReaders == [t \in TtyReaders |-> IF ttyReader[t].pc = "sleep" THEN [ttyReader[t] EXCEPT !.pc = "collect"]
                                     ELSE ttyReader[t]]

\* Backspace takes back the last character of the line being edited.
IntrErase ==
    IF consE # consW
    THEN consE' = IdxDown(consE) /\ edit' = Front(edit)
    ELSE UNCHANGED <<consE, edit>>

\* Control-U takes it all back, to the last newline or to w.
KillCount ==
    LET cell(k) == consBuf[Cell((consE + CounterMax - k) % CounterMax)]
    IN CHOOSE k \in 0..Gap(consE, consW) :
         /\ \A i \in 1..k : cell(i) # "\n"
         /\ k = Gap(consE, consW) \/ cell(k + 1) = "\n"
IntrKill ==
    /\ consE' = (consE + CounterMax - KillCount) % CounterMax
    /\ edit' = <<>>

\* Bug: one more character is let into a full buffer.
HasRoomForOneMore == Gap(consE, consR) <= INPUT_BUF_SIZE
HasRoom == Gap(consE, consR) < INPUT_BUF_SIZE

\* Any other character is stored; a newline, ^D or a full buffer commits.
IntrStore(c) ==
    IF HasRoom
    THEN /\ consBuf' = [consBuf EXCEPT ![Cell(consE)] = c]
         /\ consE' = IdxUp(consE)
         /\ IF c \in {"\n", "^D"} \/ Gap(IdxUp(consE), consR) = INPUT_BUF_SIZE
            THEN /\ consW' = IdxUp(consE) /\ ttyReader' = WakeReaders
                 /\ ready' = ready \o Append(edit, c) /\ edit' = <<>>
            ELSE edit' = Append(edit, c) /\ UNCHANGED <<consW, ready, ttyReader>>
    ELSE UNCHANGED <<consBuf, consE, edit, ready, consW, ttyReader>>

\* uartintr hands each character of rxBuf to consoleintr.
ConsoleIntr ==
    /\ rxBuf # <<>> /\ rxBuf' = Tail(rxBuf)
    /\ CASE Head(rxBuf) = "BS" -> IntrErase /\ UNCHANGED <<consBuf, consW, ready, ttyReader>>
         [] Head(rxBuf) = "^U" -> IntrKill /\ UNCHANGED <<consBuf, consW, ready, ttyReader>>
         [] OTHER -> IntrStore(Head(rxBuf))
    /\ UNCHANGED <<rxFifo, consR, nTyped, txVars>>

(* consoleread ---------------------------------------------------------------------- *)

IdleReader == [pc |-> "idle", n |-> 0, batch |-> 0, end |-> FALSE]
TtyRead(t) ==
    /\ ttyReader[t].pc = "idle"
    /\ ttyReader' = [ttyReader EXCEPT ![t] = [IdleReader EXCEPT !.pc = "collect", !.n = ReadCount]]
    /\ UNCHANGED <<rxFifo, rxBuf, consBuf, consR, consW, consE, edit, ready, nTyped, txVars>>

\* Nothing committed: sleep_on_chan.
TtySleep(t) ==
    /\ ttyReader[t].pc = "collect" /\ consR = consW
    /\ ttyReader' = [ttyReader EXCEPT ![t].pc = "sleep"]
    /\ UNCHANGED <<rxFifo, rxBuf, consBuf, consR, consW, consE, edit, ready, nTyped, txVars>>

\* A killed reader returns with what it has.  (The code then takes the batch off n
\* a second time, so that it reports more than it read.)
TtyKilled(t) ==
    /\ ttyReader[t].pc \in {"collect", "sleep"} /\ consR = consW
    /\ ttyReader' = [ttyReader EXCEPT ![t] = IdleReader]
    /\ UNCHANGED <<rxFifo, rxBuf, consBuf, consR, consW, consE, edit, ready, nTyped, txVars>>

\* The next character; ^D ends the read, and is kept when something was read.
\* The batch is left with the lock once it is full, ends, or nothing is wanted.
TtyTake(t) ==
    /\ ttyReader[t].pc = "collect" /\ consR # consW
    /\ LET c == consBuf[Cell(consR)]
           r == ttyReader[t]
           stays == c = "^D" /\ (r.n < ReadCount \/ r.batch > 0)
           got == IF c = "^D" THEN 0 ELSE 1
           end == c \in {"\n", "^D"}
           out == end \/ r.n - got = 0 \/ r.batch + got = KBufSize
       IN /\ consR' = IF stays THEN consR ELSE IdxUp(consR)
          /\ ready' = IF stays THEN ready ELSE Tail(ready)
          /\ ttyReader' = [ttyReader EXCEPT ![t] = [pc |-> IF out THEN "copy" ELSE "collect",
                                                    n |-> r.n - got, batch |-> r.batch + got, end |-> end]]
    /\ UNCHANGED <<rxFifo, rxBuf, consBuf, consW, consE, edit, nTyped, txVars>>

\* The batch is copied out without the lock; the read goes on if more is wanted.
TtyCopy(t) ==
    /\ ttyReader[t].pc = "copy"
    /\ ttyReader' = [ttyReader EXCEPT ![t] = IF @.n = 0 \/ @.end THEN IdleReader
                                             ELSE [@ EXCEPT !.pc = "collect", !.batch = 0]]
    /\ UNCHANGED <<rxFifo, rxBuf, consBuf, consR, consW, consE, edit, ready, nTyped, txVars>>

(* The transmitter -------------------------------------------------------------------- *)

TxIdle(fifo) == fifo = <<>>
TxPending(r, w) == Gap(w, r)

\* uartstart with the indices r and w: fill the idle hardware, keep its interrupt
\* enabled while anything is left, wake the writers if there is room again.
UartStart(buf, r, w, writers) ==
    LET half == UART_FIFO_SIZE \div 2
        k == IF ~TxIdle(txFifo) THEN 0
             ELSE IF TxPending(r, w) < half THEN TxPending(r, w) ELSE half
    IN /\ txFifo' = txFifo \o [i \in 1..k |-> buf[(r + i - 1) % UART_TX_BUF_SIZE]]
       /\ txR' = (r + k) % CounterMax
       /\ txEnabled' = IF TxIdle(txFifo) THEN txR' # w ELSE txEnabled \/ r # w
       /\ ttyWriter' = [t \in TtyWriters |->
                          IF k > 0 /\ writers[t] = "sleep" THEN "put" ELSE writers[t]]

\* uartputc: wait for room, or store the character and start.
WriteStart(t) ==
    /\ ttyWriter[t] = "idle" /\ Len(ttyWritten) < MaxWritten
    /\ ttyWriter' = [ttyWriter EXCEPT ![t] = "put"]
    /\ UNCHANGED <<rxVars, txBuf, txR, txW, txEnabled, txFifo, txSent, ttyWritten>>
TxFull == TxPending(txR, txW) = UART_TX_BUF_SIZE
PutSleep(t) ==
    /\ ttyWriter[t] = "put" /\ TxFull
    /\ ttyWriter' = [ttyWriter EXCEPT ![t] = "sleep"]
    /\ UNCHANGED <<rxVars, txBuf, txR, txW, txEnabled, txFifo, txSent, ttyWritten>>

UartPutc(t) ==
    /\ ttyWriter[t] = "put" /\ ~TxFull
    /\ txBuf' = [txBuf EXCEPT ![txW % UART_TX_BUF_SIZE] = t]
    /\ txW' = IdxUp(txW) /\ ttyWritten' = Append(ttyWritten, t)
    /\ UartStart(txBuf', txR, txW', [ttyWriter EXCEPT ![t] = "idle"])
    /\ UNCHANGED <<rxVars, txSent>>

\* The hardware sends; when its FIFO is empty and the interrupt enabled, or a
\* character was received, uartintr starts it again.
TxSends ==
    /\ txFifo # <<>>
    /\ txSent' = Append(txSent, Head(txFifo)) /\ txFifo' = Tail(txFifo)
    /\ UNCHANGED <<rxVars, txBuf, txR, txW, txEnabled, ttyWriter, ttyWritten>>
UartIntrTx ==
    /\ txEnabled /\ TxIdle(txFifo)
    /\ UartStart(txBuf, txR, txW, ttyWriter)
    /\ UNCHANGED <<rxVars, txBuf, txW, txSent, ttyWritten>>

ConsoleInit ==
    /\ rxFifo = <<>> /\ rxBuf = <<>> /\ edit = <<>> /\ ready = <<>> /\ nTyped = 0
    /\ consBuf = [i \in 0..INPUT_BUF_SIZE - 1 |-> ""] /\ consR = 0 /\ consW = 0 /\ consE = 0
    /\ ttyReader = [t \in TtyReaders |-> IdleReader]
    /\ txBuf = [i \in 0..UART_TX_BUF_SIZE - 1 |-> 0] /\ txR = 0 /\ txW = 0
    /\ txEnabled = FALSE /\ txFifo = <<>> /\ txSent = <<>> /\ ttyWritten = <<>>
    /\ ttyWriter = [t \in TtyWriters |-> "idle"]

InputNext ==
    \/ \E c \in Typed : Press(c)
    \/ UartRecv \/ ConsoleIntr
    \/ \E t \in TtyReaders : TtyRead(t) \/ TtySleep(t) \/ TtyKilled(t) \/ TtyTake(t) \/ TtyCopy(t)
OutputNext ==
    \/ \E t \in TtyWriters : WriteStart(t) \/ PutSleep(t) \/ UartPutc(t)
    \/ TxSends \/ UartIntrTx

(* Channels ------------------------------------------------------------------------- *)

AtChan(t, pc) == chanAt[t].pc = pc
ToChan(t, pc) == chanAt' = [chanAt EXCEPT ![t].pc = pc]
LockChan(c, t) == chanLock[c] = {} /\ chanLock' = [chanLock EXCEPT ![c] = {t}]
UnlockChan(c) == chanLock' = [chanLock EXCEPT ![c] = {}]

\* A caller takes the lock that guards what it waits for, or what it brings.
ChanCall(t, c, pc) ==
    /\ AtChan(t, "idle") /\ LockChan(c, t)
    /\ chanAt' = [chanAt EXCEPT ![t] = [pc |-> pc, chan |-> c, on |-> FALSE]]
    /\ UNCHANGED <<chanReady, sleepLock, chanTree>>

\* The caller's loop: it is there, and is taken.
ChanTake(t) ==
    LET c == chanAt[t].chan
    IN /\ AtChan(t, "test") /\ chanReady[c]
       /\ chanReady' = [chanReady EXCEPT ![c] = FALSE]
       /\ UnlockChan(c) /\ ToChan(t, "idle")
       /\ UNCHANGED <<sleepLock, chanTree>>

\* sleep_on_chan: __sleep_lock first, then current->chan, then the caller's lock goes.
SleepOnChan(t) ==
    /\ AtChan(t, "test") /\ ~chanReady[chanAt[t].chan] /\ sleepLock = {}
    /\ sleepLock' = {t}
    /\ chanAt' = [chanAt EXCEPT ![t].pc = "unlock", ![t].on = TRUE]
    /\ UNCHANGED <<chanReady, chanLock, chanTree>>
SleepUnlock(t) ==
    /\ AtChan(t, "unlock")
    /\ UnlockChan(chanAt[t].chan) /\ ToChan(t, "wait")
    /\ UNCHANGED <<chanReady, sleepLock, chanTree>>

\* The waiter is on the sleeper's stack: ttree_add, and __ttree_do_remove by the waker.
TtreeAdd(t) == chanTree' = chanTree \cup {[key |-> chanAt[t].chan, thread |-> t]}
TtreeRemove(n) == chanTree' = chanTree \ {n}

\* ttree_wait: the state is set and the waiter is added, __sleep_lock still held.
TtreeWait(t) ==
    /\ AtChan(t, "wait")
    /\ TtreeAdd(t)
    /\ ToChan(t, "switch")
    /\ UNCHANGED <<chanReady, chanLock, sleepLock>>

\* context_switch_finish, on the stack of the next thread: the sleeper is off its CPU,
\* and the CPU lets go of the lock the sleeper took.
ChanSwitch(t) ==
    /\ AtChan(t, "switch")
    /\ sleepLock' = {} /\ ToChan(t, "asleep")
    /\ UNCHANGED <<chanReady, chanLock, chanTree>>

\* Woken: current->chan is cleared under __sleep_lock, then the caller's lock again.
ClearChan(t) ==
    /\ AtChan(t, "woken") /\ sleepLock = {}
    /\ chanAt' = [chanAt EXCEPT ![t].pc = "relock", ![t].on = FALSE]
    /\ UNCHANGED <<chanReady, chanLock, sleepLock, chanTree>>
ChanRelock(t) ==
    /\ AtChan(t, "relock")
    /\ LockChan(chanAt[t].chan, t) /\ ToChan(t, "test")
    /\ UNCHANGED <<chanReady, sleepLock, chanTree>>

\* What is waited for arrives, under the caller's lock, which is kept throughout.
ChanBring(t) ==
    /\ AtChan(t, "bring")
    /\ chanReady' = [chanReady EXCEPT ![chanAt[t].chan] = TRUE]
    /\ ToChan(t, "wakeup")
    /\ UNCHANGED <<chanLock, sleepLock, chanTree>>
WakeupOnChan(t) ==
    /\ AtChan(t, "wakeup") /\ sleepLock = {}
    /\ sleepLock' = {t} /\ ToChan(t, "waking")
    /\ UNCHANGED <<chanReady, chanLock, chanTree>>

\* __ttree_find_key_min: the first waiter at or above the key, in the order of keys and
\* then addresses, if it has that key.
WaiterBelow(m, n) == m.key < n.key \/ (m.key = n.key /\ m.thread <= n.thread)
FindKeyMin(key) ==
    {n \in chanTree : n.key = key /\ \A m \in chanTree : m.key >= key => WaiterBelow(n, m)}

\* ttree_wakeup_one: the waiter is removed and its thread woken, which waits for the
\* thread to have left its CPU.
TtreeWakeupOne(t) ==
    \E n \in FindKeyMin(chanAt[t].chan) :
        /\ AtChan(t, "waking") /\ AtChan(n.thread, "asleep")
        /\ TtreeRemove(n)
        /\ ToChan(n.thread, "woken")
        /\ UNCHANGED <<chanReady, chanLock, sleepLock>>
WakeupDone(t) ==
    /\ AtChan(t, "waking") /\ FindKeyMin(chanAt[t].chan) = {}
    /\ sleepLock' = {} /\ UnlockChan(chanAt[t].chan) /\ ToChan(t, "idle")
    /\ UNCHANGED <<chanReady, chanTree>>

ChanInit ==
    /\ chanReady = [c \in Chans |-> FALSE] /\ chanLock = [c \in Chans |-> {}]
    /\ sleepLock = {} /\ chanTree = {}
    /\ chanAt = [t \in ChanThreads |-> [pc |-> "idle", chan |-> 0, on |-> FALSE]]
ChanNext ==
    \E t \in ChanThreads :
        \/ \E c \in Chans, pc \in {"test", "bring"} : ChanCall(t, c, pc)
        \/ ChanTake(t) \/ SleepOnChan(t) \/ SleepUnlock(t) \/ TtreeWait(t) \/ ChanSwitch(t)
        \/ ClearChan(t) \/ ChanRelock(t)
        \/ ChanBring(t) \/ WakeupOnChan(t) \/ TtreeWakeupOne(t) \/ WakeupDone(t)
ChanSpec == ChanInit /\ [][ChanNext]_chanVars

(* Properties ----------------------------------------------------------------------- *)

\* The caller's lock is gone before the thread sleeps, and still no wakeup is lost: a
\* thread on its way to sleep, or asleep, for something that is there has a waker under
\* way that will find it.  The tree holds exactly the sleepers, each under its channel,
\* and a waker, who holds the one lock of all channels, never waits for a thread that
\* has not left its CPU.
NoChanWakeupLost ==
    /\ \A t \in ChanThreads :
        /\ chanAt[t].pc \in {"unlock", "wait", "switch", "asleep"} /\ chanReady[chanAt[t].chan]
             => \E w \in ChanThreads : chanAt[w].pc \in {"wakeup", "waking"}
                                        /\ chanAt[w].chan = chanAt[t].chan
        /\ chanAt[t].pc \in {"switch", "asleep"}
             <=> [key |-> chanAt[t].chan, thread |-> t] \in chanTree
        /\ AtChan(t, "waking") => \A n \in chanTree : AtChan(n.thread, "asleep")
    /\ \A n \in chanTree : chanAt[n.thread].on /\ chanAt[n.thread].chan = n.key

\* The ring of three indices is the promised line discipline: what lies between r
\* and w is what was committed and not read, what lies between w and e is the line
\* as edited, and no reader sleeps while something is committed.
InputIsExact ==
    LET cells(lo, hi) == [i \in 1..Gap(hi, lo) |-> consBuf[Cell(lo + i - 1)]]
    IN /\ cells(consR, consW) = ready /\ cells(consW, consE) = edit
       /\ \A t \in TtyReaders : ttyReader[t].pc = "sleep" => ready = <<>>

\* Output leaves in the order it was written, and while any of it waits in the
\* buffer the transmit interrupt is enabled, so that no writer sleeps for good.
OutputIsMoving ==
    /\ txSent \o txFifo \o [i \in 1..TxPending(txR, txW) |-> txBuf[(txR + i - 1) % UART_TX_BUF_SIZE]]
         = ttyWritten
    /\ txR # txW => txEnabled
    /\ \A t \in TtyWriters : ttyWriter[t] = "sleep" => TxFull
=============================================================================
