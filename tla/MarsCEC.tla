------------------------------ MODULE MarsCEC ------------------------------
(***************************************************************************)
(* The CEC adapter of the Mars/Neptune chips (cec_mars.c, cm_buff.c and    *)
(* the ioctls of cec_dev.c): blocking senders and readers, a transmit and  *)
(* a receive worker that run under one spinlock from the interrupt handler *)
(* and from keventd, a delayed work item as transmit timeout, and enabling *)
(* and disabling the chip under all of them.                               *)
(*                                                                         *)
(* A transmit buffer is named by its sender (a send is blocking, so it has *)
(* one); its length counts loads of the 15-byte hardware FIFO.  A receive  *)
(* buffer is told from others only by the queue it is in, and its filling, *)
(* which may take several interrupts for a long frame, is one step.        *)
(***************************************************************************)
EXTENDS Integers, FiniteSets, Sequences

CONSTANTS
  Senders,      \* threads in CEC_SEND_MESSAGE
  Readers,      \* threads in CEC_RCV_MESSAGE
  NoMsg,        \* NULL for a transmit buffer
  Lengths,      \* lengths of messages, in FIFO loads
  RxRing,       \* RX_RING_LENGTH
  CompleteAll,  \* UINT_MAX/2, what complete_all adds
  MaxSends,     \* bound on sends
  MaxReceives,  \* bound on messages that arrive on the bus
  MaxTraffic,   \* bound on both together
  MaxDisables   \* bound on disabling the chip

ASSUME CECAssumption ==
  /\ Senders \cap Readers = {} /\ NoMsg \notin Senders
  /\ Lengths \subseteq Nat \ {0}
  /\ IsFiniteSet(Readers)
  /\ RxRing \in Nat /\ RxRing > Cardinality(Readers)
  /\ CompleteAll \in Nat /\ CompleteAll > MaxReceives + Cardinality(Readers)
  /\ MaxSends \in Nat /\ MaxReceives \in Nat /\ MaxTraffic \in Nat /\ MaxDisables \in Nat

VARIABLES
  enabled,       \* status.enable
  control,       \* progress of mars_cec_enable
  txEnable, txState, txCmb, txQueue,
  rxEnable, rxState, rxCmb, rxQueue,
  rxFree,        \* length of rx_free_queue
  rxDone,        \* rcv.complete: its count ...
  rxWaiters,     \* ... and the threads on its wait queue
  asleep,        \* waiters that no complete() has woken
  worklist,      \* keventd: work items queued, in order
  keventd,       \* the item whose function keventd is about to run
  txTimer,       \* timer of the delayed transmit work is running
  due,           \* jiffies is past xmit.timeout
  txHw,          \* MIS_CEC_TX0/TX1: "off", "run" (TX_EN), then "eom" or "fail"
  txContinuous,  \* TX_CONTINUOUS: more loads follow
  txInt,         \* TX_INT: the FIFO wants the next load
  txHigh,        \* MIS_CEC_TX_DATA2 = 1
  rxHw,          \* MIS_CEC_RX0/RX1: "off", "run" (RX_EN), then "eom" or "fail"
  irq,           \* bits of MIS_ISR
  pc,            \* where each sender and reader is
  len,           \* loads left in a sender's buffer
  status,        \* status of a sender's buffer
  completed,     \* senders whose buffer's completion is signalled
  sends, receives, disables,  \* counts, bounded
  acked,         \* history: senders whose whole message the bus accepted
  onBus,         \* history: the sender whose message the hardware holds
  late,          \* history: senders that queued their message after the abort
  timerLost,     \* history: a transmission started without a timeout
  taken,         \* history: the last message a reader took from the queue
  clobbered      \* history: a live work item or completion was initialised

txVars   == <<txEnable, txState, txCmb, txQueue>>
rxVars   == <<rxEnable, rxState, rxCmb, rxQueue, rxFree>>
compVars == <<rxDone, rxWaiters, asleep>>
workVars == <<worklist, txTimer, due>>
txHwVars == <<txHw, txContinuous, txInt, txHigh, onBus>>
cmbVars  == <<len, status, completed>>
boundVars == <<sends, receives, disables>>
vars == <<enabled, control, txVars, rxVars, compVars, workVars, keventd, txHwVars,
          rxHw, irq, pc, cmbVars, boundVars, acked, late, timerLost, taken, clobbered>>

Threads == Senders \cup Readers

Queued(work) == \E i \in 1..Len(worklist) : worklist[i] = work
TxPending == txTimer \/ Queued("tx")

-----------------------------------------------------------------------------
Init ==
  /\ enabled = FALSE /\ control = "idle"
  /\ txEnable = FALSE /\ txState = "IDEL" /\ txCmb = NoMsg /\ txQueue = << >>
  /\ rxEnable = FALSE /\ rxState = "IDEL" /\ rxCmb = FALSE /\ rxQueue = << >>
  /\ rxFree = RxRing
  /\ rxDone = 0 /\ rxWaiters = << >> /\ asleep = {}
  /\ worklist = << >> /\ keventd = "idle" /\ txTimer = FALSE /\ due = FALSE
  /\ txHw = "off" /\ txContinuous = FALSE /\ txInt = FALSE /\ txHigh = TRUE
  /\ rxHw = "off" /\ irq = {}
  /\ pc = [t \in Threads |-> "idle"]
  /\ len = [s \in Senders |-> 0]
  /\ status = [s \in Senders |-> "none"]
  /\ completed = {}
  /\ sends = 0 /\ receives = 0 /\ disables = 0
  /\ acked = {} /\ onBus = NoMsg /\ late = {}
  /\ timerLost = FALSE /\ taken = 0 /\ clobbered = FALSE

Goto(t, label) == pc' = [pc EXCEPT ![t] = label]

-----------------------------------------------------------------------------
(* Transmit worker: mars_cec_tx_work, one critical section *)

\* Wrong variant: the timeout is not looked at.
TxOverOnlyByHardware == txState = "XMIT" /\ txHw # "run"

\* The transmission in progress is over: by itself or by the timeout.
TxOver == txState = "XMIT" /\ (txHw # "run" \/ due)

\* Wrong variant: the end of the transmission is taken for its success.
TxResultWithoutEom == IF txHw = "run" THEN "timeout" ELSE "ok"

TxResult ==
  IF txHw = "run" THEN "timeout" ELSE IF txHw = "eom" THEN "ok" ELSE "fail"

\* Whether the worker takes the next message from the queue.
TxNext == (txState = "IDEL" \/ TxOver) /\ txEnable /\ txQueue # << >>

\* Refill of the FIFO while the hardware transmits.
TxRefill ==
  IF txInt
  THEN /\ len' = [len EXCEPT ![txCmb] = IF @ > 0 THEN @ - 1 ELSE 0]
       /\ txContinuous' = (txContinuous /\ len[txCmb] > 1)
       /\ txInt' = FALSE
  ELSE UNCHANGED <<len, txContinuous, txInt>>

\* Wrong variant: the receiver is reset and not restarted.
RestartRxForgotten(works) == works

\* schedule_work(&rcv.work) when a transmission is over.
RestartRx(works) ==
  IF TxOver /\ ~Queued("rx") THEN Append(works, "rx") ELSE works

\* mars_cec_tx_work, given the work items that remain queued.
TxWork(works) ==
  LET next  == Head(txQueue)
      rest  == len[next] - 1
      armed == txTimer /\ ~TxOver
      pending == armed \/ \E i \in 1..Len(works) : works[i] = "tx"
  IN
  /\ IF TxOver
     THEN /\ status' = [status EXCEPT ![txCmb] = TxResult]
          /\ completed' = completed \cup {txCmb}
     ELSE UNCHANGED <<status, completed>>
  /\ worklist' = RestartRx(works)
  /\ IF TxOver \/ TxNext THEN rxHw' = "off" /\ rxState' = "IDEL"
                         ELSE UNCHANGED <<rxHw, rxState>>
  /\ CASE TxNext ->
            /\ txCmb' = next /\ txQueue' = Tail(txQueue) /\ txState' = "XMIT"
            /\ len' = [len EXCEPT ![next] = rest]
            /\ txHw' = "run" /\ txContinuous' = (rest > 0) /\ txInt' = FALSE
            /\ txHigh' = FALSE /\ onBus' = next
            /\ due' = FALSE
            /\ txTimer' = (armed \/ ~pending)
            /\ timerLost' = (timerLost \/ pending)
       [] TxOver /\ ~TxNext ->
            /\ txCmb' = NoMsg /\ txState' = "IDEL"
            /\ txHw' = "off" /\ txContinuous' = FALSE /\ txInt' = FALSE
            /\ txHigh' = TRUE /\ onBus' = NoMsg
            /\ txTimer' = FALSE /\ due' = FALSE
            /\ UNCHANGED <<txQueue, len, timerLost>>
       [] txState = "XMIT" /\ ~TxOver ->
            /\ TxRefill
            /\ UNCHANGED <<txCmb, txQueue, txState, txHw, txHigh, onBus, due, txTimer, timerLost>>
       [] OTHER ->
            UNCHANGED <<txCmb, txQueue, txState, len, txHwVars, due, txTimer, timerLost>>
  /\ UNCHANGED <<txEnable, rxEnable, rxCmb, rxQueue, rxFree, compVars>>

(* Receive worker: mars_cec_rx_work, one critical section *)

\* Wrong variant: counted, nobody woken.
CompleteSilently(more) == rxDone' = rxDone + more /\ UNCHANGED <<asleep, rxWaiters>>

\* complete(): count one, wake the first waiter that still sleeps; complete_all(): wake all.
Complete(more) ==
  LET sleeping == {k \in 1..Len(rxWaiters) : rxWaiters[k] \in asleep}
      first    == CHOOSE k \in sleeping : \A j \in sleeping : k <= j
  IN
  /\ rxDone' = rxDone + more
  /\ asleep' = IF sleeping = {} THEN asleep
               ELSE IF more = 1 THEN asleep \ {rxWaiters[first]} ELSE {}
  /\ UNCHANGED rxWaiters

\* A whole message lies in the FIFO of a stopped receiver.
RxArrived == rxEnable /\ rxState = "RCV" /\ rxHw = "eom"

\* The worker is to start the receiver: it is idle or has just stopped, and
\* the transmitter does not pull the line.
RxRestart == rxEnable /\ (rxState = "IDEL" \/ rxHw # "run") /\ txHigh

\* The message that was being received is queued for the readers; the next
\* buffer comes from the free queue, or is taken back from the readers' queue.
RxWork ==
  LET forced  == ~rxEnable /\ rxState = "RCV"
      arrived == IF RxArrived THEN Append(rxQueue, receives) ELSE rxQueue
      holds   == rxCmb /\ ~RxArrived /\ ~forced
      reclaim == ~holds /\ rxFree = 0
  IN
  /\ IF RxArrived THEN Complete(1) ELSE UNCHANGED compVars
  /\ IF RxRestart
     THEN /\ rxFree' = IF ~holds /\ rxFree > 0 THEN rxFree - 1 ELSE rxFree
          /\ rxQueue' = IF reclaim /\ arrived # << >> THEN Tail(arrived) ELSE arrived
          /\ rxCmb' = (holds \/ rxFree > 0 \/ arrived # << >>)
          /\ rxHw' = IF rxCmb' THEN "run" ELSE rxHw
          /\ rxState' = IF rxCmb' THEN "RCV" ELSE "IDEL"
     ELSE /\ rxQueue' = arrived /\ rxCmb' = holds
          /\ rxState' = IF rxEnable /\ rxHw = "run" THEN rxState ELSE "IDEL"
          /\ rxHw' = IF forced THEN "off" ELSE rxHw
          /\ UNCHANGED rxFree
  /\ UNCHANGED <<rxEnable, txVars, cmbVars, txHwVars, workVars, timerLost>>

-----------------------------------------------------------------------------
(* mars_cec_isr: interrupts stay off until the event bit is cleared, and the *)
(* bus is a thousand times slower than the handler.                          *)

Context == <<enabled, control, pc, boundVars, acked, late, taken, clobbered>>

IsrTx ==
  /\ "tx" \in irq
  /\ TxWork(worklist)
  /\ irq' = irq \ {"tx"}
  /\ UNCHANGED <<keventd, Context>>

IsrRx ==
  /\ "rx" \in irq
  /\ RxWork
  /\ irq' = irq \ {"rx"}
  /\ UNCHANGED <<keventd, Context>>

\* run_workqueue: the item is unlinked and no longer pending when it runs.
KeventdTake ==
  /\ keventd = "idle" /\ worklist # << >>
  /\ keventd' = Head(worklist)
  /\ worklist' = Tail(worklist)
  /\ UNCHANGED <<txTimer, due, txVars, rxVars, compVars, txHwVars, rxHw, irq, cmbVars, timerLost, Context>>

KeventdTx ==
  /\ keventd = "tx"
  /\ TxWork(worklist)
  /\ keventd' = "idle"
  /\ UNCHANGED <<irq, Context>>

KeventdRx ==
  /\ keventd = "rx"
  /\ RxWork
  /\ keventd' = "idle"
  /\ UNCHANGED <<irq, Context>>

\* delayed_work_timer_fn, TX_TIMEOUT+1 after the transmission began.
TimerFires ==
  /\ txTimer
  /\ txTimer' = FALSE
  /\ due' = (txState = "XMIT")
  /\ worklist' = Append(worklist, "tx")
  /\ UNCHANGED <<txVars, rxVars, compVars, keventd, txHwVars, rxHw, irq, cmbVars, timerLost, Context>>

-----------------------------------------------------------------------------
(* mars_cec_xmit_message, called by the CEC_SEND_MESSAGE ioctl: refused, with *)
(* no effect, while xmit.enable is clear                                      *)

Driver == <<enabled, control, rxVars, compVars, keventd, txHwVars, rxHw, irq,
            timerLost, taken, clobbered, txEnable, txState, txCmb, txTimer, due>>

SendCall(s, n) ==
  /\ pc[s] = "idle" /\ sends < MaxSends /\ sends + receives < MaxTraffic
  /\ txEnable
  /\ Goto(s, "queue")
  /\ len' = [len EXCEPT ![s] = n]
  /\ sends' = sends + 1
  /\ UNCHANGED <<Driver, txQueue, worklist, status, completed, receives, disables, acked, late>>

SendQueue(s) ==
  /\ pc[s] = "queue"
  /\ status' = [status EXCEPT ![s] = "wait"]
  /\ txQueue' = Append(txQueue, s)
  /\ late' = IF txEnable THEN late ELSE late \cup {s}
  /\ Goto(s, "schedule")
  /\ UNCHANGED <<Driver, worklist, len, completed, boundVars, acked>>

\* schedule_work: nothing when the item is pending, its timer included.
SendSchedule(s) ==
  /\ pc[s] = "schedule"
  /\ worklist' = IF TxPending THEN worklist ELSE Append(worklist, "tx")
  /\ Goto(s, "wait")
  /\ UNCHANGED <<Driver, txQueue, cmbVars, boundVars, acked, late>>

\* wait_for_completion returns; the buffer is freed.
SendReturn(s) ==
  /\ pc[s] = "wait" /\ s \in completed
  /\ completed' = completed \ {s}
  /\ status' = [status EXCEPT ![s] = "none"]
  /\ len' = [len EXCEPT ![s] = 0]
  /\ acked' = acked \ {s} /\ late' = late \ {s}
  /\ Goto(s, "idle")
  /\ UNCHANGED <<Driver, txQueue, worklist, boundVars>>

-----------------------------------------------------------------------------
(* mars_cec_read_message, called by the CEC_RCV_MESSAGE ioctl *)

ReadFrame == <<enabled, control, txVars, rxEnable, rxState, rxCmb, workVars, keventd,
               txHwVars, rxHw, irq, cmbVars, boundVars, acked, late, timerLost, clobbered>>

ReadTest(r) ==
  /\ pc[r] \in {"idle", "again"}
  /\ Goto(r, IF ~enabled THEN "disabled" ELSE IF rxQueue = << >> THEN "wait" ELSE "take")
  /\ UNCHANGED <<ReadFrame, rxQueue, rxFree, compVars, taken>>

\* wait_for_completion
ReadWait(r) ==
  /\ pc[r] = "wait"
  /\ IF rxDone > 0
     THEN Goto(r, "again") /\ rxDone' = rxDone - 1 /\ UNCHANGED <<rxWaiters, asleep>>
     ELSE /\ Goto(r, "sleep")
          /\ rxWaiters' = Append(rxWaiters, r) /\ asleep' = asleep \cup {r}
          /\ UNCHANGED rxDone
  /\ UNCHANGED <<ReadFrame, rxQueue, rxFree, taken>>

\* A woken waiter looks at the count again before it leaves the wait queue.
ReadWoken(r) ==
  /\ pc[r] = "sleep" /\ r \notin asleep
  /\ IF rxDone > 0
     THEN /\ Goto(r, "again") /\ rxDone' = rxDone - 1
          /\ \E k \in 1..Len(rxWaiters) :
               /\ rxWaiters[k] = r
               /\ rxWaiters' = SubSeq(rxWaiters, 1, k - 1) \o SubSeq(rxWaiters, k + 1, Len(rxWaiters))
          /\ UNCHANGED asleep
     ELSE asleep' = asleep \cup {r} /\ UNCHANGED <<pc, rxDone, rxWaiters>>
  /\ UNCHANGED <<ReadFrame, rxQueue, rxFree, taken>>

\* Wrong variant: the buffer is handed out and stays in the queue.
ReadTakePeeks(r) ==
  /\ pc[r] \in {"take", "disabled"}
  /\ IF enabled /\ rxQueue # << >>
     THEN UNCHANGED rxQueue /\ taken' = Head(rxQueue) /\ Goto(r, "refill")
     ELSE UNCHANGED <<rxQueue, taken>> /\ Goto(r, "idle")
  /\ UNCHANGED <<ReadFrame, rxFree, compVars>>

\* The oldest message left is taken, which an overrun may have made another one
\* than the reader found.
ReadTake(r) ==
  /\ pc[r] \in {"take", "disabled"}
  /\ IF enabled /\ rxQueue # << >>
     THEN rxQueue' = Tail(rxQueue) /\ taken' = Head(rxQueue) /\ Goto(r, "refill")
     ELSE UNCHANGED <<rxQueue, taken>> /\ Goto(r, "idle")
  /\ UNCHANGED <<ReadFrame, rxFree, compVars>>

\* The buffer handed to the reader is replaced by a new one.
ReadRefill(r) ==
  /\ pc[r] = "refill"
  /\ rxFree' = rxFree + 1
  /\ Goto(r, "idle")
  /\ UNCHANGED <<ReadFrame, rxQueue, compVars, taken>>

-----------------------------------------------------------------------------
(* mars_cec_enable: CEC_ENABLE, the release of the device file *)

CtlFrame == <<keventd, irq, pc, sends, receives, acked, late, timerLost, taken>>

EnableCall ==
  /\ control = "idle" /\ ~enabled
  /\ control' = "rxStart"
  /\ UNCHANGED <<CtlFrame, enabled, txVars, rxVars, compVars, workVars, txHwVars, rxHw,
                 cmbVars, disables, clobbered>>

\* INIT_WORK and init_completion make objects new that may be in use.
RxStart ==
  /\ control = "rxStart"
  /\ control' = "txStart"
  /\ IF rxEnable
     THEN UNCHANGED <<rxEnable, rxState, rxCmb, rxDone, rxWaiters, worklist, clobbered>>
     ELSE /\ rxEnable' = TRUE /\ rxState' = "IDEL" /\ rxCmb' = FALSE
          /\ rxDone' = 0 /\ rxWaiters' = << >>
          /\ worklist' = Append(worklist, "rx")
          /\ clobbered' = (Queued("rx") \/ rxWaiters # << >>)
  /\ UNCHANGED <<CtlFrame, enabled, txVars, rxQueue, rxFree, asleep, txTimer, due,
                 txHwVars, rxHw, cmbVars, disables>>

TxStart ==
  /\ control = "txStart"
  /\ control' = "enable"
  /\ IF txEnable
     THEN UNCHANGED <<txEnable, txState, txCmb, clobbered>>
     ELSE /\ txEnable' = TRUE /\ txState' = "IDEL" /\ txCmb' = NoMsg
          /\ clobbered' = TxPending
  /\ UNCHANGED <<CtlFrame, enabled, txQueue, rxVars, compVars, workVars, txHwVars, rxHw,
                 cmbVars, disables>>

EnableDone ==
  /\ control = "enable"
  /\ control' = "idle"
  /\ enabled' = TRUE
  /\ UNCHANGED <<CtlFrame, txVars, rxVars, compVars, workVars, txHwVars, rxHw,
                 cmbVars, disables, clobbered>>

DisableCall ==
  /\ control = "idle" /\ enabled /\ disables < MaxDisables
  /\ enabled' = FALSE
  /\ disables' = disables + 1
  /\ control' = "rxStop"
  /\ UNCHANGED <<CtlFrame, txVars, rxVars, compVars, workVars, txHwVars, rxHw, cmbVars, clobbered>>

\* Wrong variant: a buffer is returned although none was being filled.
RxStopCountsBuffer ==
  /\ control = "rxStop"
  /\ control' = "txStop"
  /\ IF rxEnable
     THEN /\ rxFree' = rxFree + Len(rxQueue) + 1
          /\ rxQueue' = << >> /\ rxCmb' = FALSE
          /\ rxEnable' = FALSE /\ rxState' = "IDEL" /\ rxHw' = "off"
          /\ Complete(CompleteAll)
     ELSE UNCHANGED <<rxVars, rxHw, compVars>>
  /\ UNCHANGED <<CtlFrame, enabled, txVars, workVars, txHwVars, cmbVars, disables, clobbered>>

\* Wrong variant: unread messages are dropped with their buffers.
RxStopDropsQueue ==
  /\ control = "rxStop"
  /\ control' = "txStop"
  /\ IF rxEnable
     THEN /\ rxFree' = rxFree + (IF rxCmb THEN 1 ELSE 0)
          /\ rxQueue' = << >> /\ rxCmb' = FALSE
          /\ rxEnable' = FALSE /\ rxState' = "IDEL" /\ rxHw' = "off"
          /\ Complete(CompleteAll)
     ELSE UNCHANGED <<rxVars, rxHw, compVars>>
  /\ UNCHANGED <<CtlFrame, enabled, txVars, workVars, txHwVars, cmbVars, disables, clobbered>>

RxStop ==
  /\ control = "rxStop"
  /\ control' = "txStop"
  /\ IF rxEnable
     THEN /\ rxFree' = rxFree + Len(rxQueue) + (IF rxCmb THEN 1 ELSE 0)
          /\ rxQueue' = << >> /\ rxCmb' = FALSE
          /\ rxEnable' = FALSE /\ rxState' = "IDEL" /\ rxHw' = "off"
          /\ Complete(CompleteAll)
     ELSE UNCHANGED <<rxVars, rxHw, compVars>>
  /\ UNCHANGED <<CtlFrame, enabled, txVars, workVars, txHwVars, cmbVars, disables, clobbered>>

\* Wrong variant: only the message being sent is aborted.
TxStopLeavesQueue ==
  LET aborted == {s \in Senders : s = txCmb} IN
  /\ control = "txStop"
  /\ control' = "idle"
  /\ IF txEnable
     THEN /\ status' = [s \in Senders |->
                          IF s \in aborted /\ status[s] = "wait" THEN "abort" ELSE status[s]]
          /\ completed' = completed \cup aborted
          /\ txCmb' = NoMsg /\ UNCHANGED txQueue
          /\ txEnable' = FALSE /\ txState' = "IDEL"
          /\ rxHw' = "off" /\ rxState' = "IDEL" /\ due' = FALSE
     ELSE UNCHANGED <<status, completed, txVars, rxHw, rxState, due>>
  /\ UNCHANGED <<CtlFrame, enabled, rxEnable, rxCmb, rxQueue, rxFree, compVars, worklist, txTimer,
                 txHwVars, len, disables, clobbered>>

\* Wrong variant: the driver keeps its pointer to the aborted message.
TxStopKeepsBuffer ==
  LET aborted == {s \in Senders : s = txCmb \/ \E i \in 1..Len(txQueue) : txQueue[i] = s} IN
  /\ control = "txStop"
  /\ control' = "idle"
  /\ IF txEnable
     THEN /\ status' = [s \in Senders |->
                          IF s \in aborted /\ status[s] = "wait" THEN "abort" ELSE status[s]]
          /\ completed' = completed \cup aborted
          /\ txQueue' = << >> /\ UNCHANGED txCmb
          /\ txEnable' = FALSE /\ txState' = "IDEL"
          /\ rxHw' = "off" /\ rxState' = "IDEL" /\ due' = FALSE
     ELSE UNCHANGED <<status, completed, txVars, rxHw, rxState, due>>
  /\ UNCHANGED <<CtlFrame, enabled, rxEnable, rxCmb, rxQueue, rxFree, compVars, worklist, txTimer,
                 txHwVars, len, disables, clobbered>>

\* Every message is aborted.  The receiver is reset here, the transmitter is not.
TxStop ==
  LET aborted == {s \in Senders : s = txCmb \/ \E i \in 1..Len(txQueue) : txQueue[i] = s} IN
  /\ control = "txStop"
  /\ control' = "idle"
  /\ IF txEnable
     THEN /\ status' = [s \in Senders |->
                          IF s \in aborted /\ status[s] = "wait" THEN "abort" ELSE status[s]]
          /\ completed' = completed \cup aborted
          /\ txQueue' = << >> /\ txCmb' = NoMsg
          /\ txEnable' = FALSE /\ txState' = "IDEL"
          /\ rxHw' = "off" /\ rxState' = "IDEL" /\ due' = FALSE
     ELSE UNCHANGED <<status, completed, txVars, rxHw, rxState, due>>
  /\ UNCHANGED <<CtlFrame, enabled, rxEnable, rxCmb, rxQueue, rxFree, compVars, worklist, txTimer,
                 txHwVars, len, disables, clobbered>>

-----------------------------------------------------------------------------
(* The CEC controller and the bus *)

BusFrame == <<enabled, control, txVars, rxVars, compVars, worklist, txTimer, keventd, pc, cmbVars,
              sends, disables, late, timerLost, taken, clobbered, txHigh, onBus>>

\* A message in several loads drains the FIFO.
BusTxDrained ==
  /\ txHw = "run" /\ txContinuous /\ ~txInt
  /\ txInt' = TRUE
  /\ irq' = irq \cup {"tx"}
  /\ UNCHANGED <<BusFrame, due, txHw, txContinuous, rxHw, receives, acked>>

\* The message is accepted, or refused after the retries of the hardware.
BusTxEnd(result) ==
  /\ txHw = "run" /\ (result = "eom" => ~txContinuous)
  /\ txHw' = result
  /\ irq' = irq \cup {"tx"}
  /\ acked' = IF result = "eom" /\ onBus = txCmb /\ len[onBus] = 0 THEN acked \cup {onBus} ELSE acked
  /\ UNCHANGED <<BusFrame, due, txContinuous, txInt, rxHw, receives>>

BusRxEnd(result) ==
  /\ rxHw = "run" /\ receives < MaxReceives /\ sends + receives < MaxTraffic
  /\ rxHw' = result
  /\ receives' = receives + 1
  /\ irq' = irq \cup {"rx"}
  /\ UNCHANGED <<BusFrame, due, txHw, txContinuous, txInt, acked>>

\* Time passes for a transmission without a timer, too.
Elapse ==
  /\ txState = "XMIT" /\ ~txTimer /\ ~due
  /\ due' = TRUE
  /\ UNCHANGED <<BusFrame, irq, txHw, txContinuous, txInt, rxHw, receives, acked>>

Interrupt == IsrTx \/ IsrRx

Send(s) == SendQueue(s) \/ SendSchedule(s) \/ SendReturn(s)
Read(r) == ReadTest(r) \/ ReadWait(r) \/ ReadWoken(r) \/ ReadTake(r) \/ ReadRefill(r)
Keventd == KeventdTake \/ KeventdTx \/ KeventdRx
Control == EnableCall \/ RxStart \/ TxStart \/ EnableDone \/ DisableCall \/ RxStop \/ TxStop

\* One processor: a thread runs only when no interrupt is to be served.
Thread ==
  /\ irq = {}
  /\ \/ \E s \in Senders : Send(s) \/ \E n \in Lengths : SendCall(s, n)
     \/ \E r \in Readers : Read(r)
     \/ Keventd \/ Control \/ TimerFires

Bus == \/ BusTxDrained \/ \E res \in {"eom", "fail"} : BusTxEnd(res)
       \/ \E res \in {"eom", "fail"} : BusRxEnd(res)
       \/ Elapse

\* Nothing is said of what follows the corruption of a live kernel object.
Next == ~clobbered /\ (Interrupt \/ Thread \/ Bus)

Spec == Init /\ [][Next]_vars

-----------------------------------------------------------------------------
(* Properties *)

\* Types, with the number of buffers in the free queue bounded by the ring.
TypeOK ==
  /\ enabled \in BOOLEAN
  /\ control \in {"idle", "rxStart", "txStart", "enable", "rxStop", "txStop"}
  /\ txEnable \in BOOLEAN /\ txState \in {"IDEL", "XMIT"}
  /\ txCmb \in Senders \cup {NoMsg} /\ txQueue \in Seq(Senders)
  /\ rxEnable \in BOOLEAN /\ rxState \in {"IDEL", "RCV"} /\ rxCmb \in BOOLEAN
  /\ rxQueue \in Seq(1..MaxReceives) /\ rxFree \in 0..RxRing
  /\ rxDone \in Nat /\ rxWaiters \in Seq(Readers) /\ asleep \in SUBSET Readers
  /\ worklist \in Seq({"tx", "rx"}) /\ keventd \in {"idle", "tx", "rx"}
  /\ txTimer \in BOOLEAN /\ due \in BOOLEAN
  /\ txHw \in {"off", "run", "eom", "fail"} /\ rxHw \in {"off", "run", "eom", "fail"}
  /\ txContinuous \in BOOLEAN /\ txInt \in BOOLEAN /\ txHigh \in BOOLEAN
  /\ irq \in SUBSET {"tx", "rx"}
  /\ pc \in [Threads -> {"idle", "queue", "schedule", "wait", "again", "sleep", "take", "disabled", "refill"}]
  /\ len \in [Senders -> Nat]
  /\ status \in [Senders -> {"none", "wait", "ok", "fail", "timeout", "abort"}]
  /\ completed \in SUBSET Senders
  /\ sends \in 0..MaxSends /\ receives \in 0..MaxReceives /\ disables \in 0..MaxDisables
  /\ acked \in SUBSET Senders /\ late \in SUBSET Senders /\ onBus \in Senders \cup {NoMsg}
  /\ timerLost \in BOOLEAN /\ taken \in 0..MaxReceives /\ clobbered \in BOOLEAN

\* No receive buffer is lost or used twice, whatever stops, restarts, overruns
\* and reads come in between: free, queued, being filled or at a reader.
BuffersConserved ==
  rxFree + Len(rxQueue) + (IF rxCmb THEN 1 ELSE 0)
    + Cardinality({r \in Readers : pc[r] = "refill"}) = RxRing

\* The sender frees its buffer when the call returns: until then, and only
\* until its completion, the driver may refer to it, and refers to it once.
NoDanglingBuffer ==
  /\ \A i \in 1..Len(txQueue) :
       /\ pc[txQueue[i]] \in {"schedule", "wait"} /\ txQueue[i] \notin completed
       /\ txQueue[i] # txCmb
       /\ \A j \in 1..Len(txQueue) : txQueue[i] = txQueue[j] => i = j
  /\ txCmb # NoMsg => pc[txCmb] \in {"schedule", "wait"} /\ txCmb \notin completed
  /\ txState = "XMIT" => txCmb # NoMsg

\* A send reports success only for a message that the bus accepted whole.
SuccessMeansSent ==
  \A s \in Senders : status[s] = "ok" => s \in acked

\* "terminate all blocked tx/rx thread when chip is disabled" (cec_mars.c, list
\* of updates): while the transmitter is disabled a blocked sender has been
\* aborted or answered; only one that tested xmit.enable before the abort and
\* queued its message after it stays behind.
DisableEndsSends ==
  ~txEnable =>
    \A s \in Senders : pc[s] \in {"schedule", "wait"} => s \in completed \cup late

\* A lone reader that saw the queue not empty does not come back empty-handed
\* until a disable, although the interrupt handler takes the oldest message back
\* on overrun: what it takes may be a later message than the one it saw, but the
\* handler takes one back only after it queued another.
ReaderFindsMessage ==
  Cardinality(Readers) = 1 /\ disables = 0 =>
    \A r \in Readers : pc[r] = "take" /\ enabled => rxQueue # << >>

\* Messages reach the readers in the order they arrived on the bus, each at most
\* once: an overrun, a restart of the receiver, a stop or two runs of the worker
\* for one event may lose messages, never repeat or reorder them.
ReadInOrder ==
  /\ \A i \in 1..Len(rxQueue) : taken < rxQueue[i]
  /\ \A i, j \in 1..Len(rxQueue) : i < j => rxQueue[i] < rxQueue[j]
  /\ RxArrived => taken < receives /\ \A i \in 1..Len(rxQueue) : rxQueue[i] < receives

\* Scheduling: interrupts, timers, keventd and threads run when they can.
\* Nothing is assumed of the bus, which may hang in a transmission.
Runs == irq = {} /\ ~clobbered

Fairness ==
  /\ WF_vars(~clobbered /\ Interrupt)
  /\ WF_vars(Runs /\ Keventd)
  /\ WF_vars(Runs /\ TimerFires)
  /\ \A s \in Senders : WF_vars(Runs /\ Send(s))
  /\ \A r \in Readers : WF_vars(Runs /\ Read(r))

FairSpec == Spec /\ Fairness

\* A blocked sender returns even when the bus hangs, unless the chip was
\* disabled or a transmission began without its timeout work.
SendReturns ==
  \A s \in Senders :
    pc[s] = "wait" ~> (pc[s] = "idle" \/ disables > 0 \/ timerLost)

\* After every transmission the receiver listens again.
ReceiverRestarts ==
  (rxEnable /\ rxState = "IDEL") ~> (rxState = "RCV" \/ disables > 0 \/ timerLost)

\* A reader that waits while a message is queued gets out of the call.
ReadReturns ==
  \A r \in Readers :
    (pc[r] \in {"wait", "sleep"} /\ rxQueue # << >>) ~> (pc[r] = "idle" \/ disables > 0)
=============================================================================
