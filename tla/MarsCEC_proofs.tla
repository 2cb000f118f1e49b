--------------------------- MODULE MarsCEC_proofs ---------------------------
(***************************************************************************)
(* Proofs about the CEC adapter, for any number of senders and readers and *)
(* any ring of receive buffers: no receive buffer is lost or used twice,   *)
(* the driver never refers to a message whose sender has returned, success *)
(* is reported only for a message the bus accepted, disabling the chip     *)
(* ends the sends that are under way, and messages are read in order.      *)
(***************************************************************************)
EXTENDS MarsCEC, FiniteSetTheorems, SequenceTheorems, TLAPS

\* Readers that hold a receive buffer.
Holders == {r \in Readers : pc[r] = "refill"}

\* The receive side: a buffer is being filled while the receiver runs, and
\* only then; messages have arrived before they lie in the FIFO.
RxInv ==
  /\ BuffersConserved
  /\ rxState = "RCV" => rxCmb
  /\ ~rxEnable => ~rxCmb
  /\ rxHw \in {"eom", "fail"} => receives >= 1

\* Before the first disabling a lone reader finds a message where it saw one.
TakeInv ==
  /\ control \in {"rxStop", "txStop"} => disables > 0
  /\ disables = 0 =>
       \A r \in Readers :
         pc[r] = "take" => enabled /\ (Readers = {r} => rxQueue # << >>)

InQueue(s) == \E i \in 1..Len(txQueue) : txQueue[i] = s

\* Where the message of a blocked sender is: completed, being transmitted or
\* queued; a message in the queue has not begun.
WaitInv ==
  /\ \A s \in Senders :
       /\ s \in completed => pc[s] \in {"schedule", "wait"}
       /\ pc[s] \in {"schedule", "wait"} => s \in completed \/ s = txCmb \/ InQueue(s)
       /\ pc[s] = "queue" => len[s] >= 1
  /\ \A i \in 1..Len(txQueue) : len[txQueue[i]] >= 1

\* A disabled transmitter has no message, and a queue of late ones.
IdleInv ==
  /\ txState = "IDEL" => txCmb = NoMsg
  /\ ~txEnable => txCmb = NoMsg /\ \A i \in 1..Len(txQueue) : txQueue[i] \in late

\* The hardware holds the message the driver transmits; when nothing of it is
\* left to load, the end of the message is the end of the whole message.
WireInv ==
  /\ txHw # "off" => onBus \in Senders
  /\ txState = "XMIT" =>
       /\ onBus = txCmb
       /\ ~txContinuous => len[txCmb] = 0
       /\ txHw = "eom" => txCmb \in acked

TxInv == NoDanglingBuffer /\ WaitInv /\ IdleInv /\ WireInv /\ SuccessMeansSent

\* The inductive invariant.
IInv == TypeOK /\ RxInv /\ TakeInv /\ TxInv

-----------------------------------------------------------------------------
(* Sequences and completions. *)

\* Adding at the end of a queue.
LEMMA AppendFacts ==
  ASSUME NEW S, NEW q \in Seq(S), NEW e \in S
  PROVE  /\ Append(q, e) \in Seq(S) /\ Len(Append(q, e)) = Len(q) + 1
         /\ \A i \in 1..Len(q) : Append(q, e)[i] = q[i]
         /\ Append(q, e)[Len(q) + 1] = e /\ Append(q, e) # << >>
  OBVIOUS

\* Taking from the head of a queue.
LEMMA TailFacts ==
  ASSUME NEW S, NEW q \in Seq(S), q # << >>
  PROVE  /\ Head(q) \in S /\ Head(q) = q[1] /\ 1 \in 1..Len(q)
         /\ Tail(q) \in Seq(S) /\ Len(Tail(q)) = Len(q) - 1 /\ Len(q) \in Nat /\ Len(q) >= 1
         /\ \A i \in 1..Len(q) - 1 : Tail(q)[i] = q[i + 1] /\ i + 1 \in 1..Len(q)
  OBVIOUS

\* complete() and complete_all() wake some of the sleepers.
LEMMA CompleteFacts ==
  ASSUME TypeOK, NEW m \in Nat, Complete(m)
  PROVE  rxDone' \in Nat /\ asleep' \in SUBSET Readers /\ rxWaiters' = rxWaiters
  BY DEF TypeOK, Complete

\* A waiter leaves the wait queue.
LEMMA LeaveFacts ==
  ASSUME NEW S, NEW q \in Seq(S), NEW k \in 1..Len(q)
  PROVE  SubSeq(q, 1, k - 1) \o SubSeq(q, k + 1, Len(q)) \in Seq(S)
  <1>1. \A i \in 1..k - 1 : q[i] \in S
    OBVIOUS
  <1>2. \A i \in k + 1..Len(q) : q[i] \in S
    OBVIOUS
  <1>3. SubSeq(q, 1, k - 1) \in Seq(S) /\ SubSeq(q, k + 1, Len(q)) \in Seq(S)
    BY <1>1, <1>2, SubSeqProperties
  <1> QED
    BY <1>3, ConcatProperties

-----------------------------------------------------------------------------
(* The receive side. *)

\* The readers that hold a buffer are finitely many.
LEMMA HoldersFinite ==
  IsFiniteSet(Holders) /\ Cardinality(Holders) \in Nat
  <1>1. IsFiniteSet(Holders)
    BY CECAssumption, FS_Subset DEF Holders
  <1> QED
    BY <1>1, FS_CardinalityType

\* Conservation, and with it the bound on the free buffers.
LEMMA FreeBound ==
  ASSUME RxInv, rxFree \in Nat, rxQueue \in Seq(1..MaxReceives), rxCmb \in BOOLEAN
  PROVE  /\ rxFree + Len(rxQueue) + (IF rxCmb THEN 1 ELSE 0) + Cardinality(Holders) = RxRing
         /\ rxFree \in 0..RxRing
  <1>1. rxFree + Len(rxQueue) + (IF rxCmb THEN 1 ELSE 0) + Cardinality(Holders) = RxRing
    BY DEF RxInv, BuffersConserved, Holders
  <1>2. PICK h \in Nat : h = Cardinality(Holders)
    BY HoldersFinite
  <1>3. PICK n \in Nat : n = Len(rxQueue)
    BY LenProperties
  <1>4. RxRing \in Nat
    BY CECAssumption
  <1>5. CASE rxCmb
    BY <1>1, <1>2, <1>3, <1>4, <1>5
  <1>6. CASE ~rxCmb
    BY <1>1, <1>2, <1>3, <1>4, <1>6
  <1> QED
    BY <1>1, <1>5, <1>6

\* Steps that leave the receive buffers alone.
LEMMA RxFrame ==
  ASSUME RxInv, UNCHANGED <<rxFree, rxQueue, rxCmb, rxEnable>>,
         rxState' \in {rxState, "IDEL"}, receives' = receives,
         rxHw' \in {rxHw, "off"}, \A r \in Readers : pc'[r] = "refill" <=> pc[r] = "refill"
  PROVE  RxInv'
  <1>1. {r \in Readers : pc'[r] = "refill"} = {r \in Readers : pc[r] = "refill"}
    OBVIOUS
  <1>2. BuffersConserved'
    BY <1>1 DEF RxInv, BuffersConserved
  <1> QED
    BY <1>2 DEF RxInv

\* The receive worker moves buffers between the queues.
LEMMA RxWorkRx ==
  ASSUME TypeOK, RxInv, RxWork, pc' = pc, receives' = receives
  PROVE  /\ RxInv' /\ rxFree' \in 0..RxRing /\ rxQueue' \in Seq(1..MaxReceives)
         /\ rxCmb' \in BOOLEAN /\ rxState' \in {"IDEL", "RCV"}
         /\ rxHw' \in {"off", "run", "eom", "fail"}
         /\ (rxQueue # << >> /\ RxRing >= Cardinality(Holders) + 2 => rxQueue' # << >>)
  <1> DEFINE forced == ~rxEnable /\ rxState = "RCV"
             arrived == IF RxArrived THEN Append(rxQueue, receives) ELSE rxQueue
             holds == rxCmb /\ ~RxArrived /\ ~forced
  <1>1. /\ rxFree \in 0..RxRing /\ rxQueue \in Seq(1..MaxReceives) /\ rxCmb \in BOOLEAN
        /\ receives \in 0..MaxReceives /\ rxEnable \in BOOLEAN /\ rxState \in {"IDEL", "RCV"}
        /\ rxHw \in {"off", "run", "eom", "fail"} /\ MaxReceives \in Nat /\ RxRing \in Nat
    BY CECAssumption DEF TypeOK
  <1>2. PICK h \in Nat : h = Cardinality({r \in Readers : pc[r] = "refill"})
    BY HoldersFinite DEF Holders
  <1>3. PICK n \in Nat : n = Len(rxQueue)
    BY <1>1, LenProperties
  <1>4. rxFree + n + (IF rxCmb THEN 1 ELSE 0) + h = RxRing
    BY <1>2, <1>3 DEF RxInv, BuffersConserved
  <1>5. RxArrived => rxCmb /\ receives \in 1..MaxReceives /\ rxEnable
    BY <1>1 DEF RxArrived, RxInv
  <1>6. ~rxEnable => ~rxCmb
    BY DEF RxInv
  <1>7. PICK a \in Seq(1..MaxReceives) : a = arrived
    <2>1. CASE RxArrived
      BY <1>1, <1>5, <2>1, AppendFacts
    <2>2. CASE ~RxArrived
      BY <1>1, <2>2
    <2> QED
      BY <2>1, <2>2
  <1>8. PICK m \in Nat : m = Len(a)
    BY LenProperties
  <1>9. holds \in BOOLEAN /\ m + (IF holds THEN 1 ELSE 0) = n + (IF rxCmb THEN 1 ELSE 0)
    <2>1. CASE RxArrived
      <3>1. m = n + 1
        BY <1>1, <1>3, <1>5, <1>7, <1>8, <2>1, AppendFacts
      <3> QED
        BY <1>5, <2>1, <3>1
    <2>2. CASE ~RxArrived
      <3>1. m = n /\ (holds <=> rxCmb)
        BY <1>3, <1>6, <1>7, <1>8, <2>2
      <3>2. CASE rxCmb
        BY <3>1, <3>2
      <3>3. CASE ~rxCmb
        BY <3>1, <3>3
      <3> QED
        BY <3>2, <3>3
    <2> QED
      BY <2>1, <2>2
  <1>10. rxFree + m + (IF holds THEN 1 ELSE 0) + h = RxRing
    <2>1. PICK x \in Nat : x = IF rxCmb THEN 1 ELSE 0
      OBVIOUS
    <2>2. PICK y \in Nat : y = IF holds THEN 1 ELSE 0
      OBVIOUS
    <2> QED
      BY <1>1, <1>4, <1>9, <2>1, <2>2
  <1>11. rxQueue # << >> => a # << >> /\ m >= 1
    BY <1>1, <1>5, <1>7, <1>8, AppendFacts, EmptySeq
  <1> HIDE DEF arrived, holds, forced
  <1>12. CASE RxRestart
    <2>1. /\ rxFree' = IF ~holds /\ rxFree > 0 THEN rxFree - 1 ELSE rxFree
          /\ rxQueue' = IF (~holds /\ rxFree = 0) /\ a # << >> THEN Tail(a) ELSE a
          /\ rxCmb' = (holds \/ rxFree > 0 \/ a # << >>)
          /\ rxHw' = IF rxCmb' THEN "run" ELSE rxHw
          /\ rxState' = IF rxCmb' THEN "RCV" ELSE "IDEL"
          /\ rxEnable' = rxEnable
      BY <1>7, <1>12 DEF RxWork, arrived, holds, forced
    <2>2. rxCmb' \in BOOLEAN
      BY <1>9, <2>1
    <2>3. rxEnable
      BY <1>12 DEF RxRestart
    <2>4. rxFree' \in Nat /\ rxQueue' \in Seq(1..MaxReceives)
          /\ rxFree' + Len(rxQueue') + (IF rxCmb' THEN 1 ELSE 0) + h = RxRing
      <3>1. CASE holds
        <4>1. rxCmb' /\ rxFree' = rxFree /\ rxQueue' = a
          BY <2>1, <3>1
        <4> QED
          BY <1>1, <1>8, <1>10, <3>1, <4>1
      <3>2. CASE ~holds /\ rxFree > 0
        <4>1. rxCmb'
          BY <2>1, <3>2
        <4>2. rxFree' = rxFree - 1 /\ rxQueue' = a
          BY <1>1, <2>1, <3>2
        <4>3. (IF rxCmb' THEN 1 ELSE 0) = 1 /\ (IF holds THEN 1 ELSE 0) = 0
          BY <3>2, <4>1
        <4>4. rxFree \in Nat /\ rxFree > 0 /\ Len(a) = m
          BY <1>1, <1>8, <3>2
        <4>5. rxFree - 1 \in Nat /\ (rxFree - 1) + m + 1 + h = RxRing
          BY <1>1, <1>10, <4>3, <4>4
        <4> QED
          BY <4>2, <4>3, <4>4, <4>5
      <3>3. CASE ~holds /\ rxFree = 0 /\ a # << >>
        <4>0. rxCmb'
          BY <2>1, <3>3
        <4>1. rxQueue' = Tail(a) /\ rxFree' = 0
          BY <2>1, <3>3
        <4>2. Tail(a) \in Seq(1..MaxReceives) /\ Len(Tail(a)) = m - 1 /\ m >= 1
          BY <1>8, <3>3, TailFacts
        <4> QED
          BY <1>10, <3>3, <4>0, <4>1, <4>2
      <3>4. CASE ~holds /\ rxFree = 0 /\ a = << >>
        <4>0. ~(rxFree > 0)
          BY <3>4
        <4>1. ~rxCmb'
          BY <2>1, <3>4, <4>0
        <4>2. rxFree' = 0 /\ rxQueue' = a
          BY <2>1, <3>4
        <4> QED
          BY <1>8, <1>10, <3>4, <4>1, <4>2
      <3> QED
        BY <1>1, <1>9, <3>1, <3>2, <3>3, <3>4
    <2>5. BuffersConserved'
      BY <1>2, <2>4 DEF BuffersConserved
    <2>6. RxInv'
      BY <2>1, <2>2, <2>3, <2>5 DEF RxInv
    <2>7. rxFree' \in 0..RxRing
      <3>1. PICK x \in Nat : x = IF rxCmb' THEN 1 ELSE 0
        OBVIOUS
      <3>2. PICK k \in Nat : k = Len(rxQueue')
        BY <2>4, LenProperties
      <3> QED
        BY SMTT(30), <1>1, <2>4, <3>1, <3>2
    <2>8. rxQueue # << >> /\ RxRing >= h + 2 => rxQueue' # << >>
      <3> SUFFICES ASSUME rxQueue # << >>, RxRing >= h + 2 PROVE rxQueue' # << >>
        OBVIOUS
      <3>1. CASE ~holds /\ rxFree = 0
        <4>1. m >= 2
          BY <1>1, <1>10, <3>1
        <4>2. rxQueue' = Tail(a)
          BY <1>11, <2>1, <3>1
        <4>3. Len(Tail(a)) = m - 1
          BY <1>8, <1>11, TailFacts
        <4> QED
          BY <4>1, <4>2, <4>3, EmptySeq
      <3>2. CASE ~(~holds /\ rxFree = 0)
        BY <1>11, <2>1, <3>2
      <3> QED
        BY <3>1, <3>2
    <2> QED
      BY <1>1, <1>2, <2>1, <2>2, <2>4, <2>6, <2>7, <2>8 DEF Holders
  <1>13. CASE ~RxRestart
    <2>1. /\ rxQueue' = a /\ rxCmb' = holds /\ rxFree' = rxFree /\ rxEnable' = rxEnable
          /\ rxState' = IF rxEnable /\ rxHw = "run" THEN rxState ELSE "IDEL"
          /\ rxHw' = IF forced THEN "off" ELSE rxHw
      BY <1>7, <1>13 DEF RxWork, arrived, holds, forced
    <2>2. BuffersConserved'
      BY <1>2, <1>8, <1>10, <2>1 DEF BuffersConserved
    <2>3. rxState' = "RCV" => rxCmb'
      BY <2>1 DEF RxInv, RxArrived, holds, forced
    <2>4. ~rxEnable' => ~rxCmb'
      BY <1>6, <2>1 DEF holds
    <2>5. RxInv'
      BY <2>1, <2>2, <2>3, <2>4 DEF RxInv
    <2> QED
      BY <1>1, <1>9, <1>11, <2>1, <2>5
  <1> QED
    BY <1>12, <1>13

\* A reader takes a message and, with it, a buffer.
LEMMA TakeRx ==
  ASSUME TypeOK, RxInv, NEW r \in Readers, pc[r] # "refill", rxQueue # << >>,
         rxQueue' = Tail(rxQueue), Goto(r, "refill"),
         UNCHANGED <<rxFree, rxCmb, rxEnable, rxState, rxHw, receives>>
  PROVE  RxInv' /\ rxQueue' \in Seq(1..MaxReceives)
  <1>1. {x \in Readers : pc'[x] = "refill"} = Holders \cup {r}
    BY DEF TypeOK, Threads, Goto, Holders
  <1>2. Cardinality(Holders \cup {r}) = Cardinality(Holders) + 1
    BY HoldersFinite, FS_AddElement DEF Holders
  <1>3. /\ rxQueue' \in Seq(1..MaxReceives) /\ Len(rxQueue') = Len(rxQueue) - 1
        /\ Len(rxQueue) \in Nat
    BY TailFacts DEF TypeOK
  <1>4. BuffersConserved'
    <2>1. PICK h \in Nat : h = Cardinality(Holders)
      BY HoldersFinite
    <2>2. PICK x \in Nat : x = IF rxCmb THEN 1 ELSE 0
      OBVIOUS
    <2>3. rxFree + Len(rxQueue) + x + h = RxRing /\ rxFree \in Nat
      BY <2>1, <2>2 DEF RxInv, BuffersConserved, Holders, TypeOK
    <2>4. rxFree' + Len(rxQueue') + x + (h + 1) = RxRing
      BY <1>3, <2>3
    <2>5. (IF rxCmb' THEN 1 ELSE 0) = x
      BY <2>2
    <2>6. Cardinality({q \in Readers : pc'[q] = "refill"}) = h + 1
      BY <1>1, <1>2, <2>1
    <2> QED
      BY <2>4, <2>5, <2>6 DEF BuffersConserved
  <1> QED
    BY <1>3, <1>4 DEF RxInv

\* The reader's buffer is replaced in the free queue.
LEMMA RefillRx ==
  ASSUME TypeOK, RxInv, NEW r \in Readers, pc[r] = "refill",
         rxFree' = rxFree + 1, Goto(r, "idle"),
         UNCHANGED <<rxQueue, rxCmb, rxEnable, rxState, rxHw, receives>>
  PROVE  RxInv' /\ rxFree' \in 0..RxRing
  <1>1. {x \in Readers : pc'[x] = "refill"} = Holders \ {r}
    BY DEF TypeOK, Threads, Goto, Holders
  <1>2. Cardinality(Holders \ {r}) = Cardinality(Holders) - 1
    BY HoldersFinite, FS_RemoveElement DEF Holders
  <1>3. PICK h \in Nat : h = Cardinality(Holders)
    BY HoldersFinite
  <1>4. PICK x \in Nat : x = IF rxCmb THEN 1 ELSE 0
    OBVIOUS
  <1>5. PICK n \in Nat : n = Len(rxQueue)
    BY LenProperties DEF TypeOK
  <1>6. rxFree + n + x + h = RxRing /\ rxFree \in Nat /\ RxRing \in Nat
    BY <1>3, <1>4, <1>5, CECAssumption DEF RxInv, BuffersConserved, Holders, TypeOK
  <1>7. h - 1 \in Nat
    <2>1. IsFiniteSet(Holders \ {r})
      BY HoldersFinite, FS_RemoveElement
    <2> QED
      BY <1>2, <1>3, <2>1, FS_CardinalityType
  <1>8. rxFree' + n + x + (h - 1) = RxRing /\ rxFree' \in 0..RxRing
    BY <1>6, <1>7
  <1>9. BuffersConserved'
    <2>1. (IF rxCmb' THEN 1 ELSE 0) = x
      BY <1>4
    <2>2. Cardinality({q \in Readers : pc'[q] = "refill"}) = h - 1
      BY <1>1, <1>2, <1>3
    <2> QED
      BY <1>5, <1>8, <2>1, <2>2 DEF BuffersConserved
  <1> QED
    BY <1>8, <1>9 DEF RxInv

\* The receiver is stopped: queued and half-filled buffers become free.
LEMMA RxStopRx ==
  ASSUME TypeOK, RxInv, RxStop
  PROVE  /\ RxInv' /\ rxFree' \in 0..RxRing /\ rxQueue' \in Seq(1..MaxReceives)
         /\ rxEnable' \in BOOLEAN /\ rxState' \in {"IDEL", "RCV"} /\ rxCmb' \in BOOLEAN
         /\ rxHw' \in {"off", "run", "eom", "fail"}
         /\ rxDone' \in Nat /\ rxWaiters' \in Seq(Readers) /\ asleep' \in SUBSET Readers
  <1>1. pc' = pc /\ receives' = receives
    BY DEF RxStop, CtlFrame
  <1>2. CASE rxEnable
    <2>1. /\ rxFree' = rxFree + Len(rxQueue) + (IF rxCmb THEN 1 ELSE 0)
          /\ rxQueue' = << >> /\ rxCmb' = FALSE
          /\ rxEnable' = FALSE /\ rxState' = "IDEL" /\ rxHw' = "off"
          /\ Complete(CompleteAll)
      BY <1>2 DEF RxStop
    <2>2. PICK h \in Nat : h = Cardinality(Holders)
      BY HoldersFinite
    <2>3. PICK x \in Nat : x = IF rxCmb THEN 1 ELSE 0
      OBVIOUS
    <2>4. PICK n \in Nat : n = Len(rxQueue)
      BY LenProperties DEF TypeOK
    <2>5. rxFree + n + x + h = RxRing /\ rxFree \in Nat /\ RxRing \in Nat
      BY <2>2, <2>3, <2>4, CECAssumption DEF RxInv, BuffersConserved, Holders, TypeOK
    <2>6. rxFree' = rxFree + n + x
      BY <2>1, <2>3, <2>4
    <2>7. rxFree' \in 0..RxRing /\ rxFree' + 0 + 0 + h = RxRing
      BY <2>5, <2>6
    <2>8. BuffersConserved'
      <3>1. Cardinality({r \in Readers : pc'[r] = "refill"}) = h
        BY <1>1, <2>2 DEF Holders
      <3>2. Len(rxQueue') = 0 /\ (IF rxCmb' THEN 1 ELSE 0) = 0
        BY <2>1
      <3> QED
        BY <2>7, <3>1, <3>2 DEF BuffersConserved
    <2>9. rxDone' \in Nat /\ asleep' \in SUBSET Readers /\ rxWaiters' = rxWaiters
      BY <2>1, CompleteFacts, CECAssumption
    <2>10. RxInv'
      BY <2>1, <2>8 DEF RxInv
    <2>11. rxQueue' \in Seq(1..MaxReceives) /\ rxWaiters' \in Seq(Readers)
      BY <2>1, <2>9 DEF TypeOK
    <2>12. rxEnable' \in BOOLEAN /\ rxCmb' \in BOOLEAN
      BY <2>1
    <2> QED
      BY <2>1, <2>7, <2>9, <2>10, <2>11, <2>12
  <1>3. CASE ~rxEnable
    <2>1. UNCHANGED <<rxVars, rxHw, compVars>>
      BY <1>3 DEF RxStop
    <2>2. RxInv'
      BY <1>1, <2>1, RxFrame DEF rxVars
    <2> QED
      BY <2>1, <2>2 DEF TypeOK, rxVars, compVars
  <1> QED
    BY <1>2, <1>3

-----------------------------------------------------------------------------
(* The transmit side. *)

\* Steps that leave the transmitter, its messages and the senders alone.
LEMMA TxFrame ==
  ASSUME TxInv, UNCHANGED <<txVars, cmbVars, late, onBus, txContinuous, txHw, acked>>,
         \A s \in Senders : pc'[s] = pc[s], txQueue \in Seq(Senders),
         txCmb \in Senders \cup {NoMsg}
  PROVE  TxInv'
  <1>1. \A i \in 1..Len(txQueue) : txQueue[i] \in Senders
    OBVIOUS
  <1>2. NoDanglingBuffer'
    BY <1>1 DEF TxInv, NoDanglingBuffer, txVars, cmbVars
  <1>3. WaitInv'
    BY DEF TxInv, WaitInv, InQueue, txVars, cmbVars
  <1>4. IdleInv' /\ WireInv' /\ SuccessMeansSent'
    BY DEF TxInv, IdleInv, WireInv, SuccessMeansSent, txVars, cmbVars
  <1> QED
    BY <1>2, <1>3, <1>4 DEF TxInv

\* What is known of the messages the driver refers to.
LEMMA QueueFacts ==
  ASSUME TypeOK, TxInv
  PROVE  /\ txQueue \in Seq(Senders) /\ Len(txQueue) \in Nat
         /\ \A i \in 1..Len(txQueue) :
              /\ txQueue[i] \in Senders /\ txQueue[i] # NoMsg
              /\ pc[txQueue[i]] \in {"schedule", "wait"} /\ txQueue[i] \notin completed
              /\ txQueue[i] # txCmb /\ len[txQueue[i]] >= 1
              /\ \A j \in 1..Len(txQueue) : txQueue[i] = txQueue[j] => i = j
         /\ txCmb # NoMsg => txCmb \in Senders
         /\ txState = "XMIT" => txCmb \in Senders /\ pc[txCmb] \in {"schedule", "wait"}
                                /\ txCmb \notin completed /\ txCmb # NoMsg
  <1>1. txQueue \in Seq(Senders) /\ txCmb \in Senders \cup {NoMsg} /\ NoMsg \notin Senders
    BY CECAssumption DEF TypeOK
  <1>2. Len(txQueue) \in Nat /\ \A i \in 1..Len(txQueue) : txQueue[i] \in Senders
    BY <1>1, LenProperties, ElementOfSeq
  <1> QED
    BY <1>1, <1>2 DEF TxInv, NoDanglingBuffer, WaitInv

\* A sender enters the driver.
LEMMA SendCallTx ==
  ASSUME TypeOK, TxInv, NEW s \in Senders, NEW n \in Lengths, SendCall(s, n)
  PROVE  TxInv'
  <1>1. /\ UNCHANGED <<txVars, status, completed, late, onBus, txContinuous, txHw, acked>>
        /\ pc[s] = "idle" /\ pc' = [pc EXCEPT ![s] = "queue"] /\ len' = [len EXCEPT ![s] = n]
    BY DEF SendCall, Driver, Goto, txHwVars, txVars
  <1>2. /\ pc'[s] = "queue" /\ len'[s] = n /\ n >= 1 /\ s \in Senders
        /\ \A x \in Senders : x # s => pc'[x] = pc[x] /\ len'[x] = len[x]
    BY <1>1, CECAssumption DEF TypeOK, Threads
  <1>3. \A i \in 1..Len(txQueue) : txQueue[i] # s /\ txQueue[i] \in Senders
    BY <1>1, QueueFacts
  <1>4. txCmb # NoMsg => txCmb # s /\ txCmb \in Senders
    BY <1>1, QueueFacts DEF TxInv, NoDanglingBuffer
  <1>5. NoDanglingBuffer'
    BY <1>1, <1>2, <1>3, <1>4 DEF TxInv, NoDanglingBuffer, txVars
  <1>6. WaitInv'
    <2>1. \A x \in Senders : InQueue(x)' <=> InQueue(x)
      BY <1>1 DEF InQueue, txVars
    <2> QED
      BY <1>1, <1>2, <1>3, <2>1 DEF TxInv, WaitInv, txVars
  <1>7. WireInv'
    <2>1. txState = "XMIT" => txCmb \in Senders /\ txCmb # s
      BY <1>4, QueueFacts
    <2> QED
      BY <1>1, <1>2, <2>1 DEF TxInv, WireInv, txVars
  <1>8. IdleInv' /\ SuccessMeansSent'
    BY <1>1 DEF TxInv, IdleInv, SuccessMeansSent, txVars
  <1> QED
    BY <1>5, <1>6, <1>7, <1>8 DEF TxInv

\* The message goes to the end of the queue.
LEMMA SendQueueTx ==
  ASSUME TypeOK, TxInv, NEW s \in Senders, SendQueue(s)
  PROVE  TxInv' /\ txQueue' \in Seq(Senders)
  <1>1. /\ UNCHANGED <<txEnable, txState, txCmb, len, completed, onBus, txContinuous, txHw, acked>>
        /\ pc[s] = "queue" /\ pc' = [pc EXCEPT ![s] = "schedule"]
        /\ status' = [status EXCEPT ![s] = "wait"]
        /\ txQueue' = Append(txQueue, s)
        /\ late' = IF txEnable THEN late ELSE late \cup {s}
    BY DEF SendQueue, Driver, Goto, txHwVars
  <1>2. /\ pc'[s] = "schedule" /\ status'[s] = "wait"
        /\ \A x \in Senders : x # s => pc'[x] = pc[x] /\ status'[x] = status[x]
    BY <1>1 DEF TypeOK, Threads
  <1>3. \A i \in 1..Len(txQueue) : txQueue[i] # s /\ txQueue[i] \in Senders
    BY <1>1, QueueFacts
  <1>4. txCmb # NoMsg => txCmb # s /\ txCmb \in Senders
    BY <1>1, QueueFacts DEF TxInv, NoDanglingBuffer
  <1>5. s \notin completed /\ s # NoMsg /\ len[s] >= 1
    BY <1>1, CECAssumption DEF TxInv, WaitInv
  <1>6. PICK n \in Nat : n = Len(txQueue)
    BY QueueFacts
  <1>7. /\ txQueue' \in Seq(Senders) /\ Len(txQueue') = n + 1 /\ txQueue'[n + 1] = s
        /\ \A i \in 1..n : txQueue'[i] = txQueue[i]
    BY <1>1, <1>6, AppendFacts DEF TypeOK
  <1>8. ASSUME NEW i \in 1..n + 1
        PROVE  i = n + 1 \/ i \in 1..n
    OBVIOUS
  <1>9. NoDanglingBuffer'
    <2>1. ASSUME NEW i \in 1..n + 1
          PROVE  /\ pc'[txQueue'[i]] \in {"schedule", "wait"} /\ txQueue'[i] \notin completed'
                 /\ txQueue'[i] # txCmb'
                 /\ \A j \in 1..n + 1 : txQueue'[i] = txQueue'[j] => i = j
      <3>1. CASE i = n + 1
        BY <1>1, <1>2, <1>3, <1>4, <1>5, <1>6, <1>7, <1>8, <3>1
      <3>2. CASE i \in 1..n
        <4>1. txQueue'[i] = txQueue[i] /\ txQueue[i] # s /\ txQueue[i] \in Senders
          BY <1>3, <1>6, <1>7, <3>2
        <4>2. pc[txQueue[i]] \in {"schedule", "wait"} /\ txQueue[i] \notin completed /\ txQueue[i] # txCmb
          BY <1>6, <3>2, QueueFacts
        <4>3. ASSUME NEW j \in 1..n + 1, txQueue'[i] = txQueue'[j] PROVE i = j
          <5>1. j \in 1..n
            BY <1>7, <1>8, <4>1, <4>3
          <5>2. txQueue[i] = txQueue[j]
            BY <1>7, <4>1, <4>3, <5>1
          <5> QED
            BY <1>6, <3>2, <5>1, <5>2, QueueFacts
        <4> QED
          BY <1>1, <1>2, <4>1, <4>2, <4>3
      <3> QED
        BY <1>8, <3>1, <3>2
    <2>2. /\ txCmb # NoMsg => pc'[txCmb] \in {"schedule", "wait"} /\ txCmb \notin completed
          /\ txState = "XMIT" => txCmb # NoMsg
      BY <1>2, <1>4 DEF TxInv, NoDanglingBuffer
    <2> QED
      BY <1>1, <1>7, <2>1, <2>2 DEF NoDanglingBuffer
  <1>10. WaitInv'
    <2>1. \A x \in Senders : InQueue(x) => InQueue(x)'
      <3> SUFFICES ASSUME NEW x \in Senders, NEW i \in 1..n, txQueue[i] = x PROVE InQueue(x)'
        BY <1>6 DEF InQueue
      <3>1. i \in 1..n + 1 /\ txQueue'[i] = x
        BY <1>7
      <3> QED
        BY <1>7, <3>1 DEF InQueue
    <2>2. InQueue(s)'
      <3>1. n + 1 \in 1..n + 1
        OBVIOUS
      <3> QED
        BY <1>7, <3>1 DEF InQueue
    <2>3. \A i \in 1..n + 1 : len'[txQueue'[i]] >= 1
      <3> TAKE i \in 1..n + 1
      <3>1. CASE i = n + 1
        BY <1>1, <1>5, <1>7, <3>1
      <3>2. CASE i \in 1..n
        BY <1>1, <1>6, <1>7, <3>2, QueueFacts
      <3> QED
        BY <1>8, <3>1, <3>2
    <2>4. ASSUME NEW x \in Senders
          PROVE  /\ x \in completed => pc'[x] \in {"schedule", "wait"}
                 /\ pc'[x] \in {"schedule", "wait"} => x \in completed \/ x = txCmb \/ InQueue(x)'
                 /\ pc'[x] = "queue" => len[x] >= 1
      BY <1>2, <2>1, <2>2 DEF TxInv, WaitInv
    <2> QED
      BY <1>1, <1>7, <2>3, <2>4 DEF WaitInv
  <1>11. IdleInv'
    <2>1. ASSUME ~txEnable, NEW i \in 1..n + 1 PROVE txQueue'[i] \in late'
      <3>1. late' = late \cup {s}
        BY <1>1, <2>1
      <3>2. CASE i = n + 1
        BY <1>7, <3>1, <3>2
      <3>3. CASE i \in 1..n
        BY <1>6, <1>7, <2>1, <3>1, <3>3 DEF TxInv, IdleInv
      <3> QED
        BY <1>8, <3>2, <3>3
    <2> QED
      BY <1>1, <1>7, <2>1 DEF TxInv, IdleInv
  <1>12. WireInv' /\ SuccessMeansSent'
    BY <1>1, <1>2 DEF TxInv, WireInv, SuccessMeansSent
  <1> QED
    BY <1>7, <1>9, <1>10, <1>11, <1>12 DEF TxInv

\* The sender goes on to wait.
LEMMA SendScheduleTx ==
  ASSUME TypeOK, TxInv, NEW s \in Senders, SendSchedule(s)
  PROVE  TxInv'
  <1>1. /\ UNCHANGED <<txVars, cmbVars, late, onBus, txContinuous, txHw, acked>>
        /\ pc[s] = "schedule" /\ pc' = [pc EXCEPT ![s] = "wait"]
    BY DEF SendSchedule, Driver, Goto, txHwVars, txVars
  <1>2. /\ pc'[s] = "wait"
        /\ \A x \in Senders : x # s => pc'[x] = pc[x]
    BY <1>1 DEF TypeOK, Threads
  <1>3. \A x \in Senders : pc'[x] \in {"schedule", "wait"} <=> pc[x] \in {"schedule", "wait"}
    BY <1>1, <1>2
  <1>4. NoDanglingBuffer'
    <2>1. \A i \in 1..Len(txQueue) : txQueue[i] \in Senders
      BY QueueFacts
    <2>2. txCmb # NoMsg => txCmb \in Senders
      BY QueueFacts
    <2> QED
      BY <1>1, <1>3, <2>1, <2>2 DEF TxInv, NoDanglingBuffer, txVars, cmbVars
  <1>5. WaitInv'
    <2>1. \A x \in Senders : pc'[x] = "queue" => pc[x] = "queue"
      BY <1>2
    <2> QED
      BY <1>1, <1>3, <2>1 DEF TxInv, WaitInv, InQueue, txVars, cmbVars
  <1>6. IdleInv' /\ WireInv' /\ SuccessMeansSent'
    BY <1>1 DEF TxInv, IdleInv, WireInv, SuccessMeansSent, txVars, cmbVars
  <1> QED
    BY <1>4, <1>5, <1>6 DEF TxInv

\* The sender returns and frees its message, which the driver has given up.
LEMMA SendReturnTx ==
  ASSUME TypeOK, TxInv, NEW s \in Senders, SendReturn(s)
  PROVE  TxInv'
  <1>1. /\ UNCHANGED <<txVars, onBus, txContinuous, txHw>>
        /\ s \in completed /\ completed' = completed \ {s}
        /\ status' = [status EXCEPT ![s] = "none"] /\ len' = [len EXCEPT ![s] = 0]
        /\ acked' = acked \ {s} /\ late' = late \ {s}
        /\ pc' = [pc EXCEPT ![s] = "idle"]
    BY DEF SendReturn, Driver, Goto, txHwVars, txVars
  <1>2. /\ pc'[s] = "idle" /\ status'[s] = "none"
        /\ \A x \in Senders : x # s => /\ pc'[x] = pc[x] /\ status'[x] = status[x]
                                       /\ len'[x] = len[x]
    BY <1>1 DEF TypeOK, Threads
  <1>3. \A i \in 1..Len(txQueue) : txQueue[i] # s /\ txQueue[i] \in Senders
    BY <1>1, QueueFacts
  <1>4. txCmb # NoMsg => txCmb # s /\ txCmb \in Senders
    BY <1>1, QueueFacts DEF TxInv, NoDanglingBuffer
  <1>5. NoDanglingBuffer'
    BY <1>1, <1>2, <1>3, <1>4 DEF TxInv, NoDanglingBuffer, txVars
  <1>6. WaitInv'
    <2>1. \A x \in Senders : InQueue(x)' <=> InQueue(x)
      BY <1>1 DEF InQueue, txVars
    <2> QED
      BY <1>1, <1>2, <1>3, <2>1 DEF TxInv, WaitInv, txVars
  <1>7. WireInv'
    <2>1. txState = "XMIT" => txCmb \in Senders /\ txCmb # s
      BY <1>4, QueueFacts
    <2> QED
      BY <1>1, <1>2, <2>1 DEF TxInv, WireInv, txVars
  <1>8. IdleInv'
    BY <1>1, <1>3 DEF TxInv, IdleInv, txVars
  <1>9. SuccessMeansSent'
    BY <1>1, <1>2 DEF TxInv, SuccessMeansSent
  <1> QED
    BY <1>5, <1>6, <1>7, <1>8, <1>9 DEF TxInv

\* The transmitter is enabled: it had no message.
LEMMA TxStartTx ==
  ASSUME TypeOK, TxInv, TxStart
  PROVE  TxInv' /\ txState' \in {"IDEL", "XMIT"} /\ txCmb' \in Senders \cup {NoMsg}
  <1>1. UNCHANGED <<txQueue, txHwVars, cmbVars, late, acked, pc>>
    BY DEF TxStart, CtlFrame
  <1>2. CASE txEnable
    <2>1. UNCHANGED <<txEnable, txState, txCmb>>
      BY <1>2 DEF TxStart
    <2>2. TxInv'
      BY <1>1, <2>1, TxFrame DEF txVars, txHwVars, TypeOK
    <2> QED
      BY <2>1, <2>2 DEF TypeOK
  <1>3. CASE ~txEnable
    <2>1. txEnable' = TRUE /\ txState' = "IDEL" /\ txCmb' = NoMsg
      BY <1>3 DEF TxStart
    <2>2. txCmb = NoMsg
      BY <1>3 DEF TxInv, IdleInv
    <2>3. NoDanglingBuffer'
      BY <1>1, <2>1, <2>2 DEF TxInv, NoDanglingBuffer, cmbVars
    <2>4. WaitInv'
      BY <1>1, <2>1, <2>2 DEF TxInv, WaitInv, InQueue, cmbVars
    <2>5. IdleInv'
      BY <2>1 DEF IdleInv
    <2>6. WireInv' /\ SuccessMeansSent'
      BY <1>1, <2>1 DEF TxInv, WireInv, SuccessMeansSent, cmbVars, txHwVars
    <2> QED
      BY <2>1, <2>3, <2>4, <2>5, <2>6 DEF TxInv
  <1> QED
    BY <1>2, <1>3

\* The transmitter is disabled: every message it knows is aborted.
LEMMA TxStopTx ==
  ASSUME TypeOK, TxInv, TxStop
  PROVE  /\ TxInv' /\ txState' \in {"IDEL", "XMIT"} /\ txCmb' \in Senders \cup {NoMsg}
         /\ txQueue' \in Seq(Senders) /\ txEnable' \in BOOLEAN
         /\ status' \in [Senders -> {"none", "wait", "ok", "fail", "timeout", "abort"}]
         /\ completed' \in SUBSET Senders
  <1>1. UNCHANGED <<txHwVars, len, late, acked, pc>>
    BY DEF TxStop, CtlFrame
  <1>2. CASE txEnable
    <2> DEFINE aborted == {s \in Senders : s = txCmb \/ \E i \in 1..Len(txQueue) : txQueue[i] = s}
    <2>1. /\ status' = [s \in Senders |->
                          IF s \in aborted /\ status[s] = "wait" THEN "abort" ELSE status[s]]
          /\ completed' = completed \cup aborted
          /\ txQueue' = << >> /\ txCmb' = NoMsg /\ txEnable' = FALSE /\ txState' = "IDEL"
      BY <1>2 DEF TxStop
    <2>2. \A s \in aborted : pc[s] \in {"schedule", "wait"}
      <3> TAKE s \in aborted
      <3>1. CASE s = txCmb
        <4>1. s # NoMsg
          BY CECAssumption
        <4> QED
          BY <3>1, <4>1 DEF TxInv, NoDanglingBuffer
      <3>2. CASE \E i \in 1..Len(txQueue) : txQueue[i] = s
        BY <3>2, QueueFacts
      <3> QED
        BY <3>1, <3>2
    <2>3. \A s \in Senders : s = txCmb \/ InQueue(s) => s \in aborted
      BY DEF InQueue
    <2>4. \A s \in Senders : status'[s] = "ok" => status[s] = "ok"
      BY <2>1
    <2>t. /\ status' \in [Senders -> {"none", "wait", "ok", "fail", "timeout", "abort"}]
          /\ completed' \in SUBSET Senders
      BY <2>1 DEF TypeOK
    <2>l. Len(txQueue') = 0 /\ txQueue' \in Seq(Senders) /\ 1..0 = {}
      BY <2>1
    <2> HIDE DEF aborted
    <2>5. NoDanglingBuffer'
      BY <2>1, <2>l DEF NoDanglingBuffer
    <2>6. WaitInv'
      <3>1. ASSUME NEW s \in Senders
            PROVE  /\ s \in completed' => pc[s] \in {"schedule", "wait"}
                   /\ pc[s] \in {"schedule", "wait"} => s \in completed'
                   /\ pc[s] = "queue" => len[s] >= 1
        BY <2>1, <2>2, <2>3 DEF TxInv, WaitInv
      <3> QED
        BY <1>1, <2>1, <2>l, <3>1 DEF WaitInv
    <2>7. IdleInv'
      BY <2>1, <2>l DEF IdleInv
    <2>8. WireInv' /\ SuccessMeansSent'
      BY <1>1, <2>1, <2>4 DEF TxInv, WireInv, SuccessMeansSent, txHwVars
    <2>9. txEnable' \in BOOLEAN
      BY <2>1
    <2> QED
      BY <2>1, <2>t, <2>l, <2>5, <2>6, <2>7, <2>8, <2>9 DEF TxInv
  <1>3. CASE ~txEnable
    <2>1. UNCHANGED <<status, completed, txVars>>
      BY <1>3 DEF TxStop
    <2>2. TxInv'
      BY <1>1, <2>1, TxFrame DEF txVars, txHwVars, cmbVars, TypeOK
    <2> QED
      BY <2>1, <2>2 DEF TypeOK, txVars
  <1> QED
    BY <1>2, <1>3

\* The bus ends a transmission.
LEMMA BusTxEndTx ==
  ASSUME TypeOK, TxInv, NEW result \in {"eom", "fail"}, BusTxEnd(result)
  PROVE  TxInv' /\ acked' \in SUBSET Senders
  <1>1. /\ UNCHANGED <<txVars, cmbVars, late, onBus, txContinuous, pc>>
        /\ txHw = "run" /\ txHw' = result /\ (result = "eom" => ~txContinuous)
        /\ acked' = IF result = "eom" /\ onBus = txCmb /\ len[onBus] = 0
                    THEN acked \cup {onBus} ELSE acked
    BY DEF BusTxEnd, BusFrame
  <1>2. onBus \in Senders /\ acked \subseteq acked'
    BY <1>1 DEF TxInv, WireInv
  <1>3. acked' \in SUBSET Senders
    BY <1>1, <1>2 DEF TypeOK
  <1>4. WireInv'
    <2>1. txState = "XMIT" /\ result = "eom" => txCmb \in acked'
      BY <1>1 DEF TxInv, WireInv
    <2> QED
      BY <1>1, <1>2, <2>1 DEF TxInv, WireInv, txVars, cmbVars
  <1>5. NoDanglingBuffer' /\ IdleInv'
    BY <1>1 DEF TxInv, NoDanglingBuffer, IdleInv, txVars, cmbVars
  <1>6. WaitInv'
    BY <1>1 DEF TxInv, WaitInv, InQueue, txVars, cmbVars
  <1>7. SuccessMeansSent'
    BY <1>1, <1>2 DEF TxInv, SuccessMeansSent, cmbVars
  <1> QED
    BY <1>3, <1>4, <1>5, <1>6, <1>7 DEF TxInv

\* The transmit worker answers the message whose transmission is over.
LEMMA TxAnswers ==
  ASSUME TypeOK, TxInv, NEW works, TxWork(works), acked' = acked
  PROVE  /\ completed' = IF TxOver THEN completed \cup {txCmb} ELSE completed
         /\ completed' \in SUBSET Senders
         /\ status' \in [Senders -> {"none", "wait", "ok", "fail", "timeout", "abort"}]
         /\ SuccessMeansSent'
  <1>1. CASE TxOver
    <2>1. status' = [status EXCEPT ![txCmb] = TxResult] /\ completed' = completed \cup {txCmb}
      BY <1>1 DEF TxWork
    <2>2. txState = "XMIT" /\ txCmb \in Senders
      BY <1>1, QueueFacts DEF TxOver
    <2>3. TxResult \in {"ok", "fail", "timeout"} /\ (TxResult = "ok" => txHw = "eom")
      BY DEF TxResult
    <2>4. TxResult = "ok" => txCmb \in acked
      BY <2>2, <2>3 DEF TxInv, WireInv
    <2>5. /\ status'[txCmb] = TxResult
          /\ \A s \in Senders : s # txCmb => status'[s] = status[s]
          /\ status' \in [Senders -> {"none", "wait", "ok", "fail", "timeout", "abort"}]
      BY <2>1, <2>2, <2>3 DEF TypeOK
    <2>6. SuccessMeansSent'
      BY <2>4, <2>5 DEF TxInv, SuccessMeansSent
    <2> QED
      BY <1>1, <2>1, <2>2, <2>5, <2>6 DEF TypeOK
  <1>2. CASE ~TxOver
    <2>1. UNCHANGED <<status, completed>>
      BY <1>2 DEF TxWork
    <2> QED
      BY <1>2, <2>1 DEF TypeOK, TxInv, SuccessMeansSent
  <1> QED
    BY <1>1, <1>2

\* ... and takes the next message from the queue,
LEMMA TxTakesNext ==
  ASSUME TypeOK, TxInv, NEW works, TxWork(works), TxNext, UNCHANGED <<pc, late, acked>>
  PROVE  /\ TxInv' /\ txCmb' \in Senders /\ txQueue' \in Seq(Senders) /\ txState' = "XMIT"
         /\ len' \in [Senders -> Nat] /\ txHw' = "run" /\ onBus' \in Senders
         /\ txContinuous' \in BOOLEAN /\ txInt' \in BOOLEAN /\ txHigh' \in BOOLEAN
  <1>0. PICK next : next = Head(txQueue)
    OBVIOUS
  <1>1. /\ txCmb' = next /\ txQueue' = Tail(txQueue) /\ txState' = "XMIT"
        /\ len' = [len EXCEPT ![next] = len[next] - 1]
        /\ txHw' = "run" /\ txContinuous' = (len[next] - 1 > 0) /\ txInt' = FALSE
        /\ txHigh' = FALSE /\ onBus' = next /\ txEnable' = txEnable
    <2>1. /\ txCmb' = next /\ txQueue' = Tail(txQueue) /\ txState' = "XMIT"
          /\ len' = [len EXCEPT ![next] = len[next] - 1]
          /\ txHw' = "run" /\ onBus' = next
      BY <1>0 DEF TxWork, TxNext
    <2>2. txContinuous' = (len[next] - 1 > 0)
      BY <1>0 DEF TxWork, TxNext
    <2>3. txInt' = FALSE /\ txHigh' = FALSE /\ txEnable' = txEnable
      BY DEF TxWork, TxNext
    <2> QED
      BY <2>1, <2>2, <2>3
  <1>2. txEnable /\ txQueue # << >> /\ (txState = "IDEL" \/ TxOver)
    BY DEF TxNext
  <1>3. PICK n \in Nat : n = Len(txQueue)
    BY QueueFacts
  <1>4. /\ next \in Senders /\ next = txQueue[1] /\ 1 \in 1..n /\ txQueue' \in Seq(Senders)
        /\ Len(txQueue') = n - 1
        /\ \A i \in 1..n - 1 : txQueue'[i] = txQueue[i + 1] /\ i + 1 \in 1..n
    BY <1>0, <1>1, <1>2, <1>3, TailFacts DEF TypeOK
  <1>5. /\ pc[next] \in {"schedule", "wait"} /\ next \notin completed /\ next # txCmb
        /\ len[next] >= 1 /\ next # NoMsg
    BY <1>3, <1>4, QueueFacts
  <1>6. /\ len' \in [Senders -> Nat] /\ len'[next] = len[next] - 1
        /\ \A s \in Senders : s # next => len'[s] = len[s]
    <2>1. len[next] - 1 \in Nat /\ len \in [Senders -> Nat]
      BY <1>4, <1>5, SMTT(30) DEF TypeOK
    <2> QED
      BY <1>1, <1>4, <2>1
  <1>7. completed' = IF TxOver THEN completed \cup {txCmb} ELSE completed
    BY TxAnswers
  <1>8. /\ TxOver => txCmb \in Senders /\ pc[txCmb] \in {"schedule", "wait"}
        /\ ~TxOver => txCmb = NoMsg
    BY <1>2, QueueFacts DEF TxOver, TxInv, IdleInv
  <1>9. ASSUME NEW i \in 1..n - 1
        PROVE  /\ pc[txQueue'[i]] \in {"schedule", "wait"} /\ txQueue'[i] \notin completed'
               /\ txQueue'[i] # next /\ len'[txQueue'[i]] >= 1
               /\ \A j \in 1..n - 1 : txQueue'[i] = txQueue'[j] => i = j
    <2>1. txQueue'[i] = txQueue[i + 1] /\ i + 1 \in 1..n
      BY <1>4
    <2>2. /\ txQueue[i + 1] \in Senders /\ txQueue[i + 1] # NoMsg
          /\ pc[txQueue[i + 1]] \in {"schedule", "wait"} /\ txQueue[i + 1] \notin completed
          /\ txQueue[i + 1] # txCmb /\ len[txQueue[i + 1]] >= 1
      BY <1>3, <2>1, QueueFacts
    <2>3. txQueue[i + 1] # next
      <3>1. txQueue[i + 1] = txQueue[1] => i + 1 = 1
        BY <1>3, <1>4, <2>1, QueueFacts
      <3> QED
        BY <1>4, <3>1
    <2>4. ASSUME NEW j \in 1..n - 1, txQueue'[i] = txQueue'[j] PROVE i = j
      <3>1. txQueue'[j] = txQueue[j + 1] /\ j + 1 \in 1..n
        BY <1>4
      <3>2. i + 1 = j + 1
        BY <1>3, <2>1, <2>4, <3>1, QueueFacts
      <3> QED
        BY <3>2
    <2>5. txQueue'[i] \notin completed'
      BY <1>7, <2>1, <2>2
    <2>6. len'[txQueue'[i]] >= 1
      BY <1>6, <2>1, <2>2, <2>3
    <2> QED
      BY <2>1, <2>2, <2>3, <2>4, <2>5, <2>6
  <1>10. NoDanglingBuffer'
    <2>1. next \notin completed'
      BY <1>5, <1>7
    <2> QED
      BY <1>1, <1>4, <1>5, <1>9, <2>1 DEF NoDanglingBuffer
  <1>11. WaitInv'
    <2>1. ASSUME NEW s \in Senders, InQueue(s), s # next PROVE InQueue(s)'
      <3>1. PICK i \in 1..n : txQueue[i] = s
        BY <1>3, <2>1 DEF InQueue
      <3>2. i # 1
        BY <1>4, <2>1, <3>1
      <3>3. PICK k \in 1..n - 1 : k + 1 = i
        <4>1. i - 1 \in 1..n - 1 /\ (i - 1) + 1 = i
          BY <3>2
        <4> QED
          BY <4>1
      <3>4. txQueue'[k] = s
        BY <1>4, <3>1, <3>3
      <3> QED
        BY <1>4, <3>4 DEF InQueue
    <2>2. ASSUME NEW s \in Senders
          PROVE  /\ s \in completed' => pc[s] \in {"schedule", "wait"}
                 /\ pc[s] \in {"schedule", "wait"} => s \in completed' \/ s = next \/ InQueue(s)'
                 /\ pc[s] = "queue" => len'[s] >= 1
      <3>1. s \in completed' => pc[s] \in {"schedule", "wait"}
        BY <1>7, <1>8 DEF TxInv, WaitInv
      <3>2. pc[s] \in {"schedule", "wait"} => s \in completed' \/ s = next \/ InQueue(s)'
        <4>1. s # NoMsg
          BY CECAssumption
        <4> QED
          BY <1>7, <1>8, <2>1, <4>1 DEF TxInv, WaitInv
      <3>3. pc[s] = "queue" => len'[s] >= 1
        BY <1>5, <1>6 DEF TxInv, WaitInv
      <3> QED
        BY <3>1, <3>2, <3>3
    <2> QED
      BY <1>1, <1>4, <1>9, <2>2 DEF WaitInv
  <1>12. IdleInv'
    BY <1>1, <1>2 DEF IdleInv
  <1>13. WireInv'
    <2>1. ~txContinuous' => len'[next] = 0
      <3>1. len[next] \in Nat
        BY <1>4 DEF TypeOK
      <3>2. ~(len[next] - 1 > 0) => len[next] - 1 = 0
        BY <1>5, <3>1
      <3> QED
        BY <1>1, <1>6, <3>2
    <2> QED
      BY <1>1, <1>4, <2>1 DEF WireInv
  <1>14. txContinuous' \in BOOLEAN /\ txInt' \in BOOLEAN /\ txHigh' \in BOOLEAN
    <2>1. (len[next] - 1 > 0) \in BOOLEAN
      OBVIOUS
    <2> QED
      BY <1>1, <2>1
  <1> QED
    BY <1>1, <1>4, <1>6, <1>10, <1>11, <1>12, <1>13, <1>14, TxAnswers DEF TxInv

\* ... or puts the transmitter to rest.
LEMMA TxRests ==
  ASSUME TypeOK, TxInv, NEW works, TxWork(works), TxOver, ~TxNext, UNCHANGED <<pc, late, acked>>
  PROVE  /\ TxInv' /\ txCmb' = NoMsg /\ txQueue' = txQueue /\ txState' = "IDEL"
         /\ len' = len /\ txHw' = "off" /\ onBus' = NoMsg
         /\ txContinuous' = FALSE /\ txInt' = FALSE /\ txHigh' = TRUE
  <1>1. /\ txCmb' = NoMsg /\ txState' = "IDEL" /\ txHw' = "off" /\ txContinuous' = FALSE
        /\ txInt' = FALSE /\ txHigh' = TRUE /\ onBus' = NoMsg
        /\ UNCHANGED <<txQueue, len, txEnable>>
    BY DEF TxWork
  <1>2. completed' = completed \cup {txCmb} /\ SuccessMeansSent'
    BY TxAnswers
  <1>3. txCmb \in Senders /\ pc[txCmb] \in {"schedule", "wait"}
    BY QueueFacts DEF TxOver
  <1>4. NoDanglingBuffer'
    BY <1>1, <1>2, QueueFacts DEF NoDanglingBuffer
  <1>5. WaitInv'
    <2>1. \A s \in Senders : InQueue(s)' <=> InQueue(s)
      BY <1>1 DEF InQueue
    <2> QED
      BY <1>1, <1>2, <1>3, <2>1 DEF TxInv, WaitInv
  <1>6. IdleInv' /\ WireInv'
    BY <1>1 DEF TxInv, IdleInv, WireInv
  <1> QED
    BY <1>1, <1>2, <1>4, <1>5, <1>6 DEF TxInv

\* While the hardware transmits, the worker loads more of the message.
LEMMA TxRefills ==
  ASSUME TypeOK, TxInv, NEW works, TxWork(works), txState = "XMIT", ~TxOver,
         UNCHANGED <<pc, late, acked>>
  PROVE  /\ TxInv' /\ UNCHANGED <<txCmb, txQueue, txState, txHw, txHigh, onBus>>
         /\ len' \in [Senders -> Nat] /\ txContinuous' \in BOOLEAN /\ txInt' \in BOOLEAN
  <1>1. TxRefill /\ UNCHANGED <<txCmb, txQueue, txState, txHw, txHigh, onBus, txEnable, completed>>
    BY DEF TxWork, TxNext
  <1>2. txCmb \in Senders /\ pc[txCmb] \in {"schedule", "wait"} /\ len[txCmb] \in Nat
    BY QueueFacts DEF TypeOK
  <1>3. /\ len' \in [Senders -> Nat] /\ txContinuous' \in BOOLEAN /\ txInt' \in BOOLEAN
        /\ \A s \in Senders : s # txCmb => len'[s] = len[s]
        /\ (~txContinuous' => len'[txCmb] = 0)
    <2>0. ~txContinuous => len[txCmb] = 0
      BY DEF TxInv, WireInv
    <2>1. CASE txInt
      <3>1. /\ len' = [len EXCEPT ![txCmb] = IF len[txCmb] > 0 THEN len[txCmb] - 1 ELSE 0]
            /\ txContinuous' = (txContinuous /\ len[txCmb] > 1) /\ txInt' = FALSE
        BY <1>1, <2>1 DEF TxRefill
      <3>2. PICK l \in Nat : l = IF len[txCmb] > 0 THEN len[txCmb] - 1 ELSE 0
        BY <1>2
      <3>3. ~(len[txCmb] > 1) => l = 0
        BY <1>2, <3>2
      <3>4. len[txCmb] = 0 => l = 0
        BY <1>2, <3>2
      <3>5. len' = [len EXCEPT ![txCmb] = l] /\ len \in [Senders -> Nat]
        BY <3>1, <3>2 DEF TypeOK
      <3>6. len' \in [Senders -> Nat] /\ len'[txCmb] = l
            /\ \A s \in Senders : s # txCmb => len'[s] = len[s]
        BY <1>2, <3>5
      <3>7. ~txContinuous' => l = 0
        BY <2>0, <3>1, <3>3, <3>4
      <3>8. txContinuous' \in BOOLEAN /\ txInt' \in BOOLEAN
        BY <3>1
      <3> QED
        BY <3>6, <3>7, <3>8
    <2>2. CASE ~txInt
      <3>1. UNCHANGED <<len, txContinuous, txInt>>
        BY <1>1, <2>2 DEF TxRefill
      <3> QED
        BY <2>0, <3>1 DEF TypeOK
    <2> QED
      BY <2>1, <2>2
  <1>4. NoDanglingBuffer' /\ IdleInv'
    BY <1>1 DEF TxInv, NoDanglingBuffer, IdleInv
  <1>5. WaitInv'
    <2>1. \A s \in Senders : InQueue(s)' <=> InQueue(s)
      BY <1>1 DEF InQueue
    <2>2. \A i \in 1..Len(txQueue) : len'[txQueue[i]] >= 1
      BY <1>3, QueueFacts
    <2>3. \A s \in Senders : pc[s] = "queue" => len'[s] >= 1
      BY <1>2, <1>3 DEF TxInv, WaitInv
    <2> QED
      BY <1>1, <2>1, <2>2, <2>3 DEF TxInv, WaitInv
  <1>6. WireInv'
    BY <1>1, <1>3 DEF TxInv, WireInv
  <1> QED
    BY <1>1, <1>3, <1>4, <1>5, <1>6, TxAnswers DEF TxInv

\* The transmit worker as a whole.
LEMMA TxWorkStep ==
  ASSUME TypeOK, TxInv, RxInv, NEW works \in Seq({"tx", "rx"}), TxWork(works),
         UNCHANGED <<pc, late, acked, receives>>
  PROVE  /\ TxInv' /\ RxInv' /\ UNCHANGED <<txEnable, rxEnable, rxCmb, rxQueue, rxFree, compVars>>
         /\ txState' \in {"IDEL", "XMIT"} /\ txCmb' \in Senders \cup {NoMsg}
         /\ txQueue' \in Seq(Senders) /\ len' \in [Senders -> Nat]
         /\ txHw' \in {"off", "run", "eom", "fail"} /\ onBus' \in Senders \cup {NoMsg}
         /\ txContinuous' \in BOOLEAN /\ txInt' \in BOOLEAN /\ txHigh' \in BOOLEAN
         /\ completed' \in SUBSET Senders
         /\ status' \in [Senders -> {"none", "wait", "ok", "fail", "timeout", "abort"}]
         /\ rxState' \in {"IDEL", "RCV"} /\ rxHw' \in {"off", "run", "eom", "fail"}
         /\ worklist' \in Seq({"tx", "rx"}) /\ txTimer' \in BOOLEAN /\ due' \in BOOLEAN
         /\ timerLost' \in BOOLEAN
  <1>1. UNCHANGED <<txEnable, rxEnable, rxCmb, rxQueue, rxFree, compVars>>
    BY DEF TxWork
  <1>2. rxState' \in {rxState, "IDEL"} /\ rxHw' \in {rxHw, "off"}
    BY DEF TxWork
  <1>3. RxInv'
    BY <1>1, <1>2, RxFrame
  <1>4. rxState' \in {"IDEL", "RCV"} /\ rxHw' \in {"off", "run", "eom", "fail"}
    BY <1>2 DEF TypeOK
  <1>5. worklist' \in Seq({"tx", "rx"})
    <2>1. worklist' = RestartRx(works)
      BY DEF TxWork
    <2>2. Append(works, "rx") \in Seq({"tx", "rx"})
      BY AppendFacts
    <2> QED
      BY <2>1, <2>2 DEF RestartRx
  <1>6. /\ completed' \in SUBSET Senders
        /\ status' \in [Senders -> {"none", "wait", "ok", "fail", "timeout", "abort"}]
    BY TxAnswers
  <1>7. txTimer' \in BOOLEAN /\ due' \in BOOLEAN /\ timerLost' \in BOOLEAN
    <2>1. CASE TxNext
      <3>1. due' = FALSE
        BY <2>1 DEF TxWork, TxNext
      <3>2. txTimer' = ((txTimer /\ ~TxOver)
                        \/ ~((txTimer /\ ~TxOver) \/ \E i \in 1..Len(works) : works[i] = "tx"))
        BY <2>1 DEF TxWork, TxNext
      <3>3. timerLost' = (timerLost \/ ((txTimer /\ ~TxOver)
                                        \/ \E i \in 1..Len(works) : works[i] = "tx"))
        BY <2>1 DEF TxWork, TxNext
      <3> QED
        BY <3>1, <3>2, <3>3
    <2>2. CASE TxOver /\ ~TxNext
      <3>1. txTimer' = FALSE /\ due' = FALSE /\ timerLost' = timerLost
        BY <2>2 DEF TxWork
      <3> QED
        BY <3>1 DEF TypeOK
    <2>3. CASE ~TxNext /\ ~TxOver
      <3>1. UNCHANGED <<txTimer, due, timerLost>>
        BY <2>3 DEF TxWork
      <3> QED
        BY <3>1 DEF TypeOK
    <2> QED
      BY <2>1, <2>2, <2>3
  <1>8. CASE TxNext
    BY <1>1, <1>3, <1>4, <1>5, <1>6, <1>7, <1>8, TxTakesNext
  <1>9. CASE TxOver /\ ~TxNext
    <2>1. /\ TxInv' /\ txCmb' = NoMsg /\ txQueue' = txQueue /\ txState' = "IDEL"
          /\ len' = len /\ txHw' = "off" /\ onBus' = NoMsg
          /\ txContinuous' = FALSE /\ txInt' = FALSE /\ txHigh' = TRUE
      BY <1>9, TxRests
    <2>2. txContinuous' \in BOOLEAN /\ txInt' \in BOOLEAN /\ txHigh' \in BOOLEAN
      BY <2>1
    <2>3. txQueue' \in Seq(Senders) /\ len' \in [Senders -> Nat]
      BY <2>1 DEF TypeOK
    <2> QED
      BY <1>1, <1>3, <1>4, <1>5, <1>6, <1>7, <2>1, <2>2, <2>3
  <1>10. CASE txState = "XMIT" /\ ~TxOver
    <2>1. /\ TxInv' /\ UNCHANGED <<txCmb, txQueue, txState, txHw, txHigh, onBus>>
          /\ len' \in [Senders -> Nat] /\ txContinuous' \in BOOLEAN /\ txInt' \in BOOLEAN
      BY <1>10, TxRefills
    <2> QED
      BY <1>1, <1>3, <1>4, <1>5, <1>6, <1>7, <2>1 DEF TypeOK
  <1>11. CASE ~TxNext /\ ~TxOver /\ txState # "XMIT"
    <2>1. UNCHANGED <<txCmb, txQueue, txState, len, txHwVars, status, completed>>
      BY <1>11 DEF TxWork
    <2>2. TxInv'
      BY <1>1, <2>1, TxFrame DEF txVars, txHwVars, cmbVars, TypeOK
    <2> QED
      BY <1>1, <1>3, <1>4, <1>5, <1>6, <1>7, <2>1, <2>2 DEF TypeOK, txHwVars
  <1> QED
    BY <1>8, <1>9, <1>10, <1>11

-----------------------------------------------------------------------------
(* The invariant is inductive. *)

\* Steps that take nothing away from a reader.
LEMMA TakeFrame ==
  ASSUME TakeInv, UNCHANGED <<control, disables, enabled>>,
         \A r \in Readers : pc'[r] = "take" => pc[r] = "take",
         \A r \in Readers : Readers = {r} /\ rxQueue # << >> /\ pc'[r] = "take" => rxQueue' # << >>
  PROVE  TakeInv'
  BY DEF TakeInv

\* The initial states.
LEMMA InitIInv == Init => IInv
  <1> SUFFICES ASSUME Init PROVE IInv
    OBVIOUS
  <1>1. TypeOK
    <2>1. /\ rxFree \in 0..RxRing /\ sends \in 0..MaxSends /\ receives \in 0..MaxReceives
          /\ disables \in 0..MaxDisables /\ rxDone \in Nat /\ taken \in 0..MaxReceives
      BY CECAssumption DEF Init
    <2>2. /\ txQueue \in Seq(Senders) /\ rxQueue \in Seq(1..MaxReceives)
          /\ rxWaiters \in Seq(Readers) /\ worklist \in Seq({"tx", "rx"})
      BY DEF Init
    <2>3. /\ pc \in [Threads -> {"idle", "queue", "schedule", "wait", "again", "sleep", "take", "disabled", "refill"}]
          /\ len \in [Senders -> Nat]
          /\ status \in [Senders -> {"none", "wait", "ok", "fail", "timeout", "abort"}]
      BY DEF Init
    <2> QED
      BY <2>1, <2>2, <2>3 DEF Init, TypeOK
  <1>2. RxInv
    <2>1. {r \in Readers : pc[r] = "refill"} = {}
      BY DEF Init, Threads
    <2>2. Cardinality({r \in Readers : pc[r] = "refill"}) = 0
      BY <2>1, FS_EmptySet
    <2>3. Len(rxQueue) = 0 /\ rxFree = RxRing /\ RxRing \in Nat /\ ~rxCmb
      BY CECAssumption DEF Init
    <2>4. BuffersConserved
      BY <2>2, <2>3 DEF BuffersConserved
    <2> QED
      BY <2>4 DEF RxInv, Init
  <1>3. TakeInv
    BY DEF Init, TakeInv, Threads
  <1>4. TxInv
    <2>1. Len(txQueue) = 0 /\ 1..0 = {}
      BY DEF Init
    <2>2. NoDanglingBuffer /\ WaitInv /\ IdleInv
      BY <2>1 DEF Init, NoDanglingBuffer, WaitInv, IdleInv, Threads
    <2>3. WireInv /\ SuccessMeansSent
      BY DEF Init, WireInv, SuccessMeansSent
    <2> QED
      BY <2>2, <2>3 DEF TxInv
  <1> QED
    BY <1>1, <1>2, <1>3, <1>4 DEF IInv

\* A run of the transmit worker, by the interrupt handler or by keventd.
LEMMA TxRun ==
  ASSUME IInv, TxWork(worklist), UNCHANGED Context, irq' \in SUBSET {"tx", "rx"},
         keventd' \in {"idle", "tx", "rx"}
  PROVE  IInv'
  <1>1. UNCHANGED <<enabled, control, pc, sends, receives, disables, acked, late, taken, clobbered>>
    BY DEF Context, boundVars
  <1>2. worklist \in Seq({"tx", "rx"})
    BY DEF IInv, TypeOK
  <1>3. /\ TxInv' /\ RxInv' /\ UNCHANGED <<txEnable, rxEnable, rxCmb, rxQueue, rxFree, compVars>>
        /\ txState' \in {"IDEL", "XMIT"} /\ txCmb' \in Senders \cup {NoMsg}
        /\ txQueue' \in Seq(Senders) /\ len' \in [Senders -> Nat]
        /\ txHw' \in {"off", "run", "eom", "fail"} /\ onBus' \in Senders \cup {NoMsg}
        /\ txContinuous' \in BOOLEAN /\ txInt' \in BOOLEAN /\ txHigh' \in BOOLEAN
        /\ completed' \in SUBSET Senders
        /\ status' \in [Senders -> {"none", "wait", "ok", "fail", "timeout", "abort"}]
        /\ rxState' \in {"IDEL", "RCV"} /\ rxHw' \in {"off", "run", "eom", "fail"}
        /\ worklist' \in Seq({"tx", "rx"}) /\ txTimer' \in BOOLEAN /\ due' \in BOOLEAN
        /\ timerLost' \in BOOLEAN
    BY <1>1, <1>2, TxWorkStep DEF IInv
  <1>4. TypeOK'
    BY <1>1, <1>3 DEF IInv, TypeOK, compVars
  <1>5. TakeInv'
    BY <1>1, <1>3, TakeFrame DEF IInv
  <1> QED
    BY <1>3, <1>4, <1>5 DEF IInv

\* A run of the receive worker.
LEMMA RxRun ==
  ASSUME IInv, RxWork, UNCHANGED Context, irq' \in SUBSET {"tx", "rx"},
         keventd' \in {"idle", "tx", "rx"}
  PROVE  IInv'
  <1>1. UNCHANGED <<enabled, control, pc, sends, receives, disables, acked, late, taken, clobbered>>
    BY DEF Context, boundVars
  <1>2. UNCHANGED <<rxEnable, txVars, cmbVars, txHwVars, workVars, timerLost>>
    BY DEF RxWork
  <1>3. /\ RxInv' /\ rxFree' \in 0..RxRing /\ rxQueue' \in Seq(1..MaxReceives)
        /\ rxCmb' \in BOOLEAN /\ rxState' \in {"IDEL", "RCV"}
        /\ rxHw' \in {"off", "run", "eom", "fail"}
        /\ (rxQueue # << >> /\ RxRing >= Cardinality(Holders) + 2 => rxQueue' # << >>)
    BY <1>1, RxWorkRx DEF IInv
  <1>4. rxDone' \in Nat /\ asleep' \in SUBSET Readers /\ rxWaiters' \in Seq(Readers)
    <2>1. CASE RxArrived
      <3>1. Complete(1)
        BY <2>1 DEF RxWork
      <3>2. 1 \in Nat
        OBVIOUS
      <3> QED
        BY <3>1, <3>2, CompleteFacts DEF IInv, TypeOK
    <2>2. CASE ~RxArrived
      BY <2>2 DEF RxWork, compVars, IInv, TypeOK
    <2> QED
      BY <2>1, <2>2
  <1>5. TypeOK'
    BY <1>1, <1>2, <1>3, <1>4, SMTT(30) DEF IInv, TypeOK, txVars, cmbVars, txHwVars, workVars
  <1>6. TxInv'
    BY <1>1, <1>2, TxFrame DEF IInv, TypeOK, txHwVars
  <1>7. TakeInv'
    <2>1. ASSUME NEW r \in Readers, Readers = {r}, pc[r] = "take"
          PROVE  RxRing >= Cardinality(Holders) + 2
      <3>1. Holders = {}
        BY <2>1 DEF Holders
      <3>2. Cardinality(Holders) = 0
        BY <3>1, FS_EmptySet
      <3>3. Cardinality(Readers) = 1
        BY <2>1, FS_Singleton
      <3> QED
        BY <3>2, <3>3, CECAssumption
    <2> QED
      BY <1>1, <1>3, <2>1, TakeFrame DEF IInv
  <1> QED
    BY <1>3, <1>5, <1>6, <1>7 DEF IInv

\* Steps of a sender.
LEMMA SendStep ==
  ASSUME IInv, NEW s \in Senders, Send(s) \/ \E n \in Lengths : SendCall(s, n)
  PROVE  IInv'
  <1>0. s \in Threads /\ s \notin Readers
    BY CECAssumption DEF Threads
  <1>1. /\ UNCHANGED Driver /\ UNCHANGED <<receives, disables>>
        /\ \E label \in {"idle", "queue", "schedule", "wait"} : pc' = [pc EXCEPT ![s] = label]
    BY DEF Send, SendCall, SendQueue, SendSchedule, SendReturn, Goto, boundVars
  <1>2. /\ \A r \in Readers : pc'[r] = pc[r]
        /\ pc' \in [Threads -> {"idle", "queue", "schedule", "wait", "again", "sleep", "take", "disabled", "refill"}]
    BY <1>0, <1>1 DEF IInv, TypeOK, Threads
  <1>3. RxInv'
    BY <1>1, <1>2, RxFrame DEF IInv, Driver, rxVars
  <1>4. TakeInv'
    BY <1>1, <1>2, TakeFrame DEF IInv, Driver, rxVars
  <1>5. ASSUME NEW n \in Lengths, SendCall(s, n) PROVE IInv'
    <2>1. TxInv'
      BY <1>5, SendCallTx DEF IInv
    <2>2. len' \in [Senders -> Nat]
      BY <1>5, CECAssumption DEF SendCall, IInv, TypeOK
    <2>3. sends' \in 0..MaxSends
      BY <1>5, CECAssumption DEF SendCall, IInv, TypeOK
    <2>4. TypeOK'
      BY <1>1, <1>2, <1>5, <2>2, <2>3, SMTT(30)
      DEF SendCall, IInv, TypeOK, Driver, rxVars, compVars, txHwVars
    <2> QED
      BY <1>3, <1>4, <2>1, <2>4 DEF IInv
  <1>6. CASE SendQueue(s)
    <2>1. TxInv' /\ txQueue' \in Seq(Senders)
      BY <1>6, SendQueueTx DEF IInv
    <2>2. /\ status' \in [Senders -> {"none", "wait", "ok", "fail", "timeout", "abort"}]
          /\ late' \in SUBSET Senders
      BY <1>6 DEF SendQueue, IInv, TypeOK
    <2>3. TypeOK'
      BY <1>1, <1>2, <1>6, <2>1, <2>2, SMTT(30)
      DEF SendQueue, IInv, TypeOK, Driver, rxVars, compVars, txHwVars, boundVars
    <2> QED
      BY <1>3, <1>4, <2>1, <2>3 DEF IInv
  <1>7. CASE SendSchedule(s)
    <2>1. TxInv'
      BY <1>7, SendScheduleTx DEF IInv
    <2>2. worklist' \in Seq({"tx", "rx"})
      <3>1. Append(worklist, "tx") \in Seq({"tx", "rx"})
        BY AppendFacts DEF IInv, TypeOK
      <3> QED
        BY <1>7, <3>1 DEF SendSchedule, IInv, TypeOK
    <2>3. TypeOK'
      BY SMTT(30), <1>1, <1>2, <1>7, <2>2
      DEF SendSchedule, IInv, TypeOK, Driver, rxVars, compVars, txHwVars, boundVars, cmbVars
    <2> QED
      BY <1>3, <1>4, <2>1, <2>3 DEF IInv
  <1>8. CASE SendReturn(s)
    <2>1. TxInv'
      BY <1>8, SendReturnTx DEF IInv
    <2>2. /\ status' \in [Senders -> {"none", "wait", "ok", "fail", "timeout", "abort"}]
          /\ len' \in [Senders -> Nat] /\ completed' \in SUBSET Senders
          /\ late' \in SUBSET Senders /\ acked' \in SUBSET Senders
      BY <1>8 DEF SendReturn, IInv, TypeOK
    <2>3. TypeOK'
      BY <1>1, <1>2, <1>8, <2>2
      DEF SendReturn, IInv, TypeOK, Driver, rxVars, compVars, txHwVars, boundVars
    <2> QED
      BY <1>3, <1>4, <2>1, <2>3 DEF IInv
  <1> QED
    BY <1>5, <1>6, <1>7, <1>8 DEF Send

\* Steps of a reader.
LEMMA ReadStep ==
  ASSUME IInv, NEW r \in Readers, Read(r)
  PROVE  IInv'
  <1>0. r \in Threads /\ r \notin Senders
    BY CECAssumption DEF Threads
  <1>1. /\ UNCHANGED ReadFrame
        /\ \E label \in {"idle", "wait", "again", "sleep", "take", "disabled", "refill"} \cup {pc[r]} :
             pc' = [pc EXCEPT ![r] = label]
    <2>1. UNCHANGED ReadFrame
      BY DEF Read, ReadTest, ReadWait, ReadWoken, ReadTake, ReadRefill
    <2>2. pc = [pc EXCEPT ![r] = pc[r]]
      BY DEF IInv, TypeOK
    <2> QED
      BY <2>1, <2>2 DEF Read, ReadTest, ReadWait, ReadWoken, ReadTake, ReadRefill, Goto
  <1>2. /\ \A x \in Threads : x # r => pc'[x] = pc[x]
        /\ pc' \in [Threads -> {"idle", "queue", "schedule", "wait", "again", "sleep", "take", "disabled", "refill"}]
    BY <1>0, <1>1 DEF IInv, TypeOK
  <1>3. TxInv'
    <2>1. \A s \in Senders : pc'[s] = pc[s]
      BY <1>0, <1>2 DEF Threads
    <2> QED
      BY <1>1, <2>1, TxFrame DEF IInv, TypeOK, ReadFrame, txHwVars
  <1>4. CASE ReadTest(r)
    <2>1. UNCHANGED <<rxQueue, rxFree, compVars, taken>> /\ pc[r] # "refill" /\ pc'[r] # "refill"
          /\ (pc'[r] = "take" => enabled /\ rxQueue # << >>)
      BY <1>0, <1>4 DEF ReadTest, Goto, IInv, TypeOK
    <2>2. RxInv'
      BY <1>1, <1>2, <2>1, RxFrame DEF IInv, ReadFrame, boundVars, Threads
    <2>3. TakeInv'
      BY <1>1, <1>2, <2>1 DEF IInv, TakeInv, ReadFrame, boundVars, Threads
    <2>4. TypeOK'
      BY <1>1, <1>2, <2>1
      DEF IInv, TypeOK, ReadFrame, txVars, workVars, txHwVars, cmbVars, boundVars, compVars
    <2> QED
      BY <1>3, <2>2, <2>3, <2>4 DEF IInv
  <1>5. CASE ReadWait(r) \/ ReadWoken(r)
    <2>1. /\ UNCHANGED <<rxQueue, rxFree, taken>> /\ pc[r] # "refill" /\ pc'[r] # "refill"
          /\ pc'[r] # "take"
      BY <1>0, <1>5 DEF ReadWait, ReadWoken, Goto, IInv, TypeOK
    <2>2. RxInv'
      BY <1>1, <1>2, <2>1, RxFrame DEF IInv, ReadFrame, boundVars, Threads
    <2>3. TakeInv'
      BY <1>1, <1>2, <2>1 DEF IInv, TakeInv, ReadFrame, boundVars, Threads
    <2>4. rxDone' \in Nat
      <3>1. rxDone \in Nat
        BY DEF IInv, TypeOK
      <3>2. CASE rxDone > 0
        <4>1. rxDone' = rxDone - 1
          BY <1>5, <3>2 DEF ReadWait, ReadWoken
        <4> QED
          BY <3>1, <3>2, <4>1
      <3>3. CASE ~(rxDone > 0)
        <4>1. rxDone' = rxDone
          BY <1>5, <3>3 DEF ReadWait, ReadWoken
        <4> QED
          BY <3>1, <4>1
      <3> QED
        BY <3>2, <3>3
    <2>5. asleep' \in SUBSET Readers
      BY <1>5 DEF ReadWait, ReadWoken, IInv, TypeOK
    <2>6. rxWaiters' \in Seq(Readers)
      <3>1. rxWaiters \in Seq(Readers)
        BY DEF IInv, TypeOK
      <3>2. CASE ReadWait(r)
        <4>1. rxWaiters' = rxWaiters \/ rxWaiters' = Append(rxWaiters, r)
          BY <3>2 DEF ReadWait
        <4>2. Append(rxWaiters, r) \in Seq(Readers)
          BY <3>1, AppendFacts
        <4> QED
          BY <3>1, <4>1, <4>2
      <3>3. CASE ReadWoken(r)
        <4>1. CASE rxDone > 0
          <5>1. PICK k \in 1..Len(rxWaiters) :
                  rxWaiters' = SubSeq(rxWaiters, 1, k - 1) \o SubSeq(rxWaiters, k + 1, Len(rxWaiters))
            BY <3>3, <4>1 DEF ReadWoken
          <5> QED
            BY <3>1, <5>1, LeaveFacts
        <4>2. CASE ~(rxDone > 0)
          BY <3>1, <3>3, <4>2 DEF ReadWoken
        <4> QED
          BY <4>1, <4>2
      <3> QED
        BY <1>5, <3>2, <3>3
    <2>7. TypeOK'
      BY SMTT(30), <1>1, <1>2, <2>1, <2>4, <2>5, <2>6
      DEF IInv, TypeOK, ReadFrame, txVars, workVars, txHwVars, cmbVars, boundVars
    <2> QED
      BY <1>3, <2>2, <2>3, <2>7 DEF IInv
  <1>6. CASE ReadTake(r)
    <2>0. UNCHANGED <<rxFree, compVars>> /\ pc[r] # "refill" /\ pc[r] \in {"take", "disabled"}
      BY <1>6 DEF ReadTake
    <2>1. pc'[r] \in {"refill", "idle"}
      BY <1>0, <1>6 DEF ReadTake, Goto, IInv, TypeOK
    <2>2. RxInv' /\ rxQueue' \in Seq(1..MaxReceives) /\ taken' \in 0..MaxReceives
      <3>1. CASE enabled /\ rxQueue # << >>
        <4>1. rxQueue' = Tail(rxQueue) /\ taken' = Head(rxQueue) /\ Goto(r, "refill")
          BY <1>6, <3>1 DEF ReadTake
        <4>2. taken' \in 0..MaxReceives
          BY <3>1, <4>1, TailFacts, CECAssumption DEF IInv, TypeOK
        <4> QED
          BY <1>1, <2>0, <3>1, <4>1, <4>2, TakeRx DEF IInv, ReadFrame, boundVars
      <3>2. CASE ~(enabled /\ rxQueue # << >>)
        <4>1. rxQueue' = rxQueue /\ taken' = taken /\ pc'[r] = "idle"
          BY <1>0, <1>6, <3>2 DEF ReadTake, Goto, IInv, TypeOK
        <4>2. RxInv'
          BY <1>1, <1>2, <2>0, <4>1, RxFrame DEF IInv, ReadFrame, boundVars, Threads
        <4> QED
          BY <4>1, <4>2 DEF IInv, TypeOK
      <3> QED
        BY <3>1, <3>2
    <2>3. TakeInv'
      BY <1>1, <1>2, <2>1 DEF IInv, TakeInv, ReadFrame, boundVars, Threads
    <2>4. TypeOK'
      BY SMTT(30), <1>1, <1>2, <2>0, <2>2
      DEF IInv, TypeOK, ReadFrame, txVars, workVars, txHwVars, cmbVars, boundVars, compVars
    <2> QED
      BY <1>3, <2>2, <2>3, <2>4 DEF IInv
  <1>7. CASE ReadRefill(r)
    <2>0. /\ UNCHANGED <<rxQueue, compVars, taken>> /\ pc[r] = "refill"
          /\ rxFree' = rxFree + 1 /\ Goto(r, "idle")
      BY <1>7 DEF ReadRefill
    <2>1. pc'[r] = "idle"
      BY <1>0, <2>0 DEF Goto, IInv, TypeOK
    <2>2. RxInv' /\ rxFree' \in 0..RxRing
      BY <1>1, <2>0, RefillRx DEF IInv, ReadFrame, boundVars
    <2>3. TakeInv'
      BY <1>1, <1>2, <2>0, <2>1 DEF IInv, TakeInv, ReadFrame, boundVars, Threads
    <2>4. TypeOK'
      BY <1>1, <1>2, <2>0, <2>2
      DEF IInv, TypeOK, ReadFrame, txVars, workVars, txHwVars, cmbVars, boundVars, compVars
    <2> QED
      BY <1>3, <2>2, <2>3, <2>4 DEF IInv
  <1> QED
    BY <1>4, <1>5, <1>6, <1>7 DEF Read

\* Enabling and disabling the chip.
LEMMA ControlStep ==
  ASSUME IInv, Control
  PROVE  IInv'
  <1>0. UNCHANGED <<keventd, irq, pc, sends, receives, acked, late, timerLost, taken>>
    BY DEF Control, EnableCall, RxStart, TxStart, EnableDone, DisableCall, RxStop, TxStop, CtlFrame
  <1>1. CASE EnableCall \/ EnableDone \/ DisableCall
    <2>1. /\ UNCHANGED <<txVars, rxVars, compVars, workVars, txHwVars, rxHw, cmbVars, clobbered>>
          /\ enabled' \in BOOLEAN /\ control' \in {"rxStart", "idle", "rxStop"}
          /\ disables' \in 0..MaxDisables
      <3>1. /\ UNCHANGED <<txVars, rxVars, compVars, workVars, txHwVars, rxHw, cmbVars, clobbered>>
            /\ control' \in {"rxStart", "idle", "rxStop"}
        BY <1>1 DEF EnableCall, EnableDone, DisableCall
      <3>2. enabled \in BOOLEAN /\ disables \in 0..MaxDisables /\ MaxDisables \in Nat
        BY CECAssumption DEF IInv, TypeOK
      <3>3. enabled' \in BOOLEAN
        <4>1. enabled' = enabled \/ enabled' = TRUE \/ enabled' = FALSE
          BY <1>1 DEF EnableCall, EnableDone, DisableCall
        <4> QED
          BY <3>2, <4>1
      <3>4. disables' \in 0..MaxDisables
        <4>1. disables' = disables \/ (disables' = disables + 1 /\ disables < MaxDisables)
          BY <1>1 DEF EnableCall, EnableDone, DisableCall
        <4> QED
          BY <3>2, <4>1
      <3> QED
        BY <3>1, <3>3, <3>4
    <2>2. RxInv' /\ TxInv'
      BY <1>0, <2>1, RxFrame, TxFrame DEF IInv, TypeOK, rxVars, txHwVars
    <2>3. TakeInv'
      <3>1. CASE EnableCall \/ EnableDone
        BY <1>0, <2>1, <3>1 DEF EnableCall, EnableDone, IInv, TakeInv, rxVars
      <3>2. CASE DisableCall
        <4>1. disables' > 0
          BY <3>2 DEF DisableCall, IInv, TypeOK
        <4> QED
          BY <4>1 DEF TakeInv
      <3> QED
        BY <1>1, <3>1, <3>2
    <2>4. TypeOK'
      BY <1>0, <2>1 DEF IInv, TypeOK, rxVars, txVars, compVars, workVars, txHwVars, cmbVars
    <2> QED
      BY <2>2, <2>3, <2>4 DEF IInv
  <1>2. CASE RxStart
    <2>1. UNCHANGED <<enabled, txVars, rxQueue, rxFree, asleep, txTimer, due, txHwVars, rxHw, cmbVars,
                      disables>> /\ control' = "txStart"
      BY <1>2 DEF RxStart
    <2>2. /\ rxCmb' = rxCmb /\ rxState' \in {rxState, "IDEL"} /\ (rxEnable' = rxEnable \/ ~rxCmb)
          /\ rxEnable' \in BOOLEAN /\ rxCmb \in BOOLEAN
      <3>1. CASE rxEnable
        BY <1>2, <3>1 DEF RxStart, IInv, TypeOK
      <3>2. CASE ~rxEnable
        <4>1. rxCmb = FALSE
          BY <3>2 DEF IInv, RxInv, TypeOK
        <4> QED
          BY <1>2, <3>2, <4>1 DEF RxStart
      <3> QED
        BY <3>1, <3>2
    <2>3. RxInv'
      <3>1. BuffersConserved'
        BY <1>0, <2>1, <2>2 DEF IInv, RxInv, BuffersConserved
      <3>2. ~rxEnable' => ~rxCmb'
        BY <2>2 DEF IInv, RxInv
      <3> QED
        BY <1>0, <2>1, <2>2, <3>1, <3>2 DEF IInv, RxInv
    <2>4. TxInv'
      BY <1>0, <2>1, TxFrame DEF IInv, TypeOK, txHwVars
    <2>5. TakeInv'
      BY <1>0, <2>1 DEF IInv, TakeInv
    <2>6. rxDone' \in Nat /\ rxWaiters' \in Seq(Readers) /\ clobbered' \in BOOLEAN
      <3>1. CASE rxEnable
        BY <1>2, <3>1 DEF RxStart, IInv, TypeOK
      <3>2. CASE ~rxEnable
        <4>1. rxDone' = 0 /\ rxWaiters' = << >>
          BY <1>2, <3>2 DEF RxStart
        <4>2. clobbered' = (Queued("rx") \/ rxWaiters # << >>)
          BY <1>2, <3>2 DEF RxStart
        <4>3. clobbered' \in BOOLEAN
          BY <4>2
        <4> QED
          BY <4>1, <4>3
      <3> QED
        BY <3>1, <3>2
    <2>7. worklist' \in Seq({"tx", "rx"})
      <3>1. worklist' = worklist \/ worklist' = Append(worklist, "rx")
        BY <1>2 DEF RxStart
      <3>2. Append(worklist, "rx") \in Seq({"tx", "rx"})
        BY AppendFacts DEF IInv, TypeOK
      <3> QED
        BY <3>1, <3>2 DEF IInv, TypeOK
    <2>8. rxState' \in {"IDEL", "RCV"}
      BY <2>2 DEF IInv, TypeOK
    <2>9. TypeOK'
      BY <1>0, <2>1, <2>2, <2>6, <2>7, <2>8, SMTT(30) DEF IInv, TypeOK, txVars, txHwVars, cmbVars
    <2> QED
      BY <2>3, <2>4, <2>5, <2>9 DEF IInv
  <1>3. CASE TxStart
    <2>1. UNCHANGED <<enabled, txQueue, rxVars, compVars, workVars, txHwVars, rxHw, cmbVars, disables>>
          /\ control' = "enable"
      BY <1>3 DEF TxStart
    <2>2. TxInv' /\ txState' \in {"IDEL", "XMIT"} /\ txCmb' \in Senders \cup {NoMsg}
      BY <1>3, TxStartTx DEF IInv
    <2>3. RxInv'
      BY <1>0, <2>1, RxFrame DEF IInv, rxVars
    <2>4. TakeInv'
      BY <1>0, <2>1 DEF IInv, TakeInv, rxVars
    <2>5. txEnable' \in BOOLEAN /\ clobbered' \in BOOLEAN
      <3>1. CASE txEnable
        BY <1>3, <3>1 DEF TxStart, IInv, TypeOK
      <3>2. CASE ~txEnable
        <4>1. txEnable' = TRUE /\ clobbered' = (txTimer \/ Queued("tx"))
          BY <1>3, <3>2 DEF TxStart, TxPending
        <4> QED
          BY <4>1
      <3> QED
        BY <3>1, <3>2
    <2>6. TypeOK'
      BY SMTT(30), <1>0, <2>1, <2>2, <2>5 DEF IInv, TypeOK, rxVars, compVars, workVars, txHwVars, cmbVars
    <2> QED
      BY <2>2, <2>3, <2>4, <2>6 DEF IInv
  <1>4. CASE RxStop
    <2>1. UNCHANGED <<enabled, txVars, workVars, txHwVars, cmbVars, disables, clobbered>>
          /\ control = "rxStop" /\ control' = "txStop"
      BY <1>4 DEF RxStop
    <2>2. /\ RxInv' /\ rxFree' \in 0..RxRing /\ rxQueue' \in Seq(1..MaxReceives)
          /\ rxEnable' \in BOOLEAN /\ rxState' \in {"IDEL", "RCV"} /\ rxCmb' \in BOOLEAN
          /\ rxHw' \in {"off", "run", "eom", "fail"}
          /\ rxDone' \in Nat /\ rxWaiters' \in Seq(Readers) /\ asleep' \in SUBSET Readers
      BY <1>4, RxStopRx DEF IInv
    <2>3. TxInv'
      BY <1>0, <2>1, TxFrame DEF IInv, TypeOK, txHwVars
    <2>4. TakeInv'
      <3>1. disables > 0
        BY <2>1 DEF IInv, TakeInv
      <3>2. disables' > 0 /\ disables' # 0
        BY <2>1, <3>1
      <3> QED
        BY <3>2 DEF TakeInv
    <2>5. TypeOK'
      BY <1>0, <2>1, <2>2, SMTT(30) DEF IInv, TypeOK, txVars, workVars, txHwVars, cmbVars
    <2> QED
      BY <2>2, <2>3, <2>4, <2>5 DEF IInv
  <1>5. CASE TxStop
    <2>1. UNCHANGED <<enabled, rxEnable, rxCmb, rxQueue, rxFree, compVars, worklist, txTimer,
                      txHwVars, len, disables, clobbered>> /\ control' = "idle"
      BY <1>5 DEF TxStop
    <2>2. rxState' \in {rxState, "IDEL"} /\ rxHw' \in {rxHw, "off"} /\ due' \in BOOLEAN
      <3>1. CASE txEnable
        <4>1. rxState' = "IDEL" /\ rxHw' = "off" /\ due' = FALSE
          BY <1>5, <3>1 DEF TxStop
        <4> QED
          BY <4>1
      <3>2. CASE ~txEnable
        BY <1>5, <3>2 DEF TxStop, IInv, TypeOK
      <3> QED
        BY <3>1, <3>2
    <2>3. RxInv'
      BY <1>0, <2>1, <2>2, RxFrame DEF IInv
    <2>4. /\ TxInv' /\ txState' \in {"IDEL", "XMIT"} /\ txCmb' \in Senders \cup {NoMsg}
          /\ txQueue' \in Seq(Senders) /\ txEnable' \in BOOLEAN
          /\ status' \in [Senders -> {"none", "wait", "ok", "fail", "timeout", "abort"}]
          /\ completed' \in SUBSET Senders
      BY <1>5, TxStopTx DEF IInv
    <2>5. TakeInv'
      BY <1>0, <2>1 DEF IInv, TakeInv
    <2>6. TypeOK'
      BY SMTT(30), <1>0, <2>1, <2>2, <2>4 DEF IInv, TypeOK, compVars, txHwVars
    <2> QED
      BY <2>3, <2>4, <2>5, <2>6 DEF IInv
  <1> QED
    BY <1>1, <1>2, <1>3, <1>4, <1>5 DEF Control

\* keventd takes a work item, or the timer of the transmit work queues it.
LEMMA QueueStep ==
  ASSUME IInv, KeventdTake \/ TimerFires
  PROVE  IInv'
  <1>1. UNCHANGED <<txVars, rxVars, compVars, txHwVars, rxHw, irq, cmbVars, timerLost, Context>>
    BY DEF KeventdTake, TimerFires
  <1>2. UNCHANGED <<enabled, control, pc, sends, receives, disables, acked, late, taken, clobbered>>
    BY <1>1 DEF Context, boundVars
  <1>3. RxInv' /\ TxInv' /\ TakeInv'
    BY <1>1, <1>2, RxFrame, TxFrame, TakeFrame DEF IInv, TypeOK, rxVars, txHwVars
  <1>4. worklist \in Seq({"tx", "rx"}) /\ txTimer \in BOOLEAN /\ due \in BOOLEAN
    BY DEF IInv, TypeOK
  <1>5. /\ worklist' \in Seq({"tx", "rx"}) /\ txTimer' \in BOOLEAN /\ due' \in BOOLEAN
        /\ keventd' \in {"idle", "tx", "rx"}
    <2>1. CASE KeventdTake
      BY <1>4, <2>1, TailFacts DEF KeventdTake
    <2>2. CASE TimerFires
      <3>1. worklist' = Append(worklist, "tx") /\ txTimer' = FALSE /\ keventd' = keventd
        BY <2>2 DEF TimerFires
      <3>2. due' = (txState = "XMIT")
        BY <2>2 DEF TimerFires
      <3>3. Append(worklist, "tx") \in Seq({"tx", "rx"})
        BY <1>4, AppendFacts
      <3> QED
        BY <3>1, <3>2, <3>3 DEF IInv, TypeOK
    <2> QED
      BY <2>1, <2>2
  <1>6. TypeOK'
    BY SMTT(30), <1>1, <1>2, <1>5 DEF IInv, TypeOK, rxVars, txVars, compVars, txHwVars, cmbVars
  <1> QED
    BY <1>3, <1>6 DEF IInv

\* Steps of the controller and of the bus.
LEMMA BusStep ==
  ASSUME IInv, Bus
  PROVE  IInv'
  <1>1. /\ UNCHANGED <<enabled, control, txVars, rxVars, compVars, worklist, txTimer, keventd, pc,
                       cmbVars, sends, disables, late, timerLost, taken, clobbered, txHigh, onBus,
                       txContinuous>>
        /\ irq' \in SUBSET {"tx", "rx"}
    BY DEF Bus, BusTxDrained, BusTxEnd, BusRxEnd, Elapse, BusFrame, IInv, TypeOK
  <1>2. TakeInv'
    BY <1>1, TakeFrame DEF IInv, rxVars
  <1>3. CASE BusTxDrained \/ Elapse
    <2>1. UNCHANGED <<txHw, rxHw, receives, acked>>
      BY <1>3 DEF BusTxDrained, Elapse
    <2>2. RxInv' /\ TxInv'
      BY <1>1, <2>1, RxFrame, TxFrame DEF IInv, TypeOK, rxVars
    <2>3. txInt' \in BOOLEAN /\ due' \in BOOLEAN
      <3>1. (txInt' = txInt \/ txInt' = TRUE) /\ (due' = due \/ due' = TRUE)
        BY <1>3 DEF BusTxDrained, Elapse
      <3> QED
        BY <3>1 DEF IInv, TypeOK
    <2>4. TypeOK'
      BY <1>1, <2>1, <2>3 DEF IInv, TypeOK, rxVars, txVars, compVars, cmbVars
    <2> QED
      BY <1>2, <2>2, <2>4 DEF IInv
  <1>4. ASSUME NEW res \in {"eom", "fail"}, BusTxEnd(res)
        PROVE  IInv'
    <2>1. UNCHANGED <<due, txInt, rxHw, receives>> /\ txHw' = res
      BY <1>4 DEF BusTxEnd
    <2>2. RxInv'
      BY <1>1, <2>1, RxFrame DEF IInv, rxVars
    <2>3. TxInv' /\ acked' \in SUBSET Senders
      BY <1>4, BusTxEndTx DEF IInv
    <2>4. TypeOK'
      BY <1>1, <2>1, <2>3 DEF IInv, TypeOK, rxVars, txVars, compVars, cmbVars
    <2> QED
      BY <1>2, <2>2, <2>3, <2>4 DEF IInv
  <1>5. ASSUME NEW res \in {"eom", "fail"}, BusRxEnd(res)
        PROVE  IInv'
    <2>1. /\ UNCHANGED <<due, txHw, txInt, acked>> /\ rxHw' = res
          /\ receives' = receives + 1 /\ receives < MaxReceives
      BY <1>5 DEF BusRxEnd
    <2>2. TxInv'
      BY <1>1, <2>1, TxFrame DEF IInv, TypeOK
    <2>3. receives' \in 0..MaxReceives /\ receives' >= 1
      BY <2>1, CECAssumption DEF IInv, TypeOK
    <2>4. RxInv'
      <3>1. BuffersConserved'
        BY <1>1 DEF IInv, RxInv, BuffersConserved, rxVars
      <3> QED
        BY <1>1, <2>3, <3>1 DEF IInv, RxInv, rxVars
    <2>5. TypeOK'
      BY SMTT(30), <1>1, <2>1, <2>3 DEF IInv, TypeOK, rxVars, txVars, compVars, cmbVars
    <2> QED
      BY <1>2, <2>2, <2>4, <2>5 DEF IInv
  <1> QED
    BY <1>3, <1>4, <1>5 DEF Bus

\* Every step keeps the invariant.
LEMMA NextIInv == IInv /\ [Next]_vars => IInv'
  <1> SUFFICES ASSUME IInv, [Next]_vars PROVE IInv'
    OBVIOUS
  <1>0. irq \in SUBSET {"tx", "rx"} /\ keventd \in {"idle", "tx", "rx"}
    BY DEF IInv, TypeOK
  <1>1. CASE IsrTx \/ KeventdTx
    <2>1. /\ TxWork(worklist) /\ UNCHANGED Context /\ irq' \in SUBSET {"tx", "rx"}
          /\ keventd' \in {"idle", "tx", "rx"}
      BY <1>0, <1>1 DEF IsrTx, KeventdTx
    <2> QED
      BY <2>1, TxRun
  <1>2. CASE IsrRx \/ KeventdRx
    <2>1. /\ RxWork /\ UNCHANGED Context /\ irq' \in SUBSET {"tx", "rx"}
          /\ keventd' \in {"idle", "tx", "rx"}
      BY <1>0, <1>2 DEF IsrRx, KeventdRx
    <2> QED
      BY <2>1, RxRun
  <1>3. CASE KeventdTake \/ TimerFires
    BY <1>3, QueueStep
  <1>4. ASSUME NEW s \in Senders, Send(s) \/ \E n \in Lengths : SendCall(s, n)
        PROVE  IInv'
    BY <1>4, SendStep
  <1>5. ASSUME NEW r \in Readers, Read(r)
        PROVE  IInv'
    BY <1>5, ReadStep
  <1>6. CASE Control
    BY <1>6, ControlStep
  <1>7. CASE Bus
    BY <1>7, BusStep
  <1>8. CASE UNCHANGED vars
    <2>1. /\ UNCHANGED <<enabled, control, txVars, rxVars, compVars, workVars, keventd, txHwVars,
                         rxHw, irq, pc, cmbVars, sends, receives, disables, acked, late, timerLost,
                         taken, clobbered>>
      BY <1>8 DEF vars, boundVars
    <2>2. RxInv' /\ TxInv' /\ TakeInv'
      BY <2>1, RxFrame, TxFrame, TakeFrame DEF IInv, TypeOK, rxVars, txHwVars
    <2>3. TypeOK'
      BY <2>1 DEF IInv, TypeOK, rxVars, txVars, compVars, workVars, txHwVars, cmbVars
    <2> QED
      BY <2>2, <2>3 DEF IInv
  <1> QED
    BY <1>1, <1>2, <1>3, <1>4, <1>5, <1>6, <1>7, <1>8 DEF Next, Interrupt, Thread, Keventd

\* The invariant holds in every reachable state.
LEMMA Invariance == Spec => []IInv
  BY InitIInv, NextIInv, PTL DEF Spec

-----------------------------------------------------------------------------
(* The order of received messages. *)

\* Messages are queued and taken in the order of their numbers, and the one in
\* the FIFO of the receiver is newer than all of them.
OrderInv ==
  /\ \A i \in 1..Len(rxQueue) : taken < rxQueue[i] /\ rxQueue[i] <= receives
  /\ \A i, j \in 1..Len(rxQueue) : i < j => rxQueue[i] < rxQueue[j]
  /\ taken <= receives
  /\ rxState = "RCV" /\ rxHw = "eom" =>
       taken < receives /\ \A i \in 1..Len(rxQueue) : rxQueue[i] < receives

\* Steps that neither queue, take nor receive a message.
LEMMA OrderFrame ==
  ASSUME OrderInv, UNCHANGED <<rxQueue, taken, receives>>,
         rxState' = "RCV" /\ rxHw' = "eom" => rxState = "RCV" /\ rxHw = "eom"
  PROVE  OrderInv'
  BY DEF OrderInv

\* What is left after the oldest message has gone is still in order.
LEMMA OrderTail ==
  ASSUME NEW q \in Seq(1..MaxReceives), q # << >>,
         \A i, j \in 1..Len(q) : i < j => q[i] < q[j]
  PROVE  /\ \A i \in 1..Len(Tail(q)) : Head(q) < Tail(q)[i]
         /\ \A i \in 1..Len(Tail(q)) : \E k \in 1..Len(q) : Tail(q)[i] = q[k]
         /\ \A i, j \in 1..Len(Tail(q)) : i < j => Tail(q)[i] < Tail(q)[j]
  <1>1. /\ Head(q) = q[1] /\ Len(q) \in Nat \ {0} /\ Len(Tail(q)) = Len(q) - 1
        /\ \A i \in 1..Len(q) - 1 : Tail(q)[i] = q[i + 1]
    OBVIOUS
  <1>2. \A i \in 1..Len(Tail(q)) : i + 1 \in 1..Len(q) /\ 1 \in 1..Len(q) /\ 1 < i + 1
    BY <1>1
  <1> QED
    BY <1>1, <1>2

\* The receive worker queues what arrived as the newest message.
LEMMA OrderRxWork ==
  ASSUME IInv, OrderInv, RxWork, UNCHANGED <<taken, receives>>
  PROVE  OrderInv'
  <1> DEFINE arrived == IF RxArrived THEN Append(rxQueue, receives) ELSE rxQueue
  <1>1. /\ rxQueue \in Seq(1..MaxReceives) /\ receives \in 0..MaxReceives /\ MaxReceives \in Nat
        /\ taken \in 0..MaxReceives
    BY CECAssumption DEF IInv, TypeOK
  <1>2. RxArrived => receives \in 1..MaxReceives
    BY <1>1 DEF RxArrived, IInv, RxInv
  <1>3. /\ arrived \in Seq(1..MaxReceives)
        /\ \A i \in 1..Len(arrived) : taken < arrived[i] /\ arrived[i] <= receives
        /\ \A i, j \in 1..Len(arrived) : i < j => arrived[i] < arrived[j]
    <2>1. CASE RxArrived
      <3>1. PICK n \in Nat : n = Len(rxQueue)
        BY <1>1, LenProperties
      <3>2. PICK a \in Seq(1..MaxReceives) : a = Append(rxQueue, receives)
        BY <1>1, <1>2, <2>1, AppendFacts
      <3>3. /\ Len(a) = n + 1 /\ a[n + 1] = receives
            /\ \A i \in 1..n : a[i] = rxQueue[i]
        BY <1>1, <1>2, <2>1, <3>1, <3>2, AppendFacts
      <3>4. \A i \in 1..n : taken < a[i] /\ a[i] < receives /\ a[i] <= receives
        BY <1>1, <2>1, <3>1, <3>3 DEF OrderInv, RxArrived
      <3>5. taken < receives
        BY <2>1 DEF OrderInv, RxArrived
      <3>6. \A i \in 1..n + 1 : taken < a[i] /\ a[i] <= receives
        BY <1>1, <3>3, <3>4, <3>5
      <3>7. \A i, j \in 1..n + 1 : i < j => a[i] < a[j]
        <4> SUFFICES ASSUME NEW i \in 1..n + 1, NEW j \in 1..n + 1, i < j
                     PROVE  a[i] < a[j]
          OBVIOUS
        <4>1. i \in 1..n
          OBVIOUS
        <4>2. CASE j = n + 1
          BY <3>3, <3>4, <4>1, <4>2
        <4>3. CASE j \in 1..n
          BY <3>1, <3>3, <4>1, <4>3 DEF OrderInv
        <4> QED
          BY <4>2, <4>3
      <3> QED
        BY <2>1, <3>2, <3>3, <3>6, <3>7
    <2>2. CASE ~RxArrived
      BY <1>1, <2>2 DEF OrderInv
    <2> QED
      BY <2>1, <2>2
  <1>4. PICK a \in Seq(1..MaxReceives) : a = arrived
    BY <1>3
  <1>5. rxQueue' = a \/ (a # << >> /\ rxQueue' = Tail(a))
    BY <1>4 DEF RxWork
  <1>6. ~(rxState' = "RCV" /\ rxHw' = "eom")
    <2>1. CASE RxRestart
      <3>1. /\ rxHw' = IF rxCmb' THEN "run" ELSE rxHw
            /\ rxState' = IF rxCmb' THEN "RCV" ELSE "IDEL"
        BY <2>1 DEF RxWork
      <3> QED
        BY <3>1
    <2>2. CASE ~RxRestart
      <3>1. /\ rxState' = IF rxEnable /\ rxHw = "run" THEN rxState ELSE "IDEL"
            /\ rxHw' = IF ~rxEnable /\ rxState = "RCV" THEN "off" ELSE rxHw
        BY <2>2 DEF RxWork
      <3> QED
        BY <3>1
    <2> QED
      BY <2>1, <2>2
  <1> HIDE DEF arrived
  <1>7. CASE rxQueue' = a
    BY <1>3, <1>4, <1>6, <1>7 DEF OrderInv
  <1>8. CASE a # << >> /\ rxQueue' = Tail(a)
    <2>1. /\ \A i \in 1..Len(Tail(a)) : \E k \in 1..Len(a) : Tail(a)[i] = a[k]
          /\ \A i, j \in 1..Len(Tail(a)) : i < j => Tail(a)[i] < Tail(a)[j]
      BY <1>3, <1>4, <1>8, OrderTail
    <2> QED
      BY <1>3, <1>4, <1>6, <1>8, <2>1 DEF OrderInv
  <1> QED
    BY <1>5, <1>7, <1>8

\* Every step keeps the order.
LEMMA OrderNext == IInv /\ OrderInv /\ [Next]_vars => OrderInv'
  <1> SUFFICES ASSUME IInv, OrderInv, [Next]_vars PROVE OrderInv'
    OBVIOUS
  <1>1. CASE IsrTx \/ KeventdTx
    <2>1. TxWork(worklist) /\ UNCHANGED <<taken, receives>>
      BY <1>1 DEF IsrTx, KeventdTx, Context, boundVars
    <2>2. UNCHANGED rxQueue /\ rxState' \in {rxState, "IDEL"} /\ rxHw' \in {rxHw, "off"}
      BY <2>1 DEF TxWork
    <2> QED
      BY <2>1, <2>2, OrderFrame
  <1>2. CASE IsrRx \/ KeventdRx
    <2>1. RxWork /\ UNCHANGED <<taken, receives>>
      BY <1>2 DEF IsrRx, KeventdRx, Context, boundVars
    <2> QED
      BY <2>1, OrderRxWork
  <1>3. CASE KeventdTake \/ TimerFires
    <2>1. UNCHANGED <<rxQueue, taken, receives, rxState, rxHw>>
      BY <1>3 DEF KeventdTake, TimerFires, Context, boundVars, rxVars
    <2> QED
      BY <2>1, OrderFrame
  <1>4. ASSUME NEW s \in Senders, Send(s) \/ \E n \in Lengths : SendCall(s, n)
        PROVE  OrderInv'
    <2>1. UNCHANGED <<rxQueue, taken, receives, rxState, rxHw>>
      BY <1>4 DEF Send, SendCall, SendQueue, SendSchedule, SendReturn, Driver, boundVars, rxVars
    <2> QED
      BY <2>1, OrderFrame
  <1>5. ASSUME NEW r \in Readers, Read(r)
        PROVE  OrderInv'
    <2>1. UNCHANGED <<receives, rxState, rxHw>>
      BY <1>5 DEF Read, ReadTest, ReadWait, ReadWoken, ReadTake, ReadRefill, ReadFrame, boundVars
    <2>2. CASE UNCHANGED <<rxQueue, taken>>
      BY <2>1, <2>2, OrderFrame
    <2>3. CASE rxQueue # << >> /\ rxQueue' = Tail(rxQueue) /\ taken' = Head(rxQueue)
      <3>1. rxQueue \in Seq(1..MaxReceives) /\ \A i, j \in 1..Len(rxQueue) : i < j => rxQueue[i] < rxQueue[j]
        BY DEF IInv, TypeOK, OrderInv
      <3>2. /\ \A i \in 1..Len(Tail(rxQueue)) : Head(rxQueue) < Tail(rxQueue)[i]
            /\ \A i \in 1..Len(Tail(rxQueue)) : \E k \in 1..Len(rxQueue) : Tail(rxQueue)[i] = rxQueue[k]
            /\ \A i, j \in 1..Len(Tail(rxQueue)) : i < j => Tail(rxQueue)[i] < Tail(rxQueue)[j]
        BY <2>3, <3>1, OrderTail
      <3>3. Head(rxQueue) = rxQueue[1] /\ 1 \in 1..Len(rxQueue)
        BY <2>3, <3>1
      <3> QED
        BY <2>1, <2>3, <3>2, <3>3 DEF OrderInv
    <2> QED
      BY <1>5, <2>2, <2>3 DEF Read, ReadTest, ReadWait, ReadWoken, ReadTake, ReadRefill
  <1>6. CASE Control
    <2>1. UNCHANGED <<taken, receives>>
      BY <1>6 DEF Control, EnableCall, RxStart, TxStart, EnableDone, DisableCall, RxStop, TxStop, CtlFrame
    <2>2. CASE RxStop
      <3>1. CASE rxEnable
        <4>1. rxQueue' = << >> /\ rxHw' = "off"
          BY <2>2, <3>1 DEF RxStop
        <4> QED
          BY <2>1, <4>1 DEF OrderInv
      <3>2. CASE ~rxEnable
        <4>1. UNCHANGED <<rxQueue, rxState, rxHw>>
          BY <2>2, <3>2 DEF RxStop, rxVars
        <4> QED
          BY <2>1, <4>1, OrderFrame
      <3> QED
        BY <3>1, <3>2
    <2>3. CASE EnableCall \/ RxStart \/ TxStart \/ EnableDone \/ DisableCall \/ TxStop
      <3>1. UNCHANGED rxQueue /\ rxState' \in {rxState, "IDEL"} /\ rxHw' \in {rxHw, "off"}
        BY <2>3 DEF EnableCall, RxStart, TxStart, EnableDone, DisableCall, TxStop, rxVars
      <3> QED
        BY <2>1, <3>1, OrderFrame
    <2> QED
      BY <1>6, <2>2, <2>3 DEF Control
  <1>7. CASE Bus
    <2>1. UNCHANGED <<rxQueue, taken, rxState>>
      BY <1>7 DEF Bus, BusTxDrained, BusTxEnd, BusRxEnd, Elapse, BusFrame, rxVars
    <2>2. CASE UNCHANGED <<receives, rxHw>>
      BY <2>1, <2>2, OrderFrame
    <2>3. CASE receives' = receives + 1
      <3>1. /\ receives \in Nat /\ taken \in Nat /\ \A i \in 1..Len(rxQueue) : rxQueue[i] \in Nat
        BY CECAssumption DEF IInv, TypeOK
      <3> QED
        BY <2>1, <2>3, <3>1 DEF OrderInv
    <2> QED
      BY <1>7, <2>2, <2>3 DEF Bus, BusTxDrained, BusTxEnd, BusRxEnd, Elapse
  <1>8. CASE UNCHANGED vars
    BY <1>8, OrderFrame DEF vars, boundVars, rxVars
  <1> QED
    BY <1>1, <1>2, <1>3, <1>4, <1>5, <1>6, <1>7, <1>8 DEF Next, Interrupt, Thread, Keventd

-----------------------------------------------------------------------------
(* The properties. *)

\* Every variable keeps its type, and no more buffers are free than there are.
THEOREM TypeCorrect == Spec => []TypeOK
  <1>1. IInv => TypeOK
    BY DEF IInv
  <1> QED
    BY <1>1, Invariance, PTL

\* rx_free_queue, rcv.list, rcv.cmb and the readers share the RX_RING_LENGTH
\* buffers, across overruns, disabling and enabling.
THEOREM BuffersKept == Spec => []BuffersConserved
  <1>1. IInv => BuffersConserved
    BY DEF IInv, RxInv
  <1> QED
    BY <1>1, Invariance, PTL

\* xmit.cmb and xmit.list hold only messages whose sender still waits in
\* mars_cec_xmit_message, each of them once.
THEOREM NoUseAfterReturn == Spec => []NoDanglingBuffer
  <1>1. IInv => NoDanglingBuffer
    BY DEF IInv, TxInv
  <1> QED
    BY <1>1, Invariance, PTL

\* mars_cec_tx_work answers "ok" only to a message the bus accepted whole.
THEOREM SuccessIsReal == Spec => []SuccessMeansSent
  <1>1. IInv => SuccessMeansSent
    BY DEF IInv, TxInv
  <1> QED
    BY <1>1, Invariance, PTL

\* A disabled transmitter owes no answer, except to a sender that passed the
\* test of xmit.enable before the abort and queued its message after it.
THEOREM DisableAnswers == Spec => []DisableEndsSends
  <1>1. ASSUME IInv PROVE DisableEndsSends
    <2> SUFFICES ASSUME ~txEnable, NEW s \in Senders, pc[s] \in {"schedule", "wait"}
                 PROVE  s \in completed \cup late
      BY DEF DisableEndsSends
    <2>1. s \in completed \/ s = txCmb \/ InQueue(s)
      BY <1>1 DEF IInv, TxInv, WaitInv
    <2>2. s # txCmb
      BY <1>1, CECAssumption DEF IInv, TxInv, IdleInv
    <2>3. InQueue(s) => s \in late
      BY <1>1 DEF IInv, TxInv, IdleInv, InQueue
    <2> QED
      BY <2>1, <2>2, <2>3
  <1> QED
    BY <1>1, Invariance, PTL

\* A lone reader that saw rcv.list not empty finds a message when it takes one,
\* although mars_cec_rx_work takes the oldest back when the free queue is empty.
THEOREM LoneReaderServed == Spec => []ReaderFindsMessage
  <1>1. ASSUME IInv PROVE ReaderFindsMessage
    <2> SUFFICES ASSUME Cardinality(Readers) = 1, disables = 0, NEW r \in Readers, pc[r] = "take"
                 PROVE  rxQueue # << >>
      BY DEF ReaderFindsMessage
    <2>1. Readers = {r}
      <3>1. IsFiniteSet(Readers)
        BY CECAssumption
      <3>2. PICK x : Readers = {x}
        BY <3>1, FS_Singleton
      <3> QED
        BY <3>2
    <2> QED
      BY <1>1, <2>1 DEF IInv, TakeInv
  <1> QED
    BY <1>1, Invariance, PTL

\* rcv.list is read in the order of arrival, no message twice, over overruns,
\* restarts of the receiver, stops and starts, and any number of readers.
THEOREM InOrder == Spec => []ReadInOrder
  <1>1. Init => OrderInv
    BY CECAssumption DEF Init, OrderInv
  <1>2. OrderInv => ReadInOrder
    BY DEF OrderInv, ReadInOrder, RxArrived
  <1> QED
    BY <1>1, <1>2, OrderNext, Invariance, PTL DEF Spec
=============================================================================
