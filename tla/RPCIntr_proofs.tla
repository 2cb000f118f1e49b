--------------------------- MODULE RPCIntr_proofs ---------------------------
(***************************************************************************)
(* Proofs about RPCIntr for any number of processors, readers and kernel   *)
(* threads, any traffic and any pattern of signals, freezes and timeouts.  *)
(* Nothing is assumed of the scheduler; that the wake-up that is on its    *)
(* way arrives is liveness and is checked by the run rpc_intr_live.        *)
(***************************************************************************)
EXTENDS RPCIntr, TLAPS

-----------------------------------------------------------------------------
(* The inductive invariant. *)

\* Where a reader of an interrupt device holds its readSem.
Holding == {"check", "wait", "prepare", "test", "sleep", "woken", "restart",
            "frozen", "take", "out"}

\* A device has one reader at a time between down and up, waits included.
SemInv ==
  /\ \A r \in IntrReaders : pc[r] \in Holding => readSem[SideOf[r]] = 0
  /\ \A q, r \in IntrReaders :
       pc[q] \in Holding /\ pc[r] \in Holding /\ SideOf[q] = SideOf[r] => q = r

\* A thread past its wait has data, or has still to see what ended the wait.
DataInv ==
  /\ TakeFindsData
  /\ \A t \in Threads : pc[t] = "woken" => ring[Dev(t)] > 0
  /\ \A r \in IntrReaders : pc[r] = "restart" => SignalPending(r)

\* A task that is not runnable is on the queue of its own device.
QueueInv ==
  \A t \in Threads : state[t] = "interruptible" => t \in waitQueue[Dev(t)]

IInv == TypeOK /\ SemInv /\ DataInv /\ QueueInv /\ NoLostWakeup

-----------------------------------------------------------------------------
(* Devices. *)

\* Every thread has a device of its side; readers share one with the readers of
\* that side only, and a kernel thread has its own.
LEMMA DevFacts ==
  /\ \A t \in Threads : Dev(t) \in Devs /\ SideOf[t] \in Sides
  /\ \A t \in Threads : Dev(t) \in {<<SideOf[t], "intr">>, <<SideOf[t], "kern">>}
  /\ \A q, r \in IntrReaders : Dev(q) = Dev(r) => SideOf[q] = SideOf[r]
  /\ \A r \in IntrReaders, k \in KernThreads : Dev(r) # Dev(k)
  /\ \A j, k \in KernThreads : Dev(j) = Dev(k) => j = k
  /\ \A s \in Sides : <<s, "intr">> \in Devs /\ <<s, "kern">> \in Devs
  BY IntrAssumption DEF Dev, Devs, Threads

-----------------------------------------------------------------------------
(* The invariant holds initially and is preserved. *)

\* At the start every ring is empty and nobody waits.
LEMMA InitIInv == Init => IInv
  <1> SUFFICES ASSUME Init PROVE IInv
    OBVIOUS
  <1>1. TypeOK
    BY DEF Init, TypeOK, Labels, Threads
  <1>2. SemInv /\ DataInv
    BY IntrAssumption DEF Init, SemInv, Holding, DataInv, TakeFindsData, Threads
  <1>3. QueueInv /\ NoLostWakeup
    BY DEF Init, QueueInv, NoLostWakeup, Asleep
  <1> QED
    BY <1>1, <1>2, <1>3 DEF IInv

\* No step of a processor, the handler, a thread or the environment breaks it.
LEMMA NextIInv == IInv /\ [Next]_vars => IInv'
  <1> SUFFICES ASSUME IInv, [Next]_vars PROVE IInv'
    OBVIOUS
  <1> USE DEF IInv
  <1>t. TypeOK
    OBVIOUS
  <1>d. /\ \A r \in IntrReaders : r \in Threads /\ r \notin KernThreads
        /\ \A k \in KernThreads : k \in Threads /\ k \notin IntrReaders
    BY IntrAssumption DEF Threads
  <1>s. \A s \in Sides : s # "off" /\ s # "scan"
    BY IntrAssumption
  <1>0. CASE UNCHANGED vars
    <2> USE <1>0 DEF vars
    <2>1. TypeOK' /\ SemInv' /\ QueueInv'
      BY <1>t DEF TypeOK, SemInv, QueueInv
    <2>2. DataInv' /\ NoLostWakeup'
      BY DEF DataInv, TakeFindsData, SignalPending, NoLostWakeup, Asleep
    <2> QED
      BY <2>1, <2>2
  <1>1. ASSUME NEW s \in Sides, NEW kind \in {"intr", "kern"}, RemotePublish(s, kind) PROVE IInv'
    <2> USE <1>1 DEF RemotePublish, At, Goto, HwVars, DriverVars
    <2>d. PICK e \in Devs : e = <<s, kind>>
      BY DEF Devs
    <2>e. ring[e] \in Nat /\ ring' = [ring EXCEPT ![e] = ring[e] + 1]
      BY <2>d DEF TypeOK
    <2>r. ring' \in [Devs -> Nat] /\ \A d \in Devs : ring'[d] >= ring[d]
      BY SMTT(30), <2>e DEF TypeOK
    <2>1. TypeOK'
      BY <1>t, <2>r DEF TypeOK
    <2>2. SemInv'
      BY <1>t, <1>d DEF TypeOK, SemInv, Holding
    <2>3. DataInv'
      <3>1. \A t \in Threads : ring[Dev(t)] > 0 => ring'[Dev(t)] > 0
        BY <2>r, DevFacts DEF TypeOK
      <3> QED
        BY <1>d, <3>1 DEF DataInv, TakeFindsData, SignalPending
    <2>4. QueueInv'
      BY <1>t, <1>d, DevFacts DEF TypeOK, QueueInv
    <2>5. NoLostWakeup'
      BY <1>t, <1>s, DevFacts DEF TypeOK, NoLostWakeup, Asleep
    <2> QED
      BY <2>1, <2>2, <2>3, <2>4, <2>5
  <1>2. ASSUME NEW s \in Sides, RemoteRing(s) PROVE IInv'
    <2> USE <1>2 DEF RemoteRing, At, Goto, HwVars, DriverVars
    <2>1. TypeOK'
      BY <1>t, <1>d, DevFacts DEF TypeOK, Labels, SemInv, Holding, DataInv
    <2>2. SemInv'
      BY <1>t, <1>d DEF TypeOK, SemInv, Holding
    <2>3. DataInv'
      BY <1>t, <1>d, DevFacts DEF TypeOK, DataInv, TakeFindsData, SignalPending
    <2>4. QueueInv'
      BY <1>t, <1>d, DevFacts DEF TypeOK, QueueInv
    <2>5. NoLostWakeup'
      BY <1>t, <1>s, DevFacts DEF TypeOK, NoLostWakeup, Asleep
    <2> QED
      BY <2>1, <2>2, <2>3, <2>4, <2>5
  <1>3. ASSUME IsrEnter PROVE IInv'
    <2> USE <1>3 DEF IsrEnter, At, Goto, HwVars, DriverVars
    <2>1. TypeOK'
      BY <1>t, <1>d, DevFacts DEF TypeOK, Labels, SemInv, Holding, DataInv
    <2>2. SemInv'
      BY <1>t, <1>d DEF TypeOK, SemInv, Holding
    <2>3. DataInv'
      BY <1>t, <1>d, DevFacts DEF TypeOK, DataInv, TakeFindsData, SignalPending
    <2>4. QueueInv'
      BY <1>t, <1>d, DevFacts DEF TypeOK, QueueInv
    <2>5. NoLostWakeup'
      BY <1>t, <1>s, DevFacts DEF TypeOK, NoLostWakeup, Asleep
    <2> QED
      BY <2>1, <2>2, <2>3, <2>4, <2>5
  <1>4. ASSUME NEW s \in Sides, IsrAck(s) PROVE IInv'
    <2> USE <1>4 DEF IsrAck, At, Goto, HwVars, DriverVars
    <2>1. TypeOK'
      BY <1>t, <1>d, DevFacts DEF TypeOK, Labels, SemInv, Holding, DataInv
    <2>2. SemInv'
      BY <1>t, <1>d DEF TypeOK, SemInv, Holding
    <2>3. DataInv'
      BY <1>t, <1>d, DevFacts DEF TypeOK, DataInv, TakeFindsData, SignalPending
    <2>4. QueueInv'
      BY <1>t, <1>d, DevFacts DEF TypeOK, QueueInv
    <2>5. NoLostWakeup'
      BY <1>t, <1>s, DevFacts DEF TypeOK, NoLostWakeup, Asleep
    <2> QED
      BY <2>1, <2>2, <2>3, <2>4, <2>5
  <1>5. ASSUME NEW s \in Sides, IsrWake(s) PROVE IInv'
    <2> USE <1>5 DEF IsrWake, At, Goto, HwVars, DriverVars
    <2>1. TypeOK'
      BY <1>t, <1>d, DevFacts DEF TypeOK, Labels, SemInv, Holding, DataInv
    <2>2. SemInv'
      BY <1>t, <1>d DEF TypeOK, SemInv, Holding
    <2>3. DataInv'
      BY <1>t, <1>d, DevFacts DEF TypeOK, DataInv, TakeFindsData, SignalPending
    <2>a. \A t \in Threads : SideOf[t] = s => state'[t] = "running"
      BY DevFacts DEF TypeOK, QueueInv, Woken
    <2>b. \A t \in Threads : SideOf[t] # s => waitQueue'[Dev(t)] = waitQueue[Dev(t)]
      <3> SUFFICES ASSUME NEW t \in Threads, SideOf[t] # s
                   PROVE  waitQueue'[Dev(t)] = waitQueue[Dev(t)]
        OBVIOUS
      <3>1. Dev(t) # <<s, "intr">> /\ Dev(t) # <<s, "kern">>
        BY DevFacts
      <3> QED
        BY <3>1, DevFacts DEF TypeOK
    <2>4. QueueInv'
      BY <2>a, <2>b DEF TypeOK, QueueInv
    <2>5. NoLostWakeup'
      BY <2>a, <1>s DEF TypeOK, NoLostWakeup, Asleep
    <2> QED
      BY <2>1, <2>2, <2>3, <2>4, <2>5
  <1>6. ASSUME IsrReread PROVE IInv'
    <2> USE <1>6 DEF IsrReread, At, Goto, HwVars, DriverVars
    <2>1. TypeOK'
      BY <1>t, <1>d, DevFacts DEF TypeOK, Labels, SemInv, Holding, DataInv
    <2>2. SemInv'
      BY <1>t, <1>d DEF TypeOK, SemInv, Holding
    <2>3. DataInv'
      BY <1>t, <1>d, DevFacts DEF TypeOK, DataInv, TakeFindsData, SignalPending
    <2>4. QueueInv'
      BY <1>t, <1>d, DevFacts DEF TypeOK, QueueInv
    <2>5. NoLostWakeup'
      BY <1>t, <1>s, DevFacts DEF TypeOK, NoLostWakeup, Asleep
    <2> QED
      BY <2>1, <2>2, <2>3, <2>4, <2>5
  <1>7. ASSUME NEW t \in Threads, Wait(t) PROVE IInv'
    <2> USE <1>7 DEF Wait, At, Goto, HwVars, DriverVars
    <2>1. TypeOK'
      BY <1>t, <1>d, DevFacts DEF TypeOK, Labels, SemInv, Holding, DataInv
    <2>2. SemInv'
      BY <1>t, <1>d DEF TypeOK, SemInv, Holding
    <2>3. DataInv'
      BY <1>t, <1>d, DevFacts DEF TypeOK, DataInv, TakeFindsData, SignalPending
    <2>4. QueueInv'
      BY <1>t, <1>d, DevFacts DEF TypeOK, QueueInv
    <2>5. NoLostWakeup'
      BY <1>t, <1>s, DevFacts DEF TypeOK, NoLostWakeup, Asleep
    <2> QED
      BY <2>1, <2>2, <2>3, <2>4, <2>5
  <1>8. ASSUME NEW t \in Threads, PrepareToWait(t) PROVE IInv'
    <2> USE <1>8 DEF PrepareToWait, At, Goto, HwVars, DriverVars
    <2>1. TypeOK'
      BY <1>t, <1>d, DevFacts DEF TypeOK, Labels, SemInv, Holding, DataInv
    <2>2. SemInv'
      BY <1>t, <1>d DEF TypeOK, SemInv, Holding
    <2>3. DataInv'
      BY <1>t, <1>d, DevFacts DEF TypeOK, DataInv, TakeFindsData, SignalPending
    <2>4. QueueInv'
      BY <1>t, <1>d, DevFacts DEF TypeOK, QueueInv
    <2>5. NoLostWakeup'
      BY <1>t, <1>s, DevFacts DEF TypeOK, NoLostWakeup, Asleep
    <2> QED
      BY <2>1, <2>2, <2>3, <2>4, <2>5
  <1>9. ASSUME NEW t \in Threads, WaitTest(t) PROVE IInv'
    <2> USE <1>9 DEF WaitTest, At, Goto, HwVars, DriverVars, FinishWait
    <2>1. TypeOK'
      BY <1>t, <1>d, DevFacts DEF TypeOK, Labels, SemInv, Holding, DataInv
    <2>2. SemInv'
      BY <1>t, <1>d DEF TypeOK, SemInv, Holding
    <2>3. DataInv'
      BY <1>t, <1>d, DevFacts DEF TypeOK, DataInv, TakeFindsData, SignalPending
    <2>4. QueueInv'
      BY <1>t, <1>d, DevFacts DEF TypeOK, QueueInv
    <2>5. NoLostWakeup'
      BY <1>t, <1>s, DevFacts DEF TypeOK, NoLostWakeup, Asleep
    <2> QED
      BY <2>1, <2>2, <2>3, <2>4, <2>5
  <1>10. ASSUME NEW t \in Threads, Resume(t) PROVE IInv'
    <2> USE <1>10 DEF Resume, At, Goto, HwVars, DriverVars
    <2>1. TypeOK'
      BY <1>t, <1>d, DevFacts DEF TypeOK, Labels, SemInv, Holding, DataInv
    <2>2. SemInv'
      BY <1>t, <1>d DEF TypeOK, SemInv, Holding
    <2>3. DataInv'
      BY <1>t, <1>d, DevFacts DEF TypeOK, DataInv, TakeFindsData, SignalPending
    <2>4. QueueInv'
      BY <1>t, <1>d, DevFacts DEF TypeOK, QueueInv
    <2>5. NoLostWakeup'
      BY <1>t, <1>s, DevFacts DEF TypeOK, NoLostWakeup, Asleep
    <2> QED
      BY <2>1, <2>2, <2>3, <2>4, <2>5
  <1>11. ASSUME NEW r \in IntrReaders, Timeout(r) PROVE IInv'
    <2> USE <1>11 DEF Timeout, At, Goto, HwVars, DriverVars, FinishWait
    <2>1. TypeOK'
      BY <1>t, <1>d, DevFacts DEF TypeOK, Labels, SemInv, Holding, DataInv
    <2>2. SemInv'
      BY <1>t, <1>d DEF TypeOK, SemInv, Holding
    <2>3. DataInv'
      BY <1>t, <1>d, DevFacts DEF TypeOK, DataInv, TakeFindsData, SignalPending
    <2>4. QueueInv'
      BY <1>t, <1>d, DevFacts DEF TypeOK, QueueInv
    <2>5. NoLostWakeup'
      BY <1>t, <1>s, DevFacts DEF TypeOK, NoLostWakeup, Asleep
    <2> QED
      BY <2>1, <2>2, <2>3, <2>4, <2>5
  <1>12. ASSUME NEW r \in IntrReaders, NEW nb \in BOOLEAN, ReadCall(r, nb) PROVE IInv'
    <2> USE <1>12 DEF ReadCall, At, Goto, HwVars, DriverVars
    <2>1. TypeOK'
      BY <1>t, <1>d, DevFacts DEF TypeOK, Labels, SemInv, Holding, DataInv
    <2>2. SemInv'
      BY <1>t, <1>d DEF TypeOK, SemInv, Holding
    <2>3. DataInv'
      BY <1>t, <1>d, DevFacts DEF TypeOK, DataInv, TakeFindsData, SignalPending
    <2>4. QueueInv'
      BY <1>t, <1>d, DevFacts DEF TypeOK, QueueInv
    <2>5. NoLostWakeup'
      BY <1>t, <1>s, DevFacts DEF TypeOK, NoLostWakeup, Asleep
    <2> QED
      BY <2>1, <2>2, <2>3, <2>4, <2>5
  <1>13. ASSUME NEW r \in IntrReaders, ReadDown(r) PROVE IInv'
    <2> USE <1>13 DEF ReadDown, At, Goto, HwVars, DriverVars
    <2>1. TypeOK'
      BY <1>t, <1>d, DevFacts DEF TypeOK, Labels, SemInv, Holding, DataInv
    <2>2. SemInv'
      <3>1. readSem[SideOf[r]] = 1 /\ SideOf[r] \in Sides
        BY <1>d, DevFacts DEF TypeOK
      <3>2. readSem'[SideOf[r]] = 0
        BY <3>1 DEF TypeOK
      <3>3. \A q \in IntrReaders : SideOf[q] = SideOf[r] => pc[q] \notin Holding
        BY <3>1 DEF SemInv
      <3>4. \A q \in IntrReaders : q # r => pc'[q] = pc[q]
        BY <1>d DEF TypeOK
      <3>5. \A q \in IntrReaders : SideOf[q] # SideOf[r] => readSem'[SideOf[q]] = readSem[SideOf[q]]
        BY <1>d, DevFacts DEF TypeOK
      <3> QED
        BY <3>2, <3>3, <3>4, <3>5 DEF SemInv
    <2>3. DataInv'
      BY <1>t, <1>d, DevFacts DEF TypeOK, DataInv, TakeFindsData, SignalPending
    <2>4. QueueInv'
      BY <1>t, <1>d, DevFacts DEF TypeOK, QueueInv
    <2>5. NoLostWakeup'
      BY <1>t, <1>s, DevFacts DEF TypeOK, NoLostWakeup, Asleep
    <2> QED
      BY <2>1, <2>2, <2>3, <2>4, <2>5
  <1>14. ASSUME NEW r \in IntrReaders, DownInterrupted(r) PROVE IInv'
    <2> USE <1>14 DEF DownInterrupted, At, Goto, HwVars, DriverVars
    <2>1. TypeOK'
      BY <1>t, <1>d, DevFacts DEF TypeOK, Labels, SemInv, Holding, DataInv
    <2>2. SemInv'
      BY <1>t, <1>d DEF TypeOK, SemInv, Holding
    <2>3. DataInv'
      BY <1>t, <1>d, DevFacts DEF TypeOK, DataInv, TakeFindsData, SignalPending
    <2>4. QueueInv'
      BY <1>t, <1>d, DevFacts DEF TypeOK, QueueInv
    <2>5. NoLostWakeup'
      BY <1>t, <1>s, DevFacts DEF TypeOK, NoLostWakeup, Asleep
    <2> QED
      BY <2>1, <2>2, <2>3, <2>4, <2>5
  <1>15. ASSUME NEW r \in IntrReaders, ReadCheck(r) PROVE IInv'
    <2> USE <1>15 DEF ReadCheck, At, Goto, HwVars, DriverVars
    <2>1. TypeOK'
      BY <1>t, <1>d, DevFacts DEF TypeOK, Labels, SemInv, Holding, DataInv
    <2>2. SemInv'
      BY <1>t, <1>d DEF TypeOK, SemInv, Holding
    <2>3. DataInv'
      BY <1>t, <1>d, DevFacts DEF TypeOK, DataInv, TakeFindsData, SignalPending
    <2>4. QueueInv'
      BY <1>t, <1>d, DevFacts DEF TypeOK, QueueInv
    <2>5. NoLostWakeup'
      BY <1>t, <1>s, DevFacts DEF TypeOK, NoLostWakeup, Asleep
    <2> QED
      BY <2>1, <2>2, <2>3, <2>4, <2>5
  <1>16. ASSUME NEW r \in IntrReaders, AfterWait(r) PROVE IInv'
    <2> USE <1>16 DEF AfterWait, At, Goto, HwVars, DriverVars
    <2>1. TypeOK'
      <3>1. freeze' \in [Threads -> BOOLEAN]
        <4>1. CASE freeze[r]
          BY <4>1, <1>t DEF TypeOK
        <4>2. CASE ~freeze[r]
          BY <4>2, <1>t DEF TypeOK
        <4> QED
          BY <4>1, <4>2
      <3>2. pc' \in [Threads -> Labels]
        BY <1>t DEF TypeOK, Labels
      <3> QED
        BY <1>t, <3>1, <3>2 DEF TypeOK
    <2>2. SemInv'
      BY <1>t, <1>d DEF TypeOK, SemInv, Holding
    <2>3. DataInv'
      BY <1>t, <1>d, DevFacts DEF TypeOK, DataInv, TakeFindsData, SignalPending
    <2>4. QueueInv'
      BY <1>t, <1>d, DevFacts DEF TypeOK, QueueInv
    <2>5. NoLostWakeup'
      BY <1>t, <1>s, DevFacts DEF TypeOK, NoLostWakeup, Asleep
    <2> QED
      BY <2>1, <2>2, <2>3, <2>4, <2>5
  <1>17. ASSUME NEW r \in IntrReaders, Thawed(r) PROVE IInv'
    <2> USE <1>17 DEF Thawed, At, Goto, HwVars, DriverVars
    <2>1. TypeOK'
      BY <1>t, <1>d, DevFacts DEF TypeOK, Labels, SemInv, Holding, DataInv
    <2>2. SemInv'
      BY <1>t, <1>d DEF TypeOK, SemInv, Holding
    <2>3. DataInv'
      BY <1>t, <1>d, DevFacts DEF TypeOK, DataInv, TakeFindsData, SignalPending
    <2>4. QueueInv'
      BY <1>t, <1>d, DevFacts DEF TypeOK, QueueInv
    <2>5. NoLostWakeup'
      BY <1>t, <1>s, DevFacts DEF TypeOK, NoLostWakeup, Asleep
    <2> QED
      BY <2>1, <2>2, <2>3, <2>4, <2>5
  <1>18. ASSUME NEW r \in IntrReaders, Take(r) PROVE IInv'
    <2> USE <1>18 DEF Take, At, Goto, HwVars, DriverVars
    <2>r. /\ ring[Dev(r)] \in Nat \ {0} /\ Dev(r) \in Devs
      BY <1>d, DevFacts DEF TypeOK, DataInv, TakeFindsData
    <2>a. /\ ring' \in [Devs -> Nat]
          /\ \A d \in Devs : d # Dev(r) => ring'[d] = ring[d]
      BY <2>r DEF TypeOK
    <2>1. TypeOK'
      BY <1>t, <2>a DEF TypeOK, Labels
    <2>2. SemInv'
      BY <1>t, <1>d DEF TypeOK, SemInv, Holding
    <2>3. DataInv'
      <3>1. \A t \in Threads : t # r /\ pc[t] \in {"woken", "take"} => Dev(t) # Dev(r) \/ pc[t] \notin Holding
        BY <1>d, DevFacts DEF Threads, SemInv, Holding
      <3>2. \A t \in Threads : t # r => pc'[t] = pc[t]
        BY DEF TypeOK
      <3>3. pc'[r] = "out"
        BY <1>d DEF TypeOK
      <3>4. \A t \in Threads : pc'[t] \in {"woken", "take"} => ring'[Dev(t)] = ring[Dev(t)]
        BY <3>1, <3>2, <3>3, <2>a, DevFacts DEF Holding
      <3> QED
        BY <1>d, <3>2, <3>3, <3>4 DEF DataInv, TakeFindsData, SignalPending
    <2>4. QueueInv'
      BY <1>t, <1>d, DevFacts DEF TypeOK, QueueInv
    <2>5. NoLostWakeup'
      BY <1>t, <1>s, DevFacts DEF TypeOK, NoLostWakeup, Asleep
    <2> QED
      BY <2>1, <2>2, <2>3, <2>4, <2>5
  <1>19. ASSUME NEW r \in IntrReaders, ReadOut(r) PROVE IInv'
    <2> USE <1>19 DEF ReadOut, At, Goto, HwVars, DriverVars
    <2>1. TypeOK'
      BY <1>t, <1>d, DevFacts DEF TypeOK, Labels, SemInv, Holding, DataInv
    <2>2. SemInv'
      BY <1>t, <1>d DEF TypeOK, SemInv, Holding
    <2>3. DataInv'
      BY <1>t, <1>d, DevFacts DEF TypeOK, DataInv, TakeFindsData, SignalPending
    <2>4. QueueInv'
      BY <1>t, <1>d, DevFacts DEF TypeOK, QueueInv
    <2>5. NoLostWakeup'
      BY <1>t, <1>s, DevFacts DEF TypeOK, NoLostWakeup, Asleep
    <2> QED
      BY <2>1, <2>2, <2>3, <2>4, <2>5
  <1>20. ASSUME NEW k \in KernThreads, KernTop(k) PROVE IInv'
    <2> USE <1>20 DEF KernTop, At, Goto, HwVars, DriverVars
    <2>1. TypeOK'
      <3>1. freeze' \in [Threads -> BOOLEAN]
        <4>1. CASE freeze[k]
          BY <4>1, <1>t DEF TypeOK
        <4>2. CASE ~freeze[k]
          BY <4>2, <1>t DEF TypeOK
        <4> QED
          BY <4>1, <4>2
      <3>2. pc' \in [Threads -> Labels]
        BY <1>t DEF TypeOK, Labels
      <3> QED
        BY <1>t, <3>1, <3>2 DEF TypeOK
    <2>2. SemInv'
      BY <1>t, <1>d DEF TypeOK, SemInv, Holding
    <2>3. DataInv'
      BY <1>t, <1>d, DevFacts DEF TypeOK, DataInv, TakeFindsData, SignalPending
    <2>4. QueueInv'
      BY <1>t, <1>d, DevFacts DEF TypeOK, QueueInv
    <2>5. NoLostWakeup'
      BY <1>t, <1>s, DevFacts DEF TypeOK, NoLostWakeup, Asleep
    <2> QED
      BY <2>1, <2>2, <2>3, <2>4, <2>5
  <1>21. ASSUME NEW k \in KernThreads, KernThawed(k) PROVE IInv'
    <2> USE <1>21 DEF KernThawed, At, Goto, HwVars, DriverVars
    <2>1. TypeOK'
      BY <1>t, <1>d, DevFacts DEF TypeOK, Labels, SemInv, Holding, DataInv
    <2>2. SemInv'
      BY <1>t, <1>d DEF TypeOK, SemInv, Holding
    <2>3. DataInv'
      BY <1>t, <1>d, DevFacts DEF TypeOK, DataInv, TakeFindsData, SignalPending
    <2>4. QueueInv'
      BY <1>t, <1>d, DevFacts DEF TypeOK, QueueInv
    <2>5. NoLostWakeup'
      BY <1>t, <1>s, DevFacts DEF TypeOK, NoLostWakeup, Asleep
    <2> QED
      BY <2>1, <2>2, <2>3, <2>4, <2>5
  <1>22. ASSUME NEW k \in KernThreads, KernRestart(k) PROVE IInv'
    <2> USE <1>22 DEF KernRestart, At, Goto, HwVars, DriverVars
    <2>1. TypeOK'
      BY <1>t, <1>d, DevFacts DEF TypeOK, Labels, SemInv, Holding, DataInv
    <2>2. SemInv'
      BY <1>t, <1>d DEF TypeOK, SemInv, Holding
    <2>3. DataInv'
      BY <1>t, <1>d, DevFacts DEF TypeOK, DataInv, TakeFindsData, SignalPending
    <2>4. QueueInv'
      BY <1>t, <1>d, DevFacts DEF TypeOK, QueueInv
    <2>5. NoLostWakeup'
      BY <1>t, <1>s, DevFacts DEF TypeOK, NoLostWakeup, Asleep
    <2> QED
      BY <2>1, <2>2, <2>3, <2>4, <2>5
  <1>23. ASSUME NEW k \in KernThreads, KernRead(k) PROVE IInv'
    <2> USE <1>23 DEF KernRead, At, Goto, HwVars, DriverVars
    <2>r. /\ ring[Dev(k)] \in Nat \ {0} /\ Dev(k) \in Devs
      BY <1>d, DevFacts DEF TypeOK, DataInv
    <2>a. /\ ring' \in [Devs -> Nat]
          /\ \A d \in Devs : d # Dev(k) => ring'[d] = ring[d]
      BY <2>r DEF TypeOK
    <2>1. TypeOK'
      BY <1>t, <2>a DEF TypeOK, Labels
    <2>2. SemInv'
      BY <1>t, <1>d DEF TypeOK, SemInv, Holding
    <2>3. DataInv'
      <3>1. \A t \in Threads : t # k => ring'[Dev(t)] = ring[Dev(t)] /\ pc'[t] = pc[t]
        BY <2>a, DevFacts DEF TypeOK, Threads
      <3>2. pc'[k] = "top"
        BY <1>d DEF TypeOK
      <3> QED
        BY <1>d, <3>1, <3>2 DEF DataInv, TakeFindsData, SignalPending
    <2>4. QueueInv'
      BY <1>t, <1>d, DevFacts DEF TypeOK, QueueInv
    <2>5. NoLostWakeup'
      BY <1>t, <1>s, DevFacts DEF TypeOK, NoLostWakeup, Asleep
    <2> QED
      BY <2>1, <2>2, <2>3, <2>4, <2>5
  <1>24. ASSUME NEW r \in IntrReaders, Signal(r) PROVE IInv'
    <2> USE <1>24 DEF Signal, At, Goto, HwVars, DriverVars, WakeUp
    <2>1. TypeOK'
      BY <1>t, <1>d, DevFacts DEF TypeOK, Labels, SemInv, Holding, DataInv
    <2>2. SemInv'
      BY <1>t, <1>d DEF TypeOK, SemInv, Holding
    <2>3. DataInv'
      BY <1>t, <1>d, DevFacts DEF TypeOK, DataInv, TakeFindsData, SignalPending
    <2>4. QueueInv'
      BY <1>t, <1>d, DevFacts DEF TypeOK, QueueInv
    <2>5. NoLostWakeup'
      BY <1>t, <1>s, DevFacts DEF TypeOK, NoLostWakeup, Asleep
    <2> QED
      BY <2>1, <2>2, <2>3, <2>4, <2>5
  <1>25. ASSUME NEW t \in Threads, Freeze(t) PROVE IInv'
    <2> USE <1>25 DEF Freeze, At, Goto, HwVars, DriverVars, WakeUp
    <2>1. TypeOK'
      BY <1>t, <1>d, DevFacts DEF TypeOK, Labels, SemInv, Holding, DataInv
    <2>2. SemInv'
      BY <1>t, <1>d DEF TypeOK, SemInv, Holding
    <2>3. DataInv'
      BY <1>t, <1>d, DevFacts DEF TypeOK, DataInv, TakeFindsData, SignalPending
    <2>4. QueueInv'
      BY <1>t, <1>d, DevFacts DEF TypeOK, QueueInv
    <2>5. NoLostWakeup'
      BY <1>t, <1>s, DevFacts DEF TypeOK, NoLostWakeup, Asleep
    <2> QED
      BY <2>1, <2>2, <2>3, <2>4, <2>5
  <1> QED
    BY <1>0, <1>d, <1>1, <1>2, <1>3, <1>4, <1>5, <1>6, <1>7, <1>8, <1>9, <1>10, <1>11, <1>12, <1>13, <1>14, <1>15, <1>16, <1>17, <1>18, <1>19, <1>20, <1>21, <1>22, <1>23, <1>24, <1>25
    DEF Next, Isr, ReaderStep, KernStep, Waiting

\* The invariant of every behaviour.
LEMMA Invariance == Spec => []IInv
  BY InitIInv, NextIInv, PTL DEF Spec

-----------------------------------------------------------------------------
(* What it gives. *)

\* The variables keep their types: no read takes a packet from an empty ring,
\* and readSem survives signals, freezes and timeouts as a binary semaphore.
THEOREM TypeCorrect == Spec => []TypeOK
  <1>1. IInv => TypeOK
    BY DEF IInv
  <1> QED
    BY <1>1, Invariance, PTL

\* rpc_intr_read may leave out the test for the empty ring after its wait.
THEOREM ReadsAfterWaitSafe == Spec => []TakeFindsData
  <1>1. IInv => TakeFindsData
    BY DEF IInv, DataInv
  <1> QED
    BY <1>1, Invariance, PTL

\* Between publishing, acknowledging and waking, no order of the steps leaves a
\* thread asleep beside its packet with no wake-up to come.
THEOREM WakeupNeverLost == Spec => []NoLostWakeup
  <1>1. IInv => NoLostWakeup
    BY DEF IInv
  <1> QED
    BY <1>1, Invariance, PTL
=============================================================================
