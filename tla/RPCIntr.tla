------------------------------ MODULE RPCIntr ------------------------------
(***************************************************************************)
(* How data from the audio and video processors reaches a sleeping reader: *)
(* the blocking read of RPCintr.c, the kernel threads of RPCkern.c, the    *)
(* interrupt handler of RPCDriver.c that wakes both, the freezer and       *)
(* signals.  A ring is the number of packets it holds: that packets come   *)
(* out whole and in order is module RPCRing.                               *)
(*                                                                         *)
(* The host has one CPU: while the handler runs no thread does.  The other *)
(* processors run at the same time as both.                                *)
(***************************************************************************)
EXTENDS Integers, FiniteSets

CONSTANTS
  Sides,        \* the remote processors: audio and video
  IntrReaders,  \* user threads reading interrupt devices
  KernThreads,  \* rpc_kernel_thread instances
  SideOf,       \* the side whose ring a thread reads
  MaxPackets,   \* bound on packets published by the remote processors
  MaxCalls,     \* bound on read calls
  MaxSignals,   \* bound on signals sent to readers
  MaxFreezes    \* bound on freeze requests

\* rpc_kern_init starts one thread for each ring it reads.
ASSUME IntrAssumption ==
  /\ IntrReaders \cap KernThreads = {}
  /\ SideOf \in [IntrReaders \cup KernThreads -> Sides]
  /\ \A j, k \in KernThreads : SideOf[j] = SideOf[k] => j = k
  /\ Sides \cap {"off", "scan"} = {}
  /\ {MaxPackets, MaxCalls, MaxSignals, MaxFreezes} \subseteq Nat

VARIABLES
  ring,      \* packets in each device
  remote,    \* per side: "quiet", or "ring" between publishing and raising the bit
  pending,   \* the sides whose bit is set in the interrupt register
  isr,       \* the handler: "off", "scan", or the side about to be woken
  itr,       \* the handler's copy of the register
  waitQueue, \* threads on each device's wait queue
  state,     \* task state: "running" or "interruptible"
  pc,
  nonblock,  \* O_NONBLOCK of the current read
  readSem,   \* per side, of its interrupt device
  signal,    \* a signal is pending for the thread
  freeze,    \* PF_FREEZE, which comes with a fake pending signal
  used       \* what was spent of each bound

vars == <<ring, remote, pending, isr, itr, waitQueue, state, pc, nonblock,
          readSem, signal, freeze, used>>

Threads == IntrReaders \cup KernThreads
Devs    == Sides \X {"intr", "kern"}
Dev(t)  == <<SideOf[t], IF t \in IntrReaders THEN "intr" ELSE "kern">>

Init ==
  /\ ring = [d \in Devs |-> 0]
  /\ remote = [s \in Sides |-> "quiet"]
  /\ pending = {} /\ isr = "off" /\ itr = {}
  /\ waitQueue = [d \in Devs |-> {}]
  /\ state = [t \in Threads |-> "running"]
  /\ pc = [t \in Threads |-> IF t \in IntrReaders THEN "idle" ELSE "top"]
  /\ nonblock = [r \in IntrReaders |-> FALSE]
  /\ readSem = [s \in Sides |-> 1]
  /\ signal = [r \in IntrReaders |-> FALSE]
  /\ freeze = [t \in Threads |-> FALSE]
  /\ used = [packets |-> 0, calls |-> 0, signals |-> 0, freezes |-> 0]

-----------------------------------------------------------------------------
(* Audio and video processors: publish, then raise the interrupt bit. *)

RemotePublish(s, kind) ==
  /\ remote[s] = "quiet" /\ used.packets < MaxPackets
  /\ ring' = [ring EXCEPT ![<<s, kind>>] = @ + 1]
  /\ remote' = [remote EXCEPT ![s] = "ring"]
  /\ used' = [used EXCEPT !.packets = @ + 1]
  /\ UNCHANGED <<pending, isr, itr, waitQueue, state, pc, nonblock, readSem, signal, freeze>>

RemoteRing(s) ==
  /\ remote[s] = "ring"
  /\ pending' = pending \cup {s}
  /\ remote' = [remote EXCEPT ![s] = "quiet"]
  /\ UNCHANGED <<ring, isr, itr, waitQueue, state, pc, nonblock, readSem, signal, freeze, used>>

-----------------------------------------------------------------------------
(* rpc_isr *)

IsrEnter ==
  /\ isr = "off" /\ pending # {}
  /\ isr' = "scan" /\ itr' = pending
  /\ UNCHANGED <<ring, remote, pending, waitQueue, state, pc, nonblock, readSem, signal, freeze, used>>

\* Wrong variant: the whole copy is acknowledged with the first side found.
IsrAckAll(s) ==
  /\ isr = "scan" /\ s \in itr
  /\ pending' = pending \ itr /\ itr' = {} /\ isr' = s
  /\ UNCHANGED <<ring, remote, waitQueue, state, pc, nonblock, readSem, signal, freeze, used>>

\* A side found in the copy is acknowledged before its readers are woken.
IsrAck(s) ==
  /\ isr = "scan" /\ s \in itr
  /\ pending' = pending \ {s} /\ itr' = itr \ {s} /\ isr' = s
  /\ UNCHANGED <<ring, remote, waitQueue, state, pc, nonblock, readSem, signal, freeze, used>>

\* Wrong variant: the interrupt device's queue is forgotten.
WokenKernOnly(s) == waitQueue[<<s, "kern">>]

\* The threads wake_up_interruptible() finds on the two queues of a side.
Woken(s) == waitQueue[<<s, "intr">>] \cup waitQueue[<<s, "kern">>]

IsrWake(s) ==
  /\ isr = s
  /\ isr' = "scan"
  /\ state' = [t \in Threads |-> IF t \in Woken(s) THEN "running" ELSE state[t]]
  /\ waitQueue' = [waitQueue EXCEPT ![<<s, "intr">>] = {}, ![<<s, "kern">>] = {}]
  /\ UNCHANGED <<ring, remote, pending, itr, pc, nonblock, readSem, signal, freeze, used>>

IsrReread ==
  /\ isr = "scan" /\ itr = {}
  /\ itr' = pending
  /\ isr' = IF pending = {} THEN "off" ELSE "scan"
  /\ UNCHANGED <<ring, remote, pending, waitQueue, state, pc, nonblock, readSem, signal, freeze, used>>

-----------------------------------------------------------------------------
(* Waiting: wait_event_interruptible and its _timeout form *)

At(t, label)   == isr = "off" /\ pc[t] = label
Goto(t, label) == pc' = [pc EXCEPT ![t] = label]

SignalPending(t) == freeze[t] \/ (t \in IntrReaders /\ signal[t])

DriverVars == <<nonblock, readSem, signal, freeze, used>>
HwVars     == <<remote, pending, isr, itr>>

\* The condition is tested once before anything else.
Wait(t) ==
  /\ At(t, "wait")
  /\ Goto(t, IF ring[Dev(t)] > 0 THEN "woken" ELSE "prepare")
  /\ UNCHANGED <<ring, waitQueue, state, HwVars, DriverVars>>

PrepareToWait(t) ==
  /\ At(t, "prepare")
  /\ waitQueue' = [waitQueue EXCEPT ![Dev(t)] = @ \cup {t}]
  /\ state' = [state EXCEPT ![t] = "interruptible"]
  /\ Goto(t, "test")
  /\ UNCHANGED <<ring, HwVars, DriverVars>>

FinishWait(t) ==
  /\ waitQueue' = [waitQueue EXCEPT ![Dev(t)] = @ \ {t}]
  /\ state' = [state EXCEPT ![t] = "running"]

\* Wrong variant: the first test of the condition is trusted.
WaitTestTrusting(t) ==
  /\ At(t, "test")
  /\ \/ /\ SignalPending(t)
        /\ Goto(t, "restart") /\ FinishWait(t)
     \/ /\ ~SignalPending(t)
        /\ Goto(t, "sleep") /\ UNCHANGED <<waitQueue, state>>
  /\ UNCHANGED <<ring, HwVars, DriverVars>>

\* Tested again once queued; a pending signal ends the wait (-ERESTARTSYS).
WaitTest(t) ==
  /\ At(t, "test")
  /\ \/ /\ ring[Dev(t)] > 0
        /\ Goto(t, "woken") /\ FinishWait(t)
     \/ /\ ring[Dev(t)] = 0 /\ SignalPending(t)
        /\ Goto(t, "restart") /\ FinishWait(t)
     \/ /\ ring[Dev(t)] = 0 /\ ~SignalPending(t)
        /\ Goto(t, "sleep") /\ UNCHANGED <<waitQueue, state>>
  /\ UNCHANGED <<ring, HwVars, DriverVars>>

\* schedule() returns only to a task made runnable again.
Resume(t) ==
  /\ At(t, "sleep") /\ state[t] = "running"
  /\ Goto(t, "prepare")
  /\ UNCHANGED <<ring, waitQueue, state, HwVars, DriverVars>>

\* schedule_timeout() returned 0, possibly with a wake-up on its way.
Timeout(r) ==
  /\ At(r, "sleep")
  /\ Goto(r, "out") /\ FinishWait(r)
  /\ UNCHANGED <<ring, HwVars, DriverVars>>

-----------------------------------------------------------------------------
(* rpc_intr_read *)

ReadCall(r, nb) ==
  /\ At(r, "idle") /\ used.calls < MaxCalls
  /\ used' = [used EXCEPT !.calls = @ + 1]
  /\ nonblock' = [nonblock EXCEPT ![r] = nb]
  /\ Goto(r, "down")
  /\ UNCHANGED <<ring, waitQueue, state, HwVars, readSem, signal, freeze>>

ReadDown(r) ==
  /\ At(r, "down") /\ readSem[SideOf[r]] > 0
  /\ readSem' = [readSem EXCEPT ![SideOf[r]] = @ - 1]
  /\ Goto(r, "check")
  /\ UNCHANGED <<ring, waitQueue, state, HwVars, nonblock, signal, freeze, used>>

\* Wrong variant: leaves through the exit that ups the semaphore.
DownInterruptedUps(r) ==
  /\ At(r, "down") /\ readSem[SideOf[r]] = 0 /\ SignalPending(r)
  /\ signal' = [signal EXCEPT ![r] = FALSE]
  /\ freeze' = [freeze EXCEPT ![r] = FALSE]
  /\ readSem' = [readSem EXCEPT ![SideOf[r]] = @ + 1]
  /\ Goto(r, "idle")
  /\ UNCHANGED <<ring, waitQueue, state, HwVars, nonblock, used>>

\* The kernel delivers the signal on the way back to user space.
DownInterrupted(r) ==
  /\ At(r, "down") /\ readSem[SideOf[r]] = 0 /\ SignalPending(r)
  /\ signal' = [signal EXCEPT ![r] = FALSE]
  /\ freeze' = [freeze EXCEPT ![r] = FALSE]
  /\ Goto(r, "idle")
  /\ UNCHANGED <<ring, waitQueue, state, HwVars, nonblock, readSem, used>>

ReadCheck(r) ==
  /\ At(r, "check")
  /\ Goto(r, IF ring[Dev(r)] > 0 THEN "take" ELSE IF nonblock[r] THEN "out" ELSE "wait")
  /\ UNCHANGED <<ring, waitQueue, state, HwVars, DriverVars>>

\* Wrong variant: the signal check after the refrigerator is forgotten.
AfterWaitUnchecked(r) ==
  /\ isr = "off" /\ pc[r] \in {"woken", "restart"}
  /\ IF freeze[r]
     THEN Goto(r, "frozen") /\ freeze' = [freeze EXCEPT ![r] = FALSE]
     ELSE Goto(r, "take") /\ UNCHANGED freeze
  /\ UNCHANGED <<ring, waitQueue, state, HwVars, nonblock, readSem, signal, used>>

\* Freeze request first, then signals; only then is the ring read.
AfterWait(r) ==
  /\ isr = "off" /\ pc[r] \in {"woken", "restart"}
  /\ IF freeze[r]
     THEN Goto(r, "frozen") /\ freeze' = [freeze EXCEPT ![r] = FALSE]
     ELSE Goto(r, IF signal[r] THEN "out" ELSE "take") /\ UNCHANGED freeze
  /\ UNCHANGED <<ring, waitQueue, state, HwVars, nonblock, readSem, signal, used>>

\* Out of the refrigerator: wait again unless a real signal came.
Thawed(r) ==
  /\ At(r, "frozen")
  /\ Goto(r, IF SignalPending(r) THEN "out" ELSE "wait")
  /\ UNCHANGED <<ring, waitQueue, state, HwVars, DriverVars>>

\* Measure, copy and advance, as in RPCRing.
Take(r) ==
  /\ At(r, "take")
  /\ ring' = [ring EXCEPT ![Dev(r)] = @ - 1]
  /\ Goto(r, "out")
  /\ UNCHANGED <<waitQueue, state, HwVars, DriverVars>>

ReadOut(r) ==
  /\ At(r, "out")
  /\ readSem' = [readSem EXCEPT ![SideOf[r]] = @ + 1]
  /\ signal' = [signal EXCEPT ![r] = FALSE]
  /\ freeze' = [freeze EXCEPT ![r] = FALSE]
  /\ Goto(r, "idle")
  /\ UNCHANGED <<ring, waitQueue, state, HwVars, nonblock, used>>

-----------------------------------------------------------------------------
(* rpc_kernel_thread *)

KernTop(k) ==
  /\ At(k, "top")
  /\ IF freeze[k]
     THEN Goto(k, "frozen") /\ freeze' = [freeze EXCEPT ![k] = FALSE]
     ELSE Goto(k, "wait") /\ UNCHANGED freeze
  /\ UNCHANGED <<ring, waitQueue, state, HwVars, nonblock, readSem, signal, used>>

KernThawed(k) ==
  /\ At(k, "frozen")
  /\ Goto(k, "wait")
  /\ UNCHANGED <<ring, waitQueue, state, HwVars, DriverVars>>

KernRestart(k) ==
  /\ At(k, "restart")
  /\ Goto(k, "top")
  /\ UNCHANGED <<ring, waitQueue, state, HwVars, DriverVars>>

KernRead(k) ==
  /\ At(k, "woken")
  /\ ring' = [ring EXCEPT ![Dev(k)] = @ - 1]
  /\ Goto(k, "top")
  /\ UNCHANGED <<waitQueue, state, HwVars, DriverVars>>

-----------------------------------------------------------------------------
(* Environment: signals to readers, and freeze_processes() *)

WakeUp(t) ==
  state' = [state EXCEPT ![t] = "running"]

Signal(r) ==
  /\ isr = "off" /\ pc[r] # "idle" /\ used.signals < MaxSignals /\ ~signal[r]
  /\ used' = [used EXCEPT !.signals = @ + 1]
  /\ signal' = [signal EXCEPT ![r] = TRUE]
  /\ WakeUp(r)
  /\ UNCHANGED <<ring, waitQueue, pc, HwVars, nonblock, readSem, freeze>>

Freeze(t) ==
  /\ isr = "off" /\ pc[t] \notin {"idle", "frozen"}
  /\ used.freezes < MaxFreezes /\ ~freeze[t]
  /\ used' = [used EXCEPT !.freezes = @ + 1]
  /\ freeze' = [freeze EXCEPT ![t] = TRUE]
  /\ WakeUp(t)
  /\ UNCHANGED <<ring, waitQueue, pc, HwVars, nonblock, readSem, signal>>

Waiting(t) == Wait(t) \/ PrepareToWait(t) \/ WaitTest(t) \/ Resume(t)

ReaderStep(r) ==
  \/ ReadDown(r) \/ DownInterrupted(r) \/ ReadCheck(r) \/ Waiting(r)
  \/ AfterWait(r) \/ Thawed(r) \/ Take(r) \/ ReadOut(r)

KernStep(k) == KernTop(k) \/ KernThawed(k) \/ Waiting(k) \/ KernRestart(k) \/ KernRead(k)

Isr == IsrEnter \/ IsrReread \/ \E s \in Sides : IsrAck(s) \/ IsrWake(s)

Next ==
  \/ \E s \in Sides : RemoteRing(s) \/ \E kind \in {"intr", "kern"} : RemotePublish(s, kind)
  \/ Isr
  \/ \E r \in IntrReaders :
       \/ \E nb \in BOOLEAN : ReadCall(r, nb)
       \/ ReaderStep(r) \/ Timeout(r) \/ Signal(r)
  \/ \E k \in KernThreads : KernStep(k)
  \/ \E t \in Threads : Freeze(t)

\* Interrupts are served, threads are scheduled, and a processor that has
\* published raises its bit.  Calls, signals, freezes and timeouts may never come.
Fairness ==
  /\ WF_vars(Isr)
  /\ \A s \in Sides : WF_vars(RemoteRing(s))
  /\ \A r \in IntrReaders : WF_vars(ReaderStep(r))
  /\ \A k \in KernThreads : WF_vars(KernStep(k))

Spec == Init /\ [][Next]_vars
FairSpec == Spec /\ Fairness

-----------------------------------------------------------------------------
(* Properties *)

Labels == {"idle", "down", "check", "top", "wait", "prepare", "test", "sleep", "woken",
           "restart", "frozen", "take", "out"}

\* Every variable keeps its type; a read never takes from an empty ring
\* (ring stays a natural number) and readSem stays binary.
TypeOK ==
  /\ ring \in [Devs -> Nat]
  /\ remote \in [Sides -> {"quiet", "ring"}]
  /\ pending \in SUBSET Sides /\ itr \in SUBSET Sides
  /\ isr \in {"off", "scan"} \cup Sides
  /\ waitQueue \in [Devs -> SUBSET Threads]
  /\ state \in [Threads -> {"running", "interruptible"}]
  /\ pc \in [Threads -> Labels]
  /\ nonblock \in [IntrReaders -> BOOLEAN] /\ signal \in [IntrReaders -> BOOLEAN]
  /\ freeze \in [Threads -> BOOLEAN]
  /\ readSem \in [Sides -> 0..1]

Asleep(t) == pc[t] = "sleep" /\ state[t] = "interruptible"

\* A thread sleeps beside a non-empty ring only while its wake-up is still on
\* the way: the processor is about to raise its bit, the bit is set, or the
\* handler has acknowledged it and not yet woken the queues (rpc_isr).
NoLostWakeup ==
  \A t \in Threads :
    Asleep(t) /\ ring[Dev(t)] > 0 =>
      \/ remote[SideOf[t]] = "ring"
      \/ SideOf[t] \in pending
      \/ isr = SideOf[t]

\* rpc_intr_read measures the ring after its wait without testing for empty
\* again; there is always something there, whoever woke it and why.
TakeFindsData == \A r \in IntrReaders : pc[r] = "take" => ring[Dev(r)] > 0

\* Every reply the remote processor publishes for the kernel is eventually
\* read by the kernel thread, which sleeps without a timeout.
RepliesAreRead == \A k \in KernThreads : ring[Dev(k)] > 0 ~> ring[Dev(k)] = 0

\* A blocking read of a device that has data returns even if its timeout
\* (settable by RPC_IOCTTIMEOUT to any length) never expires.
BlockedReadReturns ==
  \A r \in IntrReaders :
    pc[r] \in {"wait", "prepare", "test", "sleep", "frozen"} /\ ring[Dev(r)] > 0
      ~> pc[r] = "idle"
=============================================================================
