------------------------------ MODULE RPCKern ------------------------------
(***************************************************************************)
(* The kernel's own remote calls: send_rpc_command() writes a packet that  *)
(* carries the addresses of the caller's result and of a word `sync' on    *)
(* its stack, and polls that word; rpc_kernel_thread() takes the replies   *)
(* and stores through those addresses.  A ring is a queue of packets, and  *)
(* a transfer takes the two steps that a reset can come between: it        *)
(* measures the ring, then it copies and stores its pointer.  What a ring  *)
(* does word by word is module RPCRing; how the thread is woken is module  *)
(* RPCIntr.                                                                *)
(***************************************************************************)
EXTENDS Integers, Sequences, FiniteSets

CONSTANTS
  Callers,    \* threads that call send_rpc_command
  Requests,   \* requests that fit into the ring to the remote processor
  Replies,    \* replies that fit into the ring from it
  MaxCalls,   \* bound on calls
  MaxResets   \* bound on resets of the driver

ASSUME KernAssumption ==
  /\ Requests \in Nat \ {0} /\ Replies \in Nat \ {0}
  /\ MaxCalls \in Nat /\ MaxResets \in Nat

VARIABLES
  pc,        \* of each caller
  call,      \* number of the caller's current call
  sync,      \* the word sync in the caller's stack frame
  retvalue,  \* the word retvalue points to
  answer,    \* history: the last call that returned RPC_OK, and its result
  calls,     \* calls made so far
  writeSem,
  toRing,    \* packets to the remote processor
  bell,      \* its interrupt bit
  remote,    \* its end of toRing: "wait", or "take" once it has measured it
  work,      \* requests it has taken and not answered
  sending,   \* the one of them it has measured fromRing for
  fromRing,  \* replies
  thread,    \* rpc_kernel_thread: "wait", "copy", "value" or "sync"
  readbuf,   \* the reply it is working on
  reset,     \* RPC_IOCTRESET: "idle", or the store it comes to next
  resets,    \* resets begun so far
  disturbed, \* history: callers whose call a reset met
  torn       \* history: a reset overlapped a transfer

vars == <<pc, call, sync, retvalue, answer, calls, writeSem, toRing, bell,
          remote, work, sending, fromRing, thread, readbuf, reset, resets, disturbed, torn>>

\* A packet names the stack frame and the call it is for.
Packet == [caller : Callers, call : Nat]
Nothing == [caller |-> "none", call |-> 0]

Init ==
  /\ pc = [c \in Callers |-> "idle"]
  /\ call = [c \in Callers |-> 0]
  /\ sync = [c \in Callers |-> 0]
  /\ retvalue = [c \in Callers |-> 0]
  /\ answer = [c \in Callers |-> <<0, 0>>]
  /\ calls = 0 /\ writeSem = 1
  /\ toRing = << >> /\ bell = FALSE /\ remote = "wait"
  /\ work = {} /\ sending = {} /\ fromRing = << >>
  /\ thread = "wait" /\ readbuf = Nothing
  /\ reset = "idle" /\ resets = 0 /\ disturbed = {} /\ torn = FALSE

Goto(c, label) == pc' = [pc EXCEPT ![c] = label]

callVars   == <<call, sync, retvalue, answer, calls>>
remoteVars == <<bell, remote, work, sending>>
threadVars == <<thread, readbuf>>
resetVars  == <<reset, resets, disturbed, torn>>

-----------------------------------------------------------------------------
(* send_rpc_command, with rpc_kern_write in place *)

\* The packet is built on the stack and sync cleared.
SendCall(c) ==
  /\ pc[c] = "idle" /\ calls < MaxCalls
  /\ calls' = calls + 1
  /\ call' = [call EXCEPT ![c] = calls + 1]
  /\ sync' = [sync EXCEPT ![c] = 0]
  /\ disturbed' = disturbed \ {c}
  /\ Goto(c, "down")
  /\ UNCHANGED <<retvalue, answer, writeSem, toRing, fromRing, remoteVars, threadVars,
                 reset, resets, torn>>

WriteDown(c) ==
  /\ pc[c] = "down" /\ writeSem > 0
  /\ writeSem' = writeSem - 1
  /\ Goto(c, "measure")
  /\ UNCHANGED <<callVars, toRing, fromRing, remoteVars, threadVars, resetVars>>

\* Wrong variant: leaves through the exit that ups the semaphore.
WriteInterruptedUps(c) ==
  /\ pc[c] = "down" /\ writeSem = 0
  /\ writeSem' = writeSem + 1
  /\ Goto(c, "idle")
  /\ UNCHANGED <<callVars, toRing, fromRing, remoteVars, threadVars, resetVars>>

\* -ERESTARTSYS from rpc_kern_write: the command fails, nothing was sent.
WriteInterrupted(c) ==
  /\ pc[c] = "down" /\ writeSem = 0
  /\ Goto(c, "idle")
  /\ UNCHANGED <<callVars, writeSem, toRing, fromRing, remoteVars, threadVars, resetVars>>

\* There is room for the packet.
WriteMeasure(c) ==
  /\ pc[c] = "measure" /\ Len(toRing) < Requests
  /\ Goto(c, "copy")
  /\ UNCHANGED <<callVars, writeSem, toRing, fromRing, remoteVars, threadVars, resetVars>>

\* The ring is full: rpc_kern_write returns 0 and the command fails.  So it does
\* when the ring is empty, but a reset has stored ringIn and not yet ringOut.
WriteRefused(c) ==
  /\ pc[c] = "measure" /\ (Len(toRing) >= Requests \/ reset = "toOut")
  /\ writeSem' = writeSem + 1
  /\ Goto(c, "idle")
  /\ UNCHANGED <<callVars, toRing, fromRing, remoteVars, threadVars, resetVars>>

\* The copy, and the store of ringIn that publishes it.
WritePublish(c) ==
  /\ pc[c] = "copy"
  /\ toRing' = Append(toRing, [caller |-> c, call |-> call[c]])
  /\ Goto(c, "bell")
  /\ UNCHANGED <<callVars, writeSem, fromRing, remoteVars, threadVars, resetVars>>

RingBell(c) ==
  /\ pc[c] = "bell"
  /\ bell' = TRUE
  /\ writeSem' = writeSem + 1
  /\ Goto(c, "poll")
  /\ UNCHANGED <<callVars, toRing, fromRing, remote, work, sending, threadVars, resetVars>>

\* Wrong variant: the caller gives up after some turns of msleep.
SyncSeenOrTimeout(c) ==
  /\ pc[c] = "poll"
  /\ answer' = [answer EXCEPT ![c] = IF sync[c] = 1 THEN <<call[c], retvalue[c]>> ELSE @]
  /\ Goto(c, "idle")
  /\ UNCHANGED <<call, sync, retvalue, calls, writeSem, toRing, fromRing, remoteVars, threadVars, resetVars>>

\* while (sync == 0) msleep(1): returns once the word is set, never before.
SyncSeen(c) ==
  /\ pc[c] = "poll" /\ sync[c] = 1
  /\ answer' = [answer EXCEPT ![c] = <<call[c], retvalue[c]>>]
  /\ Goto(c, "idle")
  /\ UNCHANGED <<call, sync, retvalue, calls, writeSem, toRing, fromRing, remoteVars, threadVars, resetVars>>

-----------------------------------------------------------------------------
(* The remote processor: interrupted by the bell, it empties the ring; it  *)
(* answers what it took once each, in any order.                           *)

\* Between the two stores of a reset the ring it looks at seems to hold what lies
\* from the old ringOut on, unless ringOut was at ringStart anyway.
RemoteLook ==
  /\ remote = "wait" /\ bell /\ (toRing # << >> \/ reset = "toOut")
  /\ remote' = "take"
  /\ torn' = (reset = "toOut")
  /\ UNCHANGED <<pc, callVars, writeSem, toRing, bell, work, sending, fromRing, threadVars,
                 reset, resets, disturbed>>

RemoteTake ==
  /\ remote = "take"
  /\ work' = work \cup {Head(toRing)}
  /\ toRing' = Tail(toRing)
  /\ remote' = "wait"
  /\ UNCHANGED <<pc, callVars, writeSem, bell, sending, fromRing, threadVars, resetVars>>

RemoteIdle ==
  /\ remote = "wait" /\ bell /\ toRing = << >>
  /\ bell' = FALSE
  /\ UNCHANGED <<pc, callVars, writeSem, toRing, remote, work, sending, fromRing, threadVars, resetVars>>

RemoteMeasure(m) ==
  /\ m \in work /\ sending = {} /\ Len(fromRing) < Replies
  /\ sending' = {m}
  /\ UNCHANGED <<pc, callVars, writeSem, toRing, bell, remote, work, fromRing, threadVars, resetVars>>

RemoteReply(m) ==
  /\ m \in sending
  /\ sending' = {} /\ work' = work \ {m}
  /\ fromRing' = Append(fromRing, m)
  /\ UNCHANGED <<pc, callVars, writeSem, toRing, bell, remote, threadVars, resetVars>>

-----------------------------------------------------------------------------
(* rpc_kernel_thread *)

\* wait_event_interruptible and rpc_kern_read find the ring not empty, as it
\* seems between the two stores of a reset.
ThreadLook ==
  /\ thread = "wait" /\ (fromRing # << >> \/ reset = "fromOut")
  /\ thread' = "copy"
  /\ torn' = (reset = "fromOut")
  /\ UNCHANGED <<pc, callVars, writeSem, toRing, remoteVars, fromRing, readbuf, reset, resets, disturbed>>

\* Wrong variant: everything in the ring is read and the first reply parsed.
ThreadReadAll ==
  /\ thread = "copy"
  /\ readbuf' = Head(fromRing)
  /\ fromRing' = << >>
  /\ thread' = "value"
  /\ UNCHANGED <<pc, callVars, writeSem, toRing, remoteVars, resetVars>>

\* Wrong variant: the caller is acknowledged before its result is stored.
ThreadReadAcks ==
  /\ thread = "copy"
  /\ readbuf' = Head(fromRing)
  /\ fromRing' = Tail(fromRing)
  /\ sync' = [sync EXCEPT ![Head(fromRing).caller] = 1]
  /\ thread' = "value"
  /\ UNCHANGED <<pc, call, retvalue, answer, calls, writeSem, toRing, remoteVars, resetVars>>

\* One reply is copied, sizeof(readbuf) bytes, and ringOut stored.
ThreadRead ==
  /\ thread = "copy"
  /\ readbuf' = Head(fromRing)
  /\ fromRing' = Tail(fromRing)
  /\ thread' = "value"
  /\ UNCHANGED <<pc, callVars, writeSem, toRing, remoteVars, resetVars>>

\* *mycontext = result; the result of call n is n.
ThreadValue ==
  /\ thread = "value"
  /\ retvalue' = [retvalue EXCEPT ![readbuf.caller] = readbuf.call]
  /\ thread' = "sync"
  /\ UNCHANGED <<pc, call, sync, answer, calls, writeSem, toRing, fromRing, remoteVars, readbuf, resetVars>>

\* *taskID = 1, which lets the caller go.
ThreadAck ==
  /\ thread = "sync"
  /\ sync' = [sync EXCEPT ![readbuf.caller] = 1]
  /\ thread' = "wait" /\ readbuf' = Nothing
  /\ UNCHANGED <<pc, call, retvalue, answer, calls, writeSem, toRing, fromRing, remoteVars, resetVars>>

-----------------------------------------------------------------------------
(* RPC_IOCTRESET: rpc_kern_init stores ringIn and then ringOut, of the one  *)
(* ring and then of the other, under the calls; then the ioctl              *)
(* acknowledges the interrupts, that of a request written in between        *)
(* included.  No semaphore is taken: a transfer that has measured a ring    *)
(* goes on to advance the pointer it finds, so that old packets, or half of *)
(* one, are in the ring again; the same is read by who looks between the    *)
(* two stores.  The history variable torn tells that this happened, and the *)
(* model ends there: nothing is claimed about what lies in the ring then.   *)

InCall == {c \in Callers : pc[c] # "idle"}
Writing == \E c \in Callers : pc[c] = "copy"

ResetToIn ==
  /\ reset = "idle" /\ resets < MaxResets
  /\ toRing' = << >>
  /\ torn' = (Writing \/ remote = "take")
  /\ reset' = "toOut" /\ resets' = resets + 1
  /\ disturbed' = disturbed \cup InCall
  /\ UNCHANGED <<pc, callVars, writeSem, fromRing, remoteVars, threadVars>>

\* ringOut follows ringIn; a packet written since is what the ring holds.
ResetToOut ==
  /\ reset = "toOut"
  /\ reset' = "fromIn"
  /\ UNCHANGED <<pc, callVars, writeSem, toRing, fromRing, remoteVars, threadVars, resets, disturbed, torn>>

ResetFromIn ==
  /\ reset = "fromIn"
  /\ fromRing' = << >>
  /\ torn' = (sending # {} \/ thread = "copy")
  /\ reset' = "fromOut"
  /\ disturbed' = disturbed \cup InCall
  /\ UNCHANGED <<pc, callVars, writeSem, toRing, remoteVars, threadVars, resets>>

ResetFromOut ==
  /\ reset = "fromOut"
  /\ reset' = "ack"
  /\ UNCHANGED <<pc, callVars, writeSem, toRing, fromRing, remoteVars, threadVars, resets, disturbed, torn>>

ResetAck ==
  /\ reset = "ack"
  /\ bell' = FALSE
  /\ reset' = "idle"
  /\ disturbed' = disturbed \cup InCall
  /\ UNCHANGED <<pc, callVars, writeSem, toRing, fromRing, remote, work, sending, threadVars, resets, torn>>

CallerStep(c) ==
  WriteDown(c) \/ WriteMeasure(c) \/ WriteRefused(c) \/ WritePublish(c) \/ RingBell(c) \/ SyncSeen(c)
RemoteRead == RemoteLook \/ RemoteTake
RemoteAnswer == \E m \in work : RemoteMeasure(m) \/ RemoteReply(m)
Thread == ThreadLook \/ ThreadRead \/ ThreadValue \/ ThreadAck
Reset == ResetToIn \/ ResetToOut \/ ResetFromIn \/ ResetFromOut \/ ResetAck

Next ==
  /\ ~torn
  /\ \/ \E c \in Callers : SendCall(c) \/ CallerStep(c) \/ WriteInterrupted(c)
     \/ RemoteRead \/ RemoteIdle \/ RemoteAnswer
     \/ Thread
     \/ Reset

\* The scheduler runs callers and the kernel thread; the remote processor
\* answers what it is asked (external).
Fairness ==
  /\ \A c \in Callers : WF_vars(~torn /\ CallerStep(c))
  /\ WF_vars(~torn /\ RemoteRead) /\ WF_vars(~torn /\ RemoteAnswer)
  /\ WF_vars(~torn /\ Thread)

Spec == Init /\ [][Next]_vars
FairSpec == Spec /\ Fairness

-----------------------------------------------------------------------------
(* Properties *)

\* Every variable keeps its type.
TypeOK ==
  /\ pc \in [Callers -> {"idle", "down", "measure", "copy", "bell", "poll"}]
  /\ call \in [Callers -> Nat]
  /\ sync \in [Callers -> {0, 1}]
  /\ retvalue \in [Callers -> Nat]
  /\ answer \in [Callers -> Nat \X Nat]
  /\ calls \in Nat /\ writeSem \in 0..1
  /\ toRing \in Seq(Packet) /\ fromRing \in Seq(Packet)
  /\ bell \in BOOLEAN /\ remote \in {"wait", "take"}
  /\ work \in SUBSET Packet /\ sending \in SUBSET work
  /\ thread \in {"wait", "copy", "value", "sync"}
  /\ readbuf \in Packet \cup {Nothing}
  /\ reset \in {"idle", "toOut", "fromIn", "fromOut", "ack"} /\ resets \in 0..MaxResets
  /\ disturbed \subseteq Callers /\ torn \in BOOLEAN

\* A command that returns RPC_OK returns the result of that very command: not
\* an older one, not another caller's, not a word not yet written.  So it is
\* until a reset overlaps a transfer (torn), after which old replies are read.
OwnAnswer == \A c \in Callers : answer[c][2] = answer[c][1]

\* rpc_kernel_thread stores through addresses that came back from another
\* processor; the frame they point into is still that of the waiting call, with
\* any reset between the transfers, until one overlaps a transfer (torn).
StoresHitLiveFrame ==
  thread \in {"value", "sync"} =>
    pc[readbuf.caller] \in {"bell", "poll"} /\ call[readbuf.caller] = readbuf.call

\* Every command returns, with a result or with RPC_FAIL, although the caller
\* polls without a timeout; only a call that a reset met may poll for ever, and
\* none that was made after the reset, unless the reset overlapped a transfer.
EveryCallReturns ==
  \A c \in Callers : pc[c] # "idle" ~> (pc[c] = "idle" \/ c \in disturbed \/ torn)
=============================================================================
