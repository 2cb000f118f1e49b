------------------------------- MODULE MDCopy -------------------------------
(***************************************************************************)
(* Memory copies by the Move Data engine (md.c): md_copy_start() takes an  *)
(* entry of a small table, queues one command per chunk and keeps in the   *)
(* entry the number of the last one; md_copy_sync() waits for that number; *)
(* md_check_copy_tasks() releases the entries of finished copies in order. *)
(* The engine counts the commands it has executed in a narrow register.    *)
(*                                                                         *)
(* What is done under dev->lock is one step: the spin lock turns off       *)
(* interrupts and the host has one CPU, which preempts kernel code         *)
(* everywhere else.  The engine runs at the same time.                     *)
(***************************************************************************)
EXTENDS Integers, Sequences, FiniteSets

CONSTANTS
  Clients,      \* threads that copy
  MaxTask,      \* MAX_COPY_TASK
  CounterMod,   \* values of IOA_SMQ_INST_CNT, 0x10000 in the code
  RingCmds,     \* commands the ring of the engine has room for
  Chunks,       \* numbers of commands a copy may be split into
  MaxCopies,    \* bound on copies started
  MaxSuspends   \* bound on suspends

ASSUME MDAssumption ==
  /\ MaxTask \in Nat \ {0} /\ RingCmds \in Nat \ {0}
  /\ CounterMod \in Nat /\ CounterMod % 2 = 0 /\ RingCmds < CounterMod \div 2
  /\ Chunks \subseteq Nat \ {0}
  /\ MaxCopies \in Nat /\ MaxSuspends \in Nat

VARIABLES
  copy_task,     \* the table: request_id and copy_id of each entry
  copy_counter,  \* copies that got an entry
  finished_copy_counter,
  sw_counter,    \* number of the last command queued
  hw_counter,    \* IOA_SMQ_INST_CNT
  cmds,          \* the engine's ring: the copy and the chunk of each command
  state,         \* dev->state: 1 while suspended
  pc,
  call,          \* locals: the copy, chunks left, table index, a request_id, a handle
  handles,       \* handles a client got from md_copy_start and has not synced
  copies,        \* history: chunks of each copy started
  ran,           \* history: the chunks of each copy the engine has executed
  owner,         \* history: the copies that got an entry, in order
  swept,         \* history: copies that lost their entry inside md_copy_start
  failed,        \* history: copies for which md_copy_start returned 0
  synced,        \* history: copies for which md_copy_sync returned
  suspends       \* suspends so far (bound)

tableVars  == <<copy_task, copy_counter, finished_copy_counter>>
engineVars == <<sw_counter, hw_counter, cmds, ran>>
pmVars     == <<state, suspends>>
histVars   == <<handles, copies, failed, synced>>
entryVars  == <<owner, swept>>
vars       == <<tableVars, engineVars, pmVars, histVars, entryVars, pc, call>>

Free   == [request_id |-> 0, copy_id |-> 0]
NoCall == [copy |-> 0, left |-> 0, req |-> 0, id |-> 0, handle |-> 0]

Init ==
  /\ copy_task = [i \in 0..MaxTask - 1 |-> Free]
  /\ copy_counter = 0 /\ finished_copy_counter = 0
  /\ sw_counter = 0 /\ hw_counter = 0 /\ cmds = << >>
  /\ state = 0 /\ suspends = 0
  /\ pc = [t \in Clients |-> "idle"]
  /\ call = [t \in Clients |-> NoCall]
  /\ handles = [t \in Clients |-> {}]
  /\ copies = << >> /\ ran = << >>
  /\ failed = {} /\ synced = {} /\ owner = << >> /\ swept = {}

Goto(t, label) == pc' = [pc EXCEPT ![t] = label]

Return(t) ==
  /\ Goto(t, "idle")
  /\ call' = [call EXCEPT ![t] = NoCall]

-----------------------------------------------------------------------------
(* Which commands have finished, and releasing their copies *)

\* Wrong variant: the case of a register that has wrapped is missing.
CheckFinishNoWrap(handle) ==
  LET sw == handle % CounterMod
  IN  handle = 0 \/ (hw_counter >= sw /\ hw_counter - sw < CounterMod \div 2)

\* md_checkfinish: at most half of the counter's range behind the engine.
CheckFinish(handle) ==
  LET sw == handle % CounterMod
  IN  \/ handle = 0
      \/ hw_counter >= sw /\ hw_counter - sw < CounterMod \div 2
      \/ hw_counter < sw /\ hw_counter + CounterMod - sw < CounterMod \div 2

TaskFinished(n) == CheckFinish(copy_task[n % MaxTask].request_id)

\* Copies whose md_copy_start works on one of the entries in S.
Victims(S) == {call[t].copy : t \in {u \in Clients : pc[u] \in {"write", "store", "return"} /\ call[u].req \in S}}

Released(last) == {n % MaxTask : n \in finished_copy_counter..last - 1}

\* Wrong variant: the counter moves and the entries stay as they are.
ReleaseKeepsEntries(last) ==
  /\ finished_copy_counter' = last
  /\ swept' = swept \cup Victims(Released(last))
  /\ UNCHANGED <<copy_task, owner>>

\* Release every copy numbered below last, also one that is still being started.
Release(last) ==
  /\ finished_copy_counter' = last
  /\ copy_task' = [i \in DOMAIN copy_task |-> IF i \in Released(last) THEN Free ELSE copy_task[i]]
  /\ swept' = swept \cup Victims(Released(last))
  /\ UNCHANGED owner

\* md_check_copy_tasks: up to the first copy that has not finished.
CheckCopyTasks ==
  \E last \in finished_copy_counter..copy_counter :
    /\ \A n \in finished_copy_counter..last - 1 : TaskFinished(n)
    /\ last = copy_counter \/ ~TaskFinished(last)
    /\ Release(last)

-----------------------------------------------------------------------------
(* md_copy_start *)

CopyStart(t, chunks) ==
  /\ pc[t] = "idle" /\ Len(copies) < MaxCopies
  /\ copies' = Append(copies, chunks) /\ ran' = Append(ran, {})
  /\ call' = [call EXCEPT ![t] = [NoCall EXCEPT !.copy = Len(copies) + 1, !.left = chunks]]
  /\ Goto(t, "check")
  /\ UNCHANGED <<tableVars, sw_counter, hw_counter, cmds, pmVars, handles, failed, synced, entryVars>>

StartCheck(t) ==
  /\ pc[t] = "check"
  /\ CheckCopyTasks
  /\ Goto(t, "alloc")
  /\ UNCHANGED <<copy_counter, engineVars, pmVars, histVars, call>>

Entry == copy_counter % MaxTask

\* Suspended, or no free entry: md_copy_start returns 0.
AllocRefused(t) ==
  /\ pc[t] = "alloc" /\ (state = 1 \/ copy_task[Entry].request_id # 0)
  /\ failed' = failed \cup {call[t].copy}
  /\ Return(t)
  /\ UNCHANGED <<tableVars, engineVars, pmVars, handles, copies, synced, entryVars>>

Takes(t) ==
  /\ copy_counter' = copy_counter + 1
  /\ call' = [call EXCEPT ![t].req = Entry]
  /\ owner' = Append(owner, call[t].copy) /\ swept' = swept \cup Victims({Entry})
  /\ Goto(t, "write")
  /\ UNCHANGED <<finished_copy_counter, engineVars, pmVars, histVars>>

\* Wrong variant: an entry is taken whether or not it is free.
AllocAnyEntry(t) ==
  /\ pc[t] = "alloc" /\ state = 0
  /\ copy_task' = [copy_task EXCEPT ![Entry] = [request_id |-> 0, copy_id |-> copy_counter]]
  /\ Takes(t)

\* Wrong variant: the entry is taken and not given its copy_id.
AllocWithoutId(t) ==
  /\ pc[t] = "alloc" /\ state = 0 /\ copy_task[Entry].request_id = 0
  /\ UNCHANGED copy_task
  /\ Takes(t)

\* md_alloc_copy_request: the entry has no request_id yet; one that another
\* client has just taken has none either.
Alloc(t) ==
  /\ pc[t] = "alloc" /\ state = 0 /\ copy_task[Entry].request_id = 0
  /\ copy_task' = [copy_task EXCEPT ![Entry].copy_id = copy_counter]
  /\ Takes(t)

\* WriteCmd: waits for room, queues the command and numbers it.
WriteCmd(t) ==
  /\ pc[t] = "write" /\ Len(cmds) < RingCmds
  /\ cmds' = Append(cmds, <<call[t].copy, copies[call[t].copy] - call[t].left + 1>>)
  /\ sw_counter' = sw_counter + 1
  /\ call' = [call EXCEPT ![t].id = sw_counter + 1, ![t].left = @ - 1]
  /\ Goto(t, "store")
  /\ UNCHANGED <<tableVars, hw_counter, ran, pmVars, histVars, entryVars>>

\* The number goes into the entry after the lock is released.
StoreId(t) ==
  /\ pc[t] = "store"
  /\ copy_task' = [copy_task EXCEPT ![call[t].req].request_id = call[t].id]
  /\ Goto(t, IF call[t].left > 0 THEN "write" ELSE "return")
  /\ UNCHANGED <<copy_counter, finished_copy_counter, engineVars, pmVars, histVars, entryVars, call>>

\* The copy_id is read back from the entry; clients take 0 for a failure.
StartReturn(t) ==
  /\ pc[t] = "return"
  /\ LET id == copy_task[call[t].req].copy_id IN
     IF id = 0
     THEN failed' = failed \cup {call[t].copy} /\ UNCHANGED handles
     ELSE /\ handles' = [handles EXCEPT ![t] = @ \cup {<<call[t].copy, id>>}]
          /\ UNCHANGED failed
  /\ Return(t)
  /\ UNCHANGED <<tableVars, engineVars, pmVars, copies, synced, entryVars>>

-----------------------------------------------------------------------------
(* md_copy_sync; md_memcpy is md_copy_start and then md_copy_sync *)

\* A handle below finished_copy_counter needs no waiting.
SyncCall(t, h) ==
  /\ pc[t] = "idle" /\ h \in handles[t]
  /\ handles' = [handles EXCEPT ![t] = @ \ {h}]
  /\ IF h[2] >= finished_copy_counter
     THEN /\ call' = [call EXCEPT ![t] = [NoCall EXCEPT !.copy = h[1], !.handle = h[2]]]
          /\ Goto(t, "look") /\ UNCHANGED synced
     ELSE synced' = synced \cup {h[1]} /\ UNCHANGED <<pc, call>>
  /\ UNCHANGED <<tableVars, engineVars, pmVars, copies, failed, entryVars>>

\* Wrong variant: the entry before that of the copy is looked at.
SyncLookBefore(t) ==
  /\ pc[t] = "look"
  /\ call' = [call EXCEPT ![t].id = copy_task[(call[t].handle - 1) % MaxTask].request_id]
  /\ Goto(t, "poll")
  /\ UNCHANGED <<tableVars, engineVars, pmVars, histVars, entryVars>>

SyncLook(t) ==
  /\ pc[t] = "look"
  /\ call' = [call EXCEPT ![t].id = copy_task[call[t].handle % MaxTask].request_id]
  /\ Goto(t, "poll")
  /\ UNCHANGED <<tableVars, engineVars, pmVars, histVars, entryVars>>

SyncPoll(t) ==
  /\ pc[t] = "poll" /\ CheckFinish(call[t].id)
  /\ Goto(t, "clean")
  /\ UNCHANGED <<tableVars, engineVars, pmVars, histVars, entryVars, call>>

SyncClean(t) ==
  /\ pc[t] = "clean"
  /\ CheckCopyTasks
  /\ synced' = synced \cup {call[t].copy}
  /\ Return(t)
  /\ UNCHANGED <<copy_counter, engineVars, pmVars, handles, copies, failed>>

-----------------------------------------------------------------------------
(* The engine, and power management *)

Execute ==
  /\ cmds # << >> /\ state = 0
  /\ ran' = [ran EXCEPT ![Head(cmds)[1]] = @ \cup {Head(cmds)[2]}]
  /\ cmds' = Tail(cmds)
  /\ hw_counter' = (hw_counter + 1) % CounterMod
  /\ UNCHANGED <<tableVars, sw_counter, pmVars, histVars, entryVars, pc, call>>

\* md_drv_suspend waits for every copy and releases it.  Its callers have
\* frozen all processes, outside of any call of the driver.
Suspend ==
  /\ state = 0 /\ suspends < MaxSuspends
  /\ \A t \in Clients : pc[t] = "idle"
  /\ \A n \in finished_copy_counter..copy_counter - 1 : TaskFinished(n)
  /\ Release(copy_counter)
  /\ sw_counter' = hw_counter
  /\ state' = 1 /\ suspends' = suspends + 1
  /\ UNCHANGED <<copy_counter, hw_counter, cmds, ran, histVars, pc, call>>

\* The register does not survive: md_drv_resume would not write it otherwise.
PowerOff ==
  /\ state = 1 /\ hw_counter # 0
  /\ hw_counter' = 0
  /\ UNCHANGED <<tableVars, sw_counter, cmds, ran, pmVars, histVars, entryVars, pc, call>>

\* Wrong variant: the register is not restored.
ResumeForgets ==
  /\ state = 1
  /\ state' = 0
  /\ UNCHANGED <<tableVars, engineVars, suspends, histVars, entryVars, pc, call>>

Resume ==
  /\ state = 1
  /\ state' = 0
  /\ hw_counter' = sw_counter % CounterMod
  /\ UNCHANGED <<tableVars, sw_counter, cmds, ran, suspends, histVars, entryVars, pc, call>>

ClientStep(t) ==
  \/ StartCheck(t) \/ AllocRefused(t) \/ Alloc(t) \/ WriteCmd(t) \/ StoreId(t) \/ StartReturn(t)
  \/ SyncLook(t) \/ SyncPoll(t) \/ SyncClean(t)

Next ==
  \/ \E t \in Clients :
       \/ \E n \in Chunks : CopyStart(t, n)
       \/ \E h \in handles[t] : SyncCall(t, h)
       \/ ClientStep(t)
  \/ Execute \/ Suspend \/ PowerOff \/ Resume

\* The engine executes what is queued and clients in a call are scheduled.
Fairness == WF_vars(Execute) /\ \A t \in Clients : WF_vars(ClientStep(t))

Spec == Init /\ [][Next]_vars
FairSpec == Spec /\ Fairness

-----------------------------------------------------------------------------
(* Properties *)

Labels == {"idle", "check", "alloc", "write", "store", "return", "look", "poll", "clean"}

\* Every variable keeps its type; the table never holds more than MaxTask
\* copies, the unfinished ones being those between the two counters, until a
\* copy loses its entry while it is being started.
TypeOK ==
  /\ copy_task \in [0..MaxTask - 1 -> [request_id : Nat, copy_id : Nat]]
  /\ copy_counter \in Nat /\ finished_copy_counter \in 0..copy_counter
  /\ swept = {} => copy_counter - finished_copy_counter <= MaxTask
  /\ sw_counter \in Nat /\ hw_counter \in 0..CounterMod - 1
  /\ cmds \in Seq((1..Len(copies)) \X Nat) /\ Len(cmds) <= RingCmds
  /\ state \in {0, 1} /\ suspends \in Nat
  /\ pc \in [Clients -> Labels]
  /\ \A t \in Clients : handles[t] \subseteq (1..Len(copies)) \X Nat
  /\ copies \in Seq(Nat) /\ ran \in Seq(SUBSET Nat)
  /\ owner \in Seq(1..Len(copies)) /\ swept \subseteq 1..Len(copies)

Complete(c) == ran[c] = 1..copies[c]

\* md_copy_sync, and md_memcpy with it, returns only when every chunk of the
\* copy has been executed: the caller goes on to free the source buffer.  So it
\* is until a copy loses its entry while it is being started.
SyncMeansComplete == swept = {} => \A c \in synced : Complete(c)

\* No entry is released (and its buffers unmapped from DMA) while the engine
\* still has commands of its copy to execute, until a copy loses its entry.
ReleasedWhenComplete ==
  swept = {} =>
    \A n \in 0..finished_copy_counter - 1 : Complete(owner[n + 1])

\* With no call in progress and every copy released, the next copy finds its
\* entry free: an entry nobody will release would refuse copies for ever.
EntryFree ==
  (\A t \in Clients : pc[t] = "idle") /\ finished_copy_counter = copy_counter
    => copy_task[Entry].request_id = 0

\* Only the loss of an entry during md_copy_start can make the table unusable.
TableUsable == swept = {} => EntryFree

\* md_copy_start returns 0, and md_dev_ioctl reports "too much work in queue",
\* for a copy that the engine was given in two cases only: for the first copy
\* after boot, whose copy_id is 0, and for one that lost its entry before
\* md_copy_start read the copy_id back.
FailedMeansNotStarted ==
  LET Given(c) == ran[c] # {} \/ \E i \in DOMAIN cmds : cmds[i][1] = c
  IN  \A c \in failed : Given(c) => c = owner[1] \/ c \in swept

\* The engine is half of the counter's range past the command client t waits for.
Lapped(t) == sw_counter - Len(cmds) - call[t].id >= CounterMod \div 2

\* A client that waits for a copy gets out of its polling loop, unless it is not
\* scheduled while the engine executes half of the counter's range: the command
\* then looks like one that is still to come.
SyncReturns == \A t \in Clients : pc[t] = "poll" ~> (pc[t] = "idle" \/ Lapped(t))
=============================================================================
