---------------------------- MODULE StreamEngine ----------------------------
(***************************************************************************)
(* The streaming engine on a Mars board (se.c): WriteCmd copies commands   *)
(* into a ring that the engine executes.  It is called by se_write, and by *)
(* the vertical-sync interrupt handler, which moves the commands of one    *)
(* frame from a queue that a client fills in shared memory.                *)
(*                                                                         *)
(* Sizes and pointers count 32-bit words.  Commands are numbered in the    *)
(* order in which they are handed to WriteCmd.  One processor: while the   *)
(* handler runs neither se_write nor the client does; the engine does.     *)
(***************************************************************************)
EXTENDS Integers, Sequences, FiniteSets

CONSTANTS
  Size,        \* dev->size
  QSize,       \* u32Size of the queue
  Payloads,    \* lengths of the entries of the queue, without their header
  Counts,      \* lengths of the writes
  MaxEntries,  \* bound on entries and end markers put into the queue
  MaxWrites    \* bound on writes

ASSUME SEAssumption ==
  /\ Size \in Nat \ {0} /\ QSize \in Nat \ {0}
  /\ Payloads \subseteq 1..Size - 1 /\ Counts \subseteq 0..Size - 1
  /\ MaxEntries \in Nat /\ MaxWrites \in Nat

VARIABLES
  queue,      \* the entries from u32RdPtr to u32WrPtr; 0 is an end marker
  qrd, qwr,   \* u32RdPtr, u32WrPtr
  go,         \* the queue's go
  vsync,      \* word 0xA00000DC: "off" (0), "armed" (1), "fired" (2)
  handler,    \* se_irq_handler: "idle", "loop", "write" or "finish"
  dirty,      \* its local dirty
  part2,      \* length of the entry's second part, still to be written, or None
  pc,         \* each WriteCmd: "idle", "room" or "copy"
  base,       \* its pbyWritePointer
  ptr,        \* its pWptr
  next, len,  \* next command to copy, commands to go
  publish,    \* its parameter go
  wrptr,      \* dev->wrptr
  cmdBuf,     \* the ring
  hwRd, hwWr, \* SeCmdReadPtr, SeCmdWritePtr
  numbered,   \* commands handed over so far
  executed,   \* commands executed so far
  entries, writes,  \* made so far
  ends,       \* history: last commands of entries and writes
  raced,      \* history: the handler called WriteCmd inside a WriteCmd
  overrun     \* history: a second part was let in without room for it

queueVars == <<queue, qrd, qwr, go, vsync, entries>>
irqVars   == <<handler, dirty, part2>>
cmdVars   == <<pc, base, ptr, next, len, publish>>
ringVars  == <<wrptr, cmdBuf, hwRd, hwWr>>
histVars  == <<numbered, executed, writes, ends, raced, overrun>>
vars == <<queueVars, irqVars, cmdVars, ringVars, histVars>>

Callers == {"write", "irq"}
None == -1

Init ==
  /\ queue = << >> /\ qrd = 0 /\ qwr = 0 /\ go = FALSE /\ vsync = "off" /\ entries = 0
  /\ handler = "idle" /\ dirty = FALSE /\ part2 = None
  /\ pc = [a \in Callers |-> "idle"]
  /\ base = [a \in Callers |-> 0] /\ ptr = [a \in Callers |-> 0]
  /\ next = [a \in Callers |-> 0] /\ len = [a \in Callers |-> 0]
  /\ publish = [a \in Callers |-> FALSE]
  /\ wrptr = 0 /\ cmdBuf = [i \in 0..Size - 1 |-> 0]
  /\ hwRd = 0 /\ hwWr = 0
  /\ numbered = 0 /\ executed = 0 /\ writes = 0 /\ ends = {0}
  /\ raced = FALSE /\ overrun = FALSE

\* Words from pointer r to pointer w.
Span(r, w) == (w - r + Size) % Size

-----------------------------------------------------------------------------
(* WriteCmd *)

\* The call, for n commands from number k on: the write pointer of the engine
\* is loaded.  A call for no command only publishes what was copied before.
Call(a, n, k, g) ==
  /\ IF n = 0
     THEN /\ hwWr' = IF g THEN wrptr ELSE hwWr
          /\ UNCHANGED cmdVars
     ELSE /\ pc' = [pc EXCEPT ![a] = "room"]
          /\ base' = [base EXCEPT ![a] = hwWr]
          /\ next' = [next EXCEPT ![a] = k]
          /\ len' = [len EXCEPT ![a] = n]
          /\ publish' = [publish EXCEPT ![a] = g]
          /\ UNCHANGED <<ptr, hwWr>>
  /\ UNCHANGED <<wrptr, cmdBuf, hwRd>>

\* Wrong variants: no word is kept free; the ring's size is not added to a read
\* pointer that is not past the write pointer.
FitsExactly(b, n) == b + n <= (IF hwRd <= b THEN hwRd + Size ELSE hwRd)
FitsNoWrap(b, n) == b + n < hwRd

Fits(b, n) == b + n < (IF hwRd <= b THEN hwRd + Size ELSE hwRd)

\* The loop ends when the commands fit behind the pointer loaded before.
Room(a) ==
  /\ pc[a] = "room" /\ Fits(base[a], len[a])
  /\ pc' = [pc EXCEPT ![a] = "copy"]
  /\ ptr' = [ptr EXCEPT ![a] = wrptr]
  /\ overrun' = (overrun \/ (wrptr # hwWr /\ Span(hwRd, wrptr) + len[a] >= Size))
  /\ UNCHANGED <<queueVars, irqVars, base, next, len, publish, ringVars,
                 numbered, executed, writes, ends, raced>>

\* Wrong variant: the limit of the ring is passed.
BumpNoWrap(p) == p + 1

Bump(p) == IF p + 1 >= Size THEN p + 1 - Size ELSE p + 1

CopyWord(a) ==
  /\ pc[a] = "copy" /\ len[a] > 0
  /\ cmdBuf' = [cmdBuf EXCEPT ![ptr[a]] = next[a]]
  /\ ptr' = [ptr EXCEPT ![a] = Bump(@)]
  /\ next' = [next EXCEPT ![a] = @ + 1]
  /\ len' = [len EXCEPT ![a] = @ - 1]
  /\ UNCHANGED <<queueVars, irqVars, pc, base, publish, wrptr, hwRd, hwWr, histVars>>

\* dev->wrptr, and the engine's write pointer when the commands are to go.
Finish(a) ==
  /\ pc[a] = "copy" /\ len[a] = 0
  /\ wrptr' = ptr[a]
  /\ hwWr' = IF publish[a] THEN ptr[a] ELSE hwWr
  /\ pc' = [pc EXCEPT ![a] = "idle"]
  /\ UNCHANGED <<queueVars, irqVars, base, ptr, next, len, publish, cmdBuf, hwRd, histVars>>

\* The engine executes published commands.
Execute ==
  /\ hwRd # hwWr
  /\ hwRd' = (hwRd + 1) % Size
  /\ executed' = executed + 1
  /\ UNCHANGED <<queueVars, irqVars, cmdVars, wrptr, cmdBuf, hwWr,
                 numbered, writes, ends, raced, overrun>>

-----------------------------------------------------------------------------
(* se_write.  dev->sem keeps other writers out, so one writer is enough. *)

Thread == handler = "idle"

Write(n) ==
  /\ Thread /\ pc["write"] = "idle" /\ writes < MaxWrites
  /\ Call("write", n, numbered + 1, TRUE)
  /\ numbered' = numbered + n
  /\ ends' = ends \cup {numbered + n}
  /\ writes' = writes + 1
  /\ UNCHANGED <<queueVars, irqVars, executed, raced, overrun>>

-----------------------------------------------------------------------------
(* se_irq_handler *)

\* An entry of e words of payload has a header word; an end marker is one.
Step(p, e) == (p + 1 + e) % QSize

\* The client puts an entry or an end marker into the queue.
Enqueue(e) ==
  /\ Thread /\ entries < MaxEntries
  /\ ((qwr - qrd + QSize) % QSize) + 1 + e < QSize
  /\ queue' = Append(queue, e) /\ qwr' = Step(qwr, e)
  /\ entries' = entries + 1
  /\ UNCHANGED <<qrd, go, vsync, irqVars, cmdVars, ringVars, histVars>>

\* The client lets the queue go and asks for vertical syncs.
Kick ==
  /\ Thread /\ queue # << >> /\ (~go \/ vsync = "off")
  /\ go' = TRUE
  /\ vsync' = IF vsync = "off" THEN "armed" ELSE vsync
  /\ UNCHANGED <<queue, qrd, qwr, entries, irqVars, cmdVars, ringVars, histVars>>

\* The video processor, asked for vertical syncs, signals one.
Vsync ==
  /\ vsync = "armed"
  /\ vsync' = "fired"
  /\ UNCHANGED <<queue, qrd, qwr, go, entries, irqVars, cmdVars, ringVars, histVars>>

IrqEnter ==
  /\ handler = "idle" /\ vsync = "fired"
  /\ vsync' = "armed"
  /\ dirty' = FALSE
  /\ handler' = IF go THEN "loop" ELSE "finish"
  /\ UNCHANGED <<queue, qrd, qwr, go, entries, part2, cmdVars, ringVars, histVars>>

\* The end marker of a frame ends the loop for this vertical sync.
IrqMarker ==
  /\ handler = "loop" /\ qrd # qwr /\ Head(queue) = 0
  /\ queue' = Tail(queue) /\ qrd' = Step(qrd, 0)
  /\ dirty' = TRUE
  /\ handler' = "finish"
  /\ UNCHANGED <<qwr, go, vsync, entries, part2, cmdVars, ringVars, histVars>>

\* Wrong variant: each part is published for itself.
FirstPartGoes(r, e) == TRUE

\* The first part is published with the call when it is the only one.
FirstPartAlone(r, e) == r + e < QSize

\* An entry that reaches the end of the queue is written in two parts.
IrqEntry ==
  /\ handler = "loop" /\ qrd # qwr /\ Head(queue) # 0
  /\ LET e == Head(queue)
         r == (qrd + 1) % QSize
         alone == r + e < QSize
     IN /\ Call("irq", IF alone THEN e ELSE QSize - r, numbered + 1, FirstPartAlone(r, e))
        /\ part2' = IF alone THEN None ELSE r + e - QSize
        /\ queue' = Tail(queue) /\ qrd' = Step(qrd, e)
        /\ numbered' = numbered + e
        /\ ends' = ends \cup {numbered + e}
  /\ dirty' = TRUE
  /\ handler' = "write"
  /\ raced' = (raced \/ pc["write"] # "idle")
  /\ UNCHANGED <<qwr, go, vsync, entries, executed, writes, overrun>>

\* WriteCmd returned: the second part, if there is one, then the next entry.
IrqSecond ==
  /\ handler = "write" /\ pc["irq"] = "idle" /\ part2 # None
  /\ Call("irq", part2, next["irq"], TRUE)
  /\ part2' = None
  /\ UNCHANGED <<queueVars, handler, dirty, histVars>>

IrqWritten ==
  /\ handler = "write" /\ pc["irq"] = "idle" /\ part2 = None
  /\ handler' = "loop"
  /\ UNCHANGED <<queueVars, dirty, part2, cmdVars, ringVars, histVars>>

IrqEmpty ==
  /\ handler = "loop" /\ qrd = qwr
  /\ handler' = "finish"
  /\ UNCHANGED <<queueVars, dirty, part2, cmdVars, ringVars, histVars>>

\* Wrong variant: the queue stops at the end of each frame.
IrqFinishStops ==
  /\ handler = "finish"
  /\ go' = FALSE
  /\ vsync' = IF dirty THEN vsync ELSE "off"
  /\ handler' = "idle"
  /\ UNCHANGED <<queue, qrd, qwr, entries, dirty, part2, cmdVars, ringVars, histVars>>

\* An empty queue stops; when there was nothing to do no more vertical syncs
\* are asked for.
IrqFinish ==
  /\ handler = "finish"
  /\ go' = (go /\ qrd # qwr)
  /\ vsync' = IF dirty THEN vsync ELSE "off"
  /\ handler' = "idle"
  /\ UNCHANGED <<queue, qrd, qwr, entries, dirty, part2, cmdVars, ringVars, histVars>>

-----------------------------------------------------------------------------
WriteCmd(a) == Room(a) \/ CopyWord(a) \/ Finish(a)

Handler ==
  \/ IrqEnter \/ IrqMarker \/ IrqEntry \/ IrqSecond \/ IrqWritten \/ IrqEmpty \/ IrqFinish
  \/ WriteCmd("irq")

Client ==
  \/ \E e \in Payloads \cup {0} : Enqueue(e)
  \/ Kick

Next ==
  \/ Handler
  \/ Thread /\ WriteCmd("write")
  \/ \E n \in Counts : Write(n)
  \/ Client
  \/ Vsync \/ Execute

Spec == Init /\ [][Next]_vars

\* The interrupt is served, writers are scheduled, the engine executes what was
\* published and the video processor signals the vertical syncs asked for.
FairSpec ==
  /\ Spec
  /\ WF_vars(Handler) /\ WF_vars(Thread /\ WriteCmd("write"))
  /\ WF_vars(Vsync) /\ WF_vars(Execute)

-----------------------------------------------------------------------------
(* Properties *)

\* Types; every pointer stays inside its ring.
TypeOK ==
  /\ qrd \in 0..QSize - 1 /\ qwr \in 0..QSize - 1 /\ (queue = << >> <=> qrd = qwr)
  /\ go \in BOOLEAN /\ vsync \in {"off", "armed", "fired"}
  /\ handler \in {"idle", "loop", "write", "finish"} /\ dirty \in BOOLEAN
  /\ part2 \in -1..QSize
  /\ pc \in [Callers -> {"idle", "room", "copy"}]
  /\ base \in [Callers -> 0..Size - 1] /\ ptr \in [Callers -> 0..Size - 1]
  /\ next \in [Callers -> Nat] /\ len \in [Callers -> 0..Size - 1]
  /\ wrptr \in 0..Size - 1 /\ hwRd \in 0..Size - 1 /\ hwWr \in 0..Size - 1
  /\ cmdBuf \in [0..Size - 1 -> Nat]

\* What the engine has been told to execute are the commands handed over, once
\* each and in order, whatever was copied behind them meanwhile: WriteCmd never
\* overwrites a command before it was executed.  The two ways in which the code
\* fails to keep this are excluded by name.
CommandsIntact ==
  ~raced /\ ~overrun =>
    \A i \in 0..Span(hwRd, hwWr) - 1 : cmdBuf[(hwRd + i) % Size] = executed + 1 + i

\* The engine is only told to go at the end of an entry or write: it never runs
\* into the middle of an entry that wraps around the end of the queue.
EntriesWhole ==
  ~raced /\ ~overrun => executed + Span(hwRd, hwWr) \in ends

\* A queue that was let go is emptied, one frame at each vertical sync.
QueueDrains == (go /\ vsync # "off") ~> queue = << >>

\* A write returns, although WriteCmd waits in a loop for the engine.  One that
\* the handler broke into may wait for ever: the pointer it measures from is the
\* engine's as it was before.
WriteReturns == pc["write"] # "idle" ~> (pc["write"] = "idle" \/ raced)
=============================================================================
