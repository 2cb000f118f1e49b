------------------------------ MODULE VenusIR ------------------------------
(***************************************************************************)
(* The infrared receiver (venus_ir.c): an interrupt handler that puts key  *)
(* codes into a kfifo, readers that take them out with the unlocked kfifo  *)
(* functions, and the operations that empty or re-configure the driver.    *)
(*                                                                         *)
(* The fifo is kept in words: in and out count words modulo Modulus (2^30  *)
(* for the 32-bit byte counts).  Frame number n stands for its code, so    *)
(* word 2n is a code (IRRP) and word 2n + 1 its repeat flag (from IRSR).   *)
(***************************************************************************)
EXTENDS Integers, FiniteSets, Sequences

CONSTANTS
  Readers,     \* threads in venus_ir_read
  ReadWords,   \* sizes of reads, in words
  Depth,       \* FIFO_DEPTH, a power of two
  Modulus,     \* range of the fifo's counters, in words
  Debounce,    \* debounce after boot, in ticks
  Debounces,   \* values of debounce set by the ioctl
  RepeatMax,   \* REPEAT_MAX_INTERVAL, in ticks
  Protocols,   \* protocols set by the ioctl
  Modes,       \* driver modes set by the ioctl
  Exclusive,   \* clients open and configure the device only between reads
  MaxFrames    \* bound on frames received

ASSUME IRAssumption ==
  /\ Depth \in Nat \ {0} /\ Modulus \in Nat /\ Modulus % Depth = 0 /\ Modulus > Depth
  /\ ReadWords \subseteq Nat \ {0}
  /\ Debounce \in Nat /\ Debounces \subseteq Nat /\ RepeatMax \in Nat
  /\ Exclusive \in BOOLEAN
  /\ Protocols \subseteq {"NEC", "RAW_NEC"} /\ Modes \subseteq {"SINGLE", "DOUBLE"}
  /\ MaxFrames \in Nat

VARIABLES
  in, out, buffer,   \* the kfifo
  mars,              \* is_mars_cpu()
  protocol, mode,    \* ir_protocol, driver_mode
  debounce,          \* least time between a key and its repeat, in ticks
  newMode,           \* mode an ioctl is about to store, after its kfifo_reset
  since,             \* ticks since lastRecvMs, saturating
  frame,             \* MIS_IR_SR/MIS_IR_RP: the frame to be read, or none
  intEnable,         \* MIS_IR_CR: the receiver interrupts
  irq,               \* its bit of MIS_ISR
  frames,            \* frames received so far (bound, names the codes)
  pc, left, word,    \* readers: where, words to go, the local uintBuf
  asleep,            \* readers in TASK_INTERRUPTIBLE on venus_ir_read_wait
  delivered, stored, \* history: words consumed by readers; frames put
  phase,             \* history: words consumed since the fifo was emptied, mod 2
  split,             \* history: a pair was stored in part
  mixed,             \* history: words were put while an ioctl changed the mode
  silent             \* history: words were put and nobody was woken

fifoVars == <<in, out, buffer>>
hwVars   == <<frame, intEnable, irq, frames>>
readVars == <<pc, left, word, asleep>>
cfgVars  == <<mars, protocol, mode, debounce, newMode>>
histVars == <<delivered, stored, phase, split, mixed, silent>>
vars == <<fifoVars, cfgVars, since, hwVars, readVars, histVars>>

NoFrame == [code |-> 0, repeat |-> FALSE]
NoMode  == "none"

\* A word as part of a frame: the code is element 0, the flag element 1.
Cell(w) == <<w \div 2, w % 2>>

\* __kfifo_len
KLen == (in - out + Modulus) % Modulus

\* Space as __kfifo_put computes it.
KFree == Depth - KLen

Init ==
  /\ in = 0 /\ out = 0 /\ buffer = [i \in 0..Depth - 1 |-> 0]
  /\ mars \in BOOLEAN /\ protocol = "NEC" /\ mode = "SINGLE" /\ newMode = NoMode
  /\ debounce = Debounce /\ since = 0
  /\ frame = NoFrame /\ intEnable = TRUE /\ irq = FALSE /\ frames = 0
  /\ pc = [r \in Readers |-> "idle"]
  /\ left = [r \in Readers |-> 0] /\ word = [r \in Readers |-> 0]
  /\ asleep = {}
  /\ delivered = << >> /\ stored = {} /\ phase = 0
  /\ split = FALSE /\ mixed = FALSE /\ silent = FALSE

-----------------------------------------------------------------------------
(* Interrupt side *)

\* Wrong variant: the space left is not looked at.
FittingAll(words) == words

\* What __kfifo_put takes of one word after the other: each put is cut to the
\* space left, so the second word of a pair may be dropped alone.
Fitting(words) == SubSeq(words, 1, IF Len(words) <= KFree THEN Len(words) ELSE KFree)

\* The words of a frame, as the driver mode says.
WordsOf(f) ==
  IF mode = "DOUBLE" THEN <<2 * f.code, 2 * f.code + 1>> ELSE <<2 * f.code>>

Put(words) ==
  LET ws == Fitting(words) IN
  /\ in' = (in + Len(ws)) % Modulus
  /\ buffer' = [i \in 0..Depth - 1 |->
                  IF \E k \in 1..Len(ws) : (in + k - 1) % Depth = i
                  THEN ws[CHOOSE k \in 1..Len(ws) : (in + k - 1) % Depth = i]
                  ELSE buffer[i]]
  /\ stored' = stored \cup {ws[k] \div 2 : k \in 1..Len(ws)}
  /\ split' = (split \/ Len(ws) \notin {0, Len(words)})
  /\ mixed' = (mixed \/ newMode # NoMode)
  /\ UNCHANGED out

\* wake_up_interruptible
Wake == asleep' = {}

\* A repeat frame soon after the last one, or long after it, is ignored.
Bounced == frame.repeat /\ since < debounce
Outdated == frame.repeat /\ since > RepeatMax

Handled ==
  /\ irq' = FALSE /\ frame' = NoFrame
  /\ UNCHANGED <<intEnable, frames, cfgVars, pc, left, word, delivered, phase>>

\* IR_interrupt_handler
IsrIgnore ==
  /\ irq /\ protocol # "RAW_NEC"
  /\ frame = NoFrame \/ Bounced \/ Outdated
  /\ since' = IF frame # NoFrame /\ Bounced THEN 0 ELSE since
  /\ Handled
  /\ UNCHANGED <<fifoVars, asleep, stored, split, mixed, silent>>

IsrReceive ==
  /\ irq /\ protocol # "RAW_NEC"
  /\ frame # NoFrame /\ ~Bounced /\ ~Outdated
  /\ since' = 0
  /\ Put(WordsOf(frame))
  /\ Wake
  /\ Handled
  /\ UNCHANGED silent

\* raw_nec_decoder: samples that make no symbol are dropped; the readers are
\* not woken.
IsrRaw ==
  /\ irq /\ protocol = "RAW_NEC"
  /\ \/ frame # NoFrame /\ Put(WordsOf(frame)) /\ silent' = TRUE
     \/ UNCHANGED <<fifoVars, stored, split, mixed, silent>>
  /\ Handled
  /\ UNCHANGED <<since, asleep>>

\* The receiver has decoded a frame; one that was not read is overwritten.
Frame(repeat) ==
  /\ frames < MaxFrames
  /\ frames' = frames + 1
  /\ frame' = [code |-> frames + 1, repeat |-> repeat]
  /\ irq' = (irq \/ intEnable)
  /\ UNCHANGED <<intEnable, fifoVars, cfgVars, since, readVars, histVars>>

Tick ==
  /\ since <= RepeatMax \/ \E d \in Debounces \cup {Debounce} : since < d
  /\ since' = since + 1
  /\ UNCHANGED <<fifoVars, cfgVars, hwVars, readVars, histVars>>

-----------------------------------------------------------------------------
(* venus_ir_read *)

Goto(r, label) == pc' = [pc EXCEPT ![r] = label]

ReadFrame == <<cfgVars, since, hwVars, stored, split, mixed, silent>>

ReadCall(r, n) ==
  /\ pc[r] = "idle" /\ (Exclusive => newMode = NoMode)
  /\ Goto(r, "peek")
  /\ left' = [left EXCEPT ![r] = n]
  /\ UNCHANGED <<ReadFrame, fifoVars, word, asleep, delivered, phase>>

\* wait_event_interruptible: the test before any waiting.
ReadPeek(r) ==
  /\ pc[r] = "peek"
  /\ Goto(r, IF KLen > 0 THEN "clip" ELSE "prepare")
  /\ UNCHANGED <<ReadFrame, fifoVars, left, word, asleep, delivered, phase>>

\* prepare_to_wait: on the queue before the test that decides to sleep.
ReadPrepare(r) ==
  /\ pc[r] = "prepare"
  /\ asleep' = asleep \cup {r}
  /\ Goto(r, "test")
  /\ UNCHANGED <<ReadFrame, fifoVars, left, word, delivered, phase>>

\* Wrong variant: a reader that was on the queue sleeps without testing.
ReadTestTrusting(r) ==
  /\ pc[r] = "test"
  /\ Goto(r, "sleep")
  /\ UNCHANGED <<ReadFrame, fifoVars, left, word, asleep, delivered, phase>>

ReadTest(r) ==
  /\ pc[r] = "test"
  /\ Goto(r, IF KLen > 0 THEN "clip" ELSE "sleep")
  /\ asleep' = IF KLen > 0 THEN asleep \ {r} ELSE asleep
  /\ UNCHANGED <<ReadFrame, fifoVars, left, word, delivered, phase>>

\* schedule() returns once the reader was made runnable.
ReadResume(r) ==
  /\ pc[r] = "sleep" /\ r \notin asleep
  /\ Goto(r, "prepare")
  /\ UNCHANGED <<ReadFrame, fifoVars, left, word, asleep, delivered, phase>>

\* A signal ends the read; after the freezer's the read starts again.
ReadInterrupted(r) ==
  /\ pc[r] = "sleep"
  /\ asleep' = asleep \ {r}
  /\ \/ Goto(r, "idle") /\ left' = [left EXCEPT ![r] = 0]
     \/ Goto(r, "peek") /\ UNCHANGED left
  /\ UNCHANGED <<ReadFrame, fifoVars, word, delivered, phase>>

\* Wrong variant: the request is not cut to what the fifo holds.
ReadClipNothing(r) ==
  /\ pc[r] = "clip"
  /\ Goto(r, "get")
  /\ UNCHANGED <<ReadFrame, fifoVars, left, word, asleep, delivered, phase>>

ReadClip(r) ==
  /\ pc[r] = "clip"
  /\ Goto(r, IF KLen < left[r] THEN "cut" ELSE "get")
  /\ UNCHANGED <<ReadFrame, fifoVars, left, word, asleep, delivered, phase>>

\* The length is read again, and may by now exceed the request.
ReadCut(r) ==
  /\ pc[r] = "cut"
  /\ left' = [left EXCEPT ![r] = KLen]
  /\ Goto(r, "get")
  /\ UNCHANGED <<ReadFrame, fifoVars, word, asleep, delivered, phase>>

\* Wrong variant: the word is released before it is copied.
GetAdvancesFirst(r) ==
  /\ pc[r] = "get" /\ left[r] > 0
  /\ word' = [word EXCEPT ![r] = IF KLen > 0 THEN buffer[(out + 1) % Depth] ELSE @]
  /\ Goto(r, IF KLen > 0 THEN "advance" ELSE "copied")
  /\ UNCHANGED <<ReadFrame, fifoVars, left, asleep, delivered, phase>>

\* __kfifo_get, the copy: of nothing when the fifo is empty.
GetCopy(r) ==
  /\ pc[r] = "get" /\ left[r] > 0
  /\ word' = [word EXCEPT ![r] = IF KLen > 0 THEN buffer[out % Depth] ELSE @]
  /\ Goto(r, IF KLen > 0 THEN "advance" ELSE "copied")
  /\ UNCHANGED <<ReadFrame, fifoVars, left, asleep, delivered, phase>>

\* __kfifo_get, the store of fifo->out, from the value it has now.
GetAdvance(r) ==
  /\ pc[r] = "advance"
  /\ out' = (out + 1) % Modulus
  /\ delivered' = Append(delivered, Cell(word[r]))
  /\ phase' = (phase + 1) % 2
  /\ Goto(r, "copied")
  /\ UNCHANGED <<ReadFrame, in, buffer, left, word, asleep>>

\* copy_to_user, to the start of the user's buffer each time.
ReadCopied(r) ==
  /\ pc[r] = "copied"
  /\ left' = [left EXCEPT ![r] = @ - 1]
  /\ word' = [word EXCEPT ![r] = 0]
  /\ Goto(r, "get")
  /\ UNCHANGED <<ReadFrame, fifoVars, asleep, delivered, phase>>

ReadReturn(r) ==
  /\ pc[r] = "get" /\ left[r] = 0
  /\ Goto(r, "idle")
  /\ UNCHANGED <<ReadFrame, fifoVars, left, word, asleep, delivered, phase>>

-----------------------------------------------------------------------------
(* Open, ioctls and power management.  Any process may call them, also     *)
(* while another one reads; Exclusive says that none does.                 *)

Serial == Exclusive => \A r \in Readers : pc[r] = "idle"

KReset ==
  /\ in' = 0 /\ out' = 0
  /\ phase' = 0 /\ split' = FALSE /\ mixed' = FALSE /\ silent' = FALSE
  /\ UNCHANGED <<buffer, delivered, stored>>

\* venus_ir_open
Open ==
  /\ Serial
  /\ KReset
  /\ UNCHANGED <<cfgVars, since, hwVars, readVars>>

\* VENUS_IR_IOC_SET_PROTOCOL, and VENUS_IR_IOC_FLUSH_IRRP (with the protocol
\* set before): Venus_IR_Init, then kfifo_reset.  A frame that was not read
\* may survive the reset of the receiver.
SetProtocol(p) ==
  /\ Serial /\ newMode = NoMode
  /\ mars \/ p # "RAW_NEC"
  /\ protocol' = p
  /\ since' = 0 /\ frame' \in {frame, NoFrame}
  /\ intEnable' = TRUE
  /\ KReset
  /\ UNCHANGED <<mars, mode, debounce, newMode, irq, frames, readVars>>

\* Venus_IR_Init refuses the protocol, which ir_protocol now names.
SetProtocolRefused(p) ==
  /\ Serial /\ newMode = NoMode
  /\ ~mars /\ p = "RAW_NEC"
  /\ protocol' = p
  /\ UNCHANGED <<mars, mode, debounce, newMode, fifoVars, since, hwVars, readVars, histVars>>

\* Wrong variant: the words of the old mode stay in the fifo.
SetModeWithoutReset(m) ==
  /\ Serial /\ newMode = NoMode
  /\ newMode' = m /\ phase' = 0 /\ split' = FALSE /\ mixed' = FALSE
  /\ UNCHANGED <<mars, protocol, mode, debounce, fifoVars, since, hwVars, readVars,
                 delivered, stored, silent>>

\* VENUS_IR_IOC_SET_DRIVER_MODE: the fifo is emptied before the mode changes.
SetModeReset(m) ==
  /\ Serial /\ newMode = NoMode
  /\ KReset
  /\ newMode' = m
  /\ UNCHANGED <<mars, protocol, mode, debounce, since, hwVars, readVars>>

SetModeStore ==
  /\ newMode # NoMode
  /\ mode' = newMode /\ newMode' = NoMode
  /\ UNCHANGED <<mars, protocol, debounce, fifoVars, since, hwVars, readVars, histVars>>

\* VENUS_IR_IOC_SET_DEBOUNCE
SetDebounce(d) ==
  /\ Serial /\ debounce' = d
  /\ UNCHANGED <<mars, protocol, mode, newMode, fifoVars, since, hwVars, readVars, histVars>>

\* venus_ir_suspend, venus_ir_resume: frames not read are flushed; samples of
\* the raw mode are not.
Flushed == IF protocol = "RAW_NEC" THEN frame ELSE NoFrame

Suspend ==
  /\ intEnable
  /\ intEnable' = FALSE /\ frame' = Flushed
  /\ UNCHANGED <<irq, frames, fifoVars, cfgVars, since, readVars, histVars>>

Resume ==
  /\ ~intEnable
  /\ intEnable' = TRUE /\ frame' = Flushed
  /\ UNCHANGED <<irq, frames, fifoVars, cfgVars, since, readVars, histVars>>

-----------------------------------------------------------------------------
Read(r) ==
  \/ ReadPeek(r) \/ ReadPrepare(r) \/ ReadTest(r) \/ ReadResume(r)
  \/ ReadClip(r) \/ ReadCut(r)
  \/ GetCopy(r) \/ GetAdvance(r) \/ ReadCopied(r) \/ ReadReturn(r)

Interrupt == IsrIgnore \/ IsrReceive \/ IsrRaw

Configure ==
  \/ Open
  \/ \E p \in Protocols : SetProtocol(p) \/ SetProtocolRefused(p)
  \/ \E m \in Modes : SetModeReset(m)
  \/ SetModeStore
  \/ \E d \in Debounces : SetDebounce(d)
  \/ Suspend \/ Resume

Next ==
  \/ Interrupt
  \/ \E repeat \in BOOLEAN : Frame(repeat)
  \/ Tick
  \/ \E r \in Readers : Read(r) \/ ReadInterrupted(r)
  \/ \E r \in Readers, n \in ReadWords : ReadCall(r, n)
  \/ Configure

Spec == Init /\ [][Next]_vars

\* The processor serves interrupts and runs the readers.  Nothing is assumed
\* of the remote control or of the clients.
FairSpec ==
  /\ Spec
  /\ WF_vars(Interrupt)
  /\ \A r \in Readers : WF_vars(Read(r))

-----------------------------------------------------------------------------
Labels == {"idle", "peek", "prepare", "test", "sleep", "clip", "cut",
           "get", "advance", "copied"}

\* Types; the fifo's counters stay in their range and the fifo never holds more
\* than its buffer (kfifo.c computes the room from counters that wrap).
TypeOK ==
  /\ in \in 0..Modulus - 1 /\ out \in 0..Modulus - 1 /\ KLen \in 0..Depth
  /\ DOMAIN buffer = 0..Depth - 1
  /\ mars \in BOOLEAN /\ protocol \in {"NEC", "RAW_NEC"}
  /\ mode \in {"SINGLE", "DOUBLE"} /\ newMode \in Modes \cup {NoMode}
  /\ debounce \in Debounces \cup {Debounce}
  /\ frames \in 0..MaxFrames /\ intEnable \in BOOLEAN /\ irq \in BOOLEAN
  /\ pc \in [Readers -> Labels] /\ left \in [Readers -> Nat]
  /\ asleep \subseteq Readers

\* The words in the fifo, oldest first.
Contents == [i \in 1..KLen |-> buffer[(out + i - 1) % Depth]]

\* venus_ir_read loops over the length it measured without looking at what
\* __kfifo_get returned: a lone reader finds a word each time, so uintBuf is
\* never copied out uninitialised.
GetFindsWord ==
  Cardinality(Readers) = 1 =>
    \A r \in Readers : pc[r] = "get" /\ left[r] > 0 => KLen > 0

\* The words alternate between codes and repeat flags, as a client that counts
\* the words it took expects.
Alternate == \A i \in 1..KLen : Contents[i] % 2 = (phase + i - 1) % 2

\* "send IRRP with IRSR together" (venus_ir.c:61, DOUBLE_WORD_IF): once the
\* double-word mode is set, codes and repeat flags alternate in the fifo.
PairsTogether ==
  mode = "DOUBLE" /\ newMode = NoMode /\ ~mixed => Alternate

\* Nothing tears the pairs but a put that found room for one word only, or a
\* frame between the reset and the store of a change of mode; and the next
\* reset of the fifo repairs them.
PairsTornOnlyWhenFull ==
  mode = "DOUBLE" /\ newMode = NoMode /\ ~mixed /\ ~split => Alternate

\* The same words as parts of their frames.
Queue == [i \in 1..KLen |-> Cell(Contents[i])]

\* Frames are the packets of the abstract queue.
Fifo == INSTANCE RPCFifo WITH
  Packets <- 1..MaxFrames,
  Capacity <- Depth + 1,
  queue <- Queue,
  delivered <- delivered,
  sent <- stored

\* The unlocked kfifo is a first-in first-out queue of frames: words come out
\* once, in order, although the interrupt handler puts between any two steps of
\* a read and the counters wrap.
ImplementsFifo == Fifo!FifoSpec

\* A reader that waits while the fifo holds a key gets out of the call, unless
\* the key was put by the raw decoder, which wakes nobody.
KeyIsRead ==
  \A r \in Readers :
    (pc[r] \in {"prepare", "test", "sleep"} /\ KLen > 0)
       ~> (pc[r] \in {"clip", "idle"} \/ silent)
=============================================================================
