------------------------------ MODULE RPCRing ------------------------------
(***************************************************************************)
(* One ring of the Realtek RPC driver: the read and write entry points of  *)
(* RPCpoll.c, RPCintr.c and RPCkern.c (the same code three times, apart    *)
(* from how a reader meets an empty ring) and the re-initialisation of the *)
(* ring by RPC_IOCTRESET.                                                  *)
(*                                                                         *)
(* Pointers are byte offsets from ringStart, so ringStart = 0 and          *)
(* ringEnd = RingSize.  A copy moves one 32-bit word per step.  Every      *)
(* pointer is a multiple of 4 (rounding is the code's), so the buffer is   *)
(* kept per word; the content of a word is the packet it belongs to and    *)
(* its index there, which is all a property needs to tell words apart.     *)
(***************************************************************************)
EXTENDS Integers, FiniteSets, Sequences

CONSTANTS
  Kinds,        \* the devices looked at, of "poll", "intr" and "kern"
  RingSize,     \* RPC_RING_SIZE, in bytes
  Writers,      \* threads that write
  Readers,      \* threads that read
  WriteCounts,  \* byte counts passed to write
  ReadCounts,   \* byte counts passed to read
  ResetBusy,    \* TRUE: RPC_IOCTRESET may come while calls are in progress
  MaxWrites,    \* bound on write calls
  MaxResets     \* bound on resets

ASSUME RingAssumption ==
  /\ Kinds \subseteq {"poll", "intr", "kern"}
  /\ RingSize \in Nat /\ RingSize > 0 /\ RingSize % 4 = 0
  /\ WriteCounts \subseteq Nat
  /\ ReadCounts \subseteq Nat
  /\ Writers \cap Readers = {}
  /\ ResetBusy \in BOOLEAN
  /\ MaxWrites \in Nat
  /\ MaxResets \in Nat

VARIABLES
  kind,               \* which of the three drivers the device belongs to
  ringIn, ringOut,    \* the two shared pointers
  ringBuf,            \* the words of the ring
  readSem, writeSem,  \* semaphore counts
  pc,                 \* where each thread is in its call
  count,              \* local: bytes asked for, clipped by a reader
  base,               \* local: own pointer as loaded for the copy
  done,               \* local: bytes copied so far
  userBuf,            \* reader's user buffer: words received by this call
  packet,             \* which packet a writer carries
  issued,             \* write calls made so far (bound, names the packets)
  reset,              \* progress of RPC_IOCTRESET
  resets,             \* resets begun so far (bound)
  queued,             \* history: bytes published and not consumed
  published,          \* history: packets published
  delivered           \* history: words handed to readers, in order

ringVars == <<ringIn, ringOut, ringBuf>>
semVars  == <<readSem, writeSem>>
callVars == <<count, base, done, userBuf, packet>>
histVars == <<queued, published, delivered>>
ctlVars  == <<kind, reset, resets>>
vars     == <<ringVars, semVars, pc, callVars, issued, ctlVars, histVars>>

Threads == Writers \cup Readers
Cells   == {a \in 0..RingSize - 1 : a % 4 = 0}
Empty   == <<0, 0>>                      \* content of a word never written

-----------------------------------------------------------------------------
(* Pointer arithmetic *)

\* (n+3) & 0xfffffffc
RoundUp(n) == ((n + 3) \div 4) * 4

\* The distance from ringOut to ringIn when they are known to differ.
Distance == IF ringIn > ringOut THEN ringIn - ringOut
                                ELSE RingSize + ringIn - ringOut

\* Bytes the ring is taken to hold.
Size == IF ringIn = ringOut THEN 0 ELSE Distance

\* A pointer d bytes past b, for d <= RingSize.
Wrap(b, d) == IF b + d < RingSize THEN b + d ELSE b + d - RingSize

\* Wrong variant: the first kind forgets to wrap a pointer that reached ringEnd.
AdvanceNoWrap(ptr, b, n) ==
  LET temp == RingSize - b IN
  IF temp >= n THEN ptr + RoundUp(n) ELSE RoundUp(n - temp)

\* Where a call that copied n bytes from its pointer leaves that pointer.
\* First kind: the copy fits before ringEnd and the pointer is loaded again.
\* Second kind: the rest was copied from ringStart on.
Advance(ptr, b, n) ==
  LET temp == RingSize - b IN
  IF temp >= n
  THEN IF ptr + RoundUp(n) = RingSize THEN 0 ELSE ptr + RoundUp(n)
  ELSE RoundUp(n - temp)

-----------------------------------------------------------------------------
Init ==
  /\ kind \in Kinds
  /\ ringIn = 0 /\ ringOut = 0
  /\ ringBuf = [a \in Cells |-> Empty]
  /\ readSem = 1 /\ writeSem = 1
  /\ pc = [t \in Threads |-> "idle"]
  /\ count = [t \in Threads |-> 0]
  /\ base = [t \in Threads |-> 0]
  /\ done = [t \in Threads |-> 0]
  /\ userBuf = [r \in Readers |-> << >>]
  /\ packet = [w \in Writers |-> 0]
  /\ issued = 0
  /\ reset = "idle" /\ resets = 0
  /\ queued = 0 /\ published = {} /\ delivered = << >>

Goto(t, label) == pc' = [pc EXCEPT ![t] = label]

\* The call returns and its locals go out of scope.
Return(t) ==
  /\ Goto(t, "idle")
  /\ count' = [count EXCEPT ![t] = 0]
  /\ base' = [base EXCEPT ![t] = 0]
  /\ done' = [done EXCEPT ![t] = 0]

\* Clients that never reset a busy ring start no call during a reset.
CallAllowed == ResetBusy \/ reset = "idle"

\* down_interruptible() returned -EINTR: the call fails with -ERESTARTSYS.
Interrupted(t) ==
  /\ pc[t] = "down"
  /\ Return(t)
  /\ UNCHANGED <<ringVars, semVars, userBuf, packet, issued, ctlVars, histVars>>

-----------------------------------------------------------------------------
(* rpc_poll_write, rpc_intr_write, rpc_kern_write *)

WriteCall(w, c) ==
  /\ pc[w] = "idle" /\ CallAllowed /\ issued < MaxWrites
  /\ Goto(w, "down")
  /\ count' = [count EXCEPT ![w] = c]
  /\ issued' = issued + 1
  /\ packet' = [packet EXCEPT ![w] = issued + 1]
  /\ UNCHANGED <<ringVars, semVars, base, done, userBuf, ctlVars, histVars>>

\* Wrong variant: the semaphore is tested and not taken.
WriteDownNotTaken(w) ==
  /\ pc[w] = "down" /\ writeSem > 0
  /\ Goto(w, "measure")
  /\ UNCHANGED <<ringVars, semVars, callVars, issued, ctlVars, histVars>>

WriteDown(w) ==
  /\ pc[w] = "down" /\ writeSem > 0
  /\ writeSem' = writeSem - 1
  /\ Goto(w, "measure")
  /\ UNCHANGED <<ringVars, readSem, callVars, issued, ctlVars, histVars>>

\* Wrong variants: no byte is kept free; the size of the whole ring is offered.
FitsExactly(c) == c <= RingSize - Size
FitsRing(c) == c <= RingSize - 1

\* Room for count bytes, with one byte kept free.
Fits(c) == c <= RingSize - Size - 1

\* Both pointers are loaded once; a packet that does not fit is refused.
WriteMeasure(w) ==
  /\ pc[w] = "measure"
  /\ IF Fits(count[w])
     THEN /\ Goto(w, "copy")
          /\ base' = [base EXCEPT ![w] = ringIn]
     ELSE Goto(w, "up") /\ UNCHANGED base
  /\ UNCHANGED <<ringVars, semVars, count, done, userBuf, packet, issued, ctlVars, histVars>>

\* One turn of the loop of my_copy_user (its last turn may copy 1..3 bytes).
WriteWord(w) ==
  /\ pc[w] = "copy" /\ done[w] < count[w]
  /\ ringBuf' = [ringBuf EXCEPT ![Wrap(base[w], done[w])] = <<packet[w], done[w] \div 4>>]
  /\ done' = [done EXCEPT ![w] = @ + 4]
  /\ UNCHANGED <<ringIn, ringOut, semVars, pc, count, base, userBuf, packet,
                 issued, ctlVars, histVars>>

\* Wrong variant: the pointer is stored before the data is.
WritePublishEarly(w) ==
  /\ pc[w] = "copy"
  /\ ringIn' = Advance(ringIn, base[w], count[w])
  /\ queued' = queued + RoundUp(count[w])
  /\ published' = published \cup {packet[w]}
  /\ Goto(w, "up")
  /\ UNCHANGED <<ringOut, ringBuf, semVars, callVars, issued, ctlVars, delivered>>

\* The sync instruction, then the store that publishes the packet.
WritePublish(w) ==
  /\ pc[w] = "copy" /\ done[w] >= count[w]
  /\ ringIn' = Advance(ringIn, base[w], count[w])
  /\ queued' = queued + RoundUp(count[w])
  /\ published' = published \cup {packet[w]}
  /\ Goto(w, "up")
  /\ UNCHANGED <<ringOut, ringBuf, semVars, callVars, issued, ctlVars, delivered>>

WriteUp(w) ==
  /\ pc[w] = "up"
  /\ writeSem' = writeSem + 1
  /\ Return(w)
  /\ UNCHANGED <<ringVars, readSem, userBuf, packet, issued, ctlVars, histVars>>

-----------------------------------------------------------------------------
(* rpc_poll_read, rpc_intr_read, rpc_kern_read *)

ReadCall(r, c) ==
  /\ pc[r] = "idle" /\ CallAllowed
  /\ Goto(r, "down")
  /\ count' = [count EXCEPT ![r] = c]
  /\ UNCHANGED <<ringVars, semVars, base, done, userBuf, packet, issued, ctlVars, histVars>>

ReadDown(r) ==
  /\ pc[r] = "down" /\ readSem > 0
  /\ readSem' = readSem - 1
  /\ Goto(r, IF kind = "intr" THEN "check" ELSE "measure")
  /\ UNCHANGED <<ringVars, writeSem, callVars, issued, ctlVars, histVars>>

\* rpc_intr_read first sees to it that the ring is not empty, giving up on
\* O_NONBLOCK, a timeout or a signal; how it waits is module RPCIntr.
ReadCheck(r) ==
  /\ pc[r] = "check"
  /\ \/ ringIn = ringOut /\ Goto(r, "up")
     \/ ringIn # ringOut /\ Goto(r, "measure")
  /\ UNCHANGED <<ringVars, semVars, callVars, issued, ctlVars, histVars>>

\* Wrong variant: the count is not limited to what the ring holds.
ClipNothing(c, size) == c

Clip(c, size) == IF c > size THEN size ELSE c

\* The poll and kernel readers test for the empty ring in the same load; the
\* interrupt reader measures the distance without testing again.
ReadMeasure(r) ==
  /\ pc[r] = "measure"
  /\ IF kind # "intr" /\ ringIn = ringOut
     THEN Goto(r, "up") /\ UNCHANGED <<count, base>>
     ELSE /\ Goto(r, "copy")
          /\ count' = [count EXCEPT ![r] = Clip(@, Distance)]
          /\ base' = [base EXCEPT ![r] = ringOut]
  /\ UNCHANGED <<ringVars, semVars, done, userBuf, packet, issued, ctlVars, histVars>>

ReadWord(r) ==
  /\ pc[r] = "copy" /\ done[r] < count[r]
  /\ userBuf' = [userBuf EXCEPT ![r] = Append(@, ringBuf[Wrap(base[r], done[r])])]
  /\ done' = [done EXCEPT ![r] = @ + 4]
  /\ UNCHANGED <<ringVars, semVars, pc, count, base, packet, issued, ctlVars, histVars>>

\* Consumes whole words: the bytes that round the count up are skipped.
ReadAdvance(r) ==
  /\ pc[r] = "copy" /\ done[r] >= count[r]
  /\ ringOut' = Advance(ringOut, base[r], count[r])
  /\ queued' = queued - RoundUp(count[r])
  /\ delivered' = delivered \o userBuf[r]
  /\ Goto(r, "up")
  /\ UNCHANGED <<ringIn, ringBuf, semVars, callVars, issued, ctlVars, published>>

ReadUp(r) ==
  /\ pc[r] = "up"
  /\ readSem' = readSem + 1
  /\ Return(r)
  /\ userBuf' = [userBuf EXCEPT ![r] = << >>]
  /\ UNCHANGED <<ringVars, writeSem, packet, issued, ctlVars, histVars>>

-----------------------------------------------------------------------------
(* RPC_IOCTRESET: the init functions run again over the live device, taking *)
(* no semaphore; rpc_kern_init keeps its semaphores (is_init).              *)

Quiescent == \A t \in Threads : pc[t] = "idle"

ResetIn ==
  /\ reset = "idle" /\ resets < MaxResets /\ (ResetBusy \/ Quiescent)
  /\ ringIn' = 0
  /\ reset' = "out" /\ resets' = resets + 1
  /\ queued' = 0
  /\ UNCHANGED <<ringOut, ringBuf, semVars, pc, callVars, issued, kind, published, delivered>>

ResetOut ==
  /\ reset = "out"
  /\ ringOut' = 0
  /\ reset' = IF kind = "kern" THEN "idle" ELSE "readSem"
  /\ UNCHANGED <<ringIn, ringBuf, semVars, pc, callVars, issued, kind, resets, histVars>>

ResetReadSem ==
  /\ reset = "readSem"
  /\ readSem' = 1
  /\ reset' = "writeSem"
  /\ UNCHANGED <<ringVars, writeSem, pc, callVars, issued, kind, resets, histVars>>

ResetWriteSem ==
  /\ reset = "writeSem"
  /\ writeSem' = 1
  /\ reset' = "idle"
  /\ UNCHANGED <<ringVars, readSem, pc, callVars, issued, kind, resets, histVars>>

Next ==
  \/ \E t \in Threads : Interrupted(t)
  \/ \E w \in Writers :
       \/ \E c \in WriteCounts : WriteCall(w, c)
       \/ WriteDown(w) \/ WriteMeasure(w) \/ WriteWord(w)
       \/ WritePublish(w) \/ WriteUp(w)
  \/ \E r \in Readers :
       \/ \E c \in ReadCounts : ReadCall(r, c)
       \/ ReadDown(r) \/ ReadCheck(r) \/ ReadMeasure(r) \/ ReadWord(r)
       \/ ReadAdvance(r) \/ ReadUp(r)
  \/ ResetIn \/ ResetOut \/ ResetReadSem \/ ResetWriteSem

Spec == Init /\ [][Next]_vars

-----------------------------------------------------------------------------
(* Properties *)

Labels == {"idle", "down", "check", "measure", "copy", "up"}
Word   == Nat \X Nat

\* Every variable keeps its type; both pointers stay word aligned inside the
\* ring and both semaphores stay binary (sema_init(..., 1)).
TypeOK ==
  /\ kind \in Kinds
  /\ ringIn \in Cells /\ ringOut \in Cells
  /\ ringBuf \in [Cells -> Word]
  /\ readSem \in 0..1 /\ writeSem \in 0..1
  /\ pc \in [Threads -> Labels]
  /\ count \in [Threads -> Nat] /\ base \in [Threads -> Cells] /\ done \in [Threads -> Nat]
  /\ userBuf \in [Readers -> Seq(Word)]
  /\ packet \in [Writers -> Nat]
  /\ issued \in Nat
  /\ reset \in {"idle", "out", "readSem", "writeSem"} /\ resets \in Nat
  /\ queued \in Int
  /\ published \in SUBSET Nat
  /\ delivered \in Seq(Word)

Holding == {"check", "measure", "copy", "up"}

\* readSem and writeSem are "mutual exclusion semaphores" (RPCDriver.h): never
\* two writers, and never two readers, between down and up.
MutualExclusion ==
  /\ \A v, w \in Writers : pc[v] \in Holding /\ pc[w] \in Holding => v = w
  /\ \A q, r \in Readers : pc[q] \in Holding /\ pc[r] \in Holding => q = r

\* The pointers account for every byte published and not yet consumed, so that
\* the sizes computed by the read and the write functions are right.
PointersTellOccupancy == reset = "idle" => queued = Size

\* The comment on the equality test, as it stands: "the ring is empty".
EqualMeansEmpty == reset = "idle" /\ ringIn = ringOut => queued = 0

\* The cells of the published words that no reader consumed yet.
Unread == {a \in Cells : \E d \in 0..queued - 1 : d % 4 = 0 /\ a = Wrap(ringOut, d)}

\* The cells a writer fills between measuring the ring and publishing.
Filling(w) == {a \in Cells : \E d \in 0..count[w] - 1 : d % 4 = 0 /\ a = Wrap(base[w], d)}

\* A writer never touches a word that is still to be read, whatever readers
\* consume meanwhile and however stale its measurement of the ring is.
NoOverwrite ==
  \A w \in Writers : pc[w] = "copy" => Filling(w) \cap Unread = {}

\* What a reader copies was published and not consumed: the clipped count
\* never runs past the writer's pointer.
ReadsPublished ==
  \A r \in Readers : pc[r] = "copy" => RoundUp(count[r]) <= queued

\* The words between ringOut and ringIn.
Contents ==
  IF reset = "idle"
  THEN [i \in 1..Size \div 4 |-> ringBuf[Wrap(ringOut, 4 * (i - 1))]]
  ELSE << >>

Fifo == INSTANCE RPCFifo WITH
  Packets <- 1..MaxWrites, Capacity <- RingSize \div 4,
  queue <- Contents, delivered <- delivered, sent <- published

\* The ring implements a bounded FIFO of whole packets: words come out once,
\* in order and unaltered, though copies, publishing and resets interleave.
ImplementsFifo == Fifo!FifoSpec

=============================================================================
