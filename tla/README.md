# Open-HMR600: models of the Realtek media-processor drivers

The repository holds the firmware sources of a Realtek Venus/Mars media player:
Linux 2.6.12 and BusyBox 1.1.3, both vendored, and the vendor's own code, most
of it under `src/Src/linux-2.6.12/arch/mips/realtek-boards`. The vendor's code
is what can be wrong in ways nobody else has looked at: drivers that share
memory with an audio processor, a video processor and DMA engines, on a
preemptible single-CPU kernel (`CONFIG_PREEMPT`, no SMP).

This project models the core of that code in TLA+, checks it with TLC and
proves every safety property of the passing runs with TLAPS, two refinements
included. `drivers/` below stands for
`src/Src/linux-2.6.12/arch/mips/realtek-boards/drivers/`.

## 1. Inventory

### RPC rings — `RPCpoll.c`, `RPCintr.c`, `RPCkern.c`, `include/linux/RPCDriver.h`
*State.* For each device a 512-byte ring in memory shared with another
processor, two pointers `ringIn` and `ringOut`, a read and a write semaphore.
*Operations.* read, write (both nonblocking for the poll device), and
`RPC_IOCTRESET`, which runs the init functions again over live devices.
*Interaction.* Host threads compete for the semaphores; the other end of each
ring is another processor that takes no semaphore at all.
*Hard.* The measurement of the ring is stale as soon as it is made; data must be
in memory before the pointer; pointers move by words and counts are bytes; a
reset may come in the middle of anything.
*Correct when* the ring is a FIFO of whole packets, pointers and semaphores stay
within their range, and nobody overwrites what has not been read.

### RPC interrupt and blocking readers — `RPCDriver.c`, `RPCintr.c`, `RPCkern.c`
*State.* One interrupt register with a bit per remote processor, a wait queue per
device, the task state of the sleepers. *Operations.* `rpc_isr`, the wait of
`rpc_intr_read` (timeout, signals, freezer) and of `rpc_kernel_thread`.
*Hard.* Data arrives between the test of the ring and the sleep; a bit is raised
again between its acknowledgement and the wake-up; a freeze request looks like a
signal. *Correct when* no wake-up is lost and a reader that goes on finds data.

### Kernel remote calls — `RPCkern.c`
*State.* Requests and replies in two rings, a word `sync` on each caller's stack.
*Operations.* `send_rpc_command` (build, write, poll) and `rpc_kernel_thread`
(read, store the result, acknowledge). *Hard.* The reply carries addresses of a
stack frame; callers poll without a timeout. *Correct when* each caller gets its
own answer, stores hit a frame that is still there, and every call returns.

### Move Data engine — `md.c`
*State.* A command ring read by hardware, a 16-bit count of executed commands, a
table of 64 copy tasks, two copy counters. *Operations.* `md_copy_start`,
`md_copy_sync`, `md_memcpy`, `md_memset`, suspend and resume; used by CIFS reads.
*Hard.* Only part of what `md_copy_start` does is under the lock; numbers are
compared through a counter that wraps. *Correct when* a synced copy is complete
and the table stays usable.

### Streaming engine — `se.c`
*State.* A command ring read by hardware, the driver's write pointer `dev->wrptr`
and the engine's own, a queue of entries that a client fills in shared memory.
*Operations.* `se_write`, the vertical-sync interrupt handler, both through
`WriteCmd`. *Hard.* The handler calls `WriteCmd` although `se_write` may be
inside it; it waits in interrupt context; an entry may wrap around the end of the
queue and is then written in two calls. *Correct when* commands are executed once,
in order and by whole entries, the queue drains and writes return.

### Infrared receiver — `venus_ir.c`
*State.* A kfifo used without a lock, protocol and driver mode, the time of the
last frame. *Operations.* The interrupt handler (debounce, repeat, raw decoder),
read, open, protocol and mode ioctls, suspend and resume. *Hard.* Frames arrive
between any two steps of a read; counters wrap; a pair of words may be stored in
part. *Correct when* the kfifo is a FIFO, reads never hand out what is not there,
and a waiting reader gets its key.

### CEC adapter — `drivers/cec/adapter/cec_mars.c`
*State.* Transmit and receive queues, buffers that move between them, a work item
that is also the timeout of a transmission, a completion that counts messages.
*Operations.* Two workers that run from the interrupt handler and from keventd,
blocking sends and reads, enabling and disabling. *Hard.* Disabling races senders,
workers, the timer and the bus. *Correct when* no buffer is lost or freed under
the driver, success means sent, and blocked threads return. (Not enabled in the
shipped `.config`.)

### Not to be modelled
`mcp.c` (register programming of a cipher engine), `venus_gpio.c`,
`venus_vfd.c`, `venus_watch.c`, `venus_i2cslave.c` (register access), the board
support under `generic/`, `venus/` and `mars/` (boot-time programming), and the
vendored kernel and BusyBox. Wait queues, semaphores, signals and the freezer of
the kernel are modelled as far as the drivers use them.

## 2. Modules

| module | models | composed with |
|---|---|---|
| `RPCFifo` | what a ring or a kfifo promises: a bounded FIFO of packets | implemented by `RPCRing` and by `VenusIR` |
| `RPCRing` | one ring: read, write, reset, one word per step | refines `RPCFifo` |
| `RPCIntr` | interrupt handler, sleeping readers, kernel threads, freezer | rings as packet counts |
| `RPCKern` | `send_rpc_command` and its reply thread | rings as queues of packets |
| `MDCopy` | copy tasks of the Move Data engine | engine as a queue of commands |
| `StreamEngine` | `WriteCmd`, `se_write` and the vertical-sync handler | engine, client and video processor |
| `VenusIR` | infrared interrupt handler, kfifo, readers, ioctls | refines `RPCFifo` |
| `MarsCEC` | CEC workers, interrupt, keventd, timer, senders, readers | controller and bus |
| `RPCRing_proofs`, `RPCIntr_proofs`, `RPCKern_proofs`, `MDCopy_proofs`, `StreamEngine_proofs`, `VenusIR_proofs`, `MarsCEC_proofs` | theorems, each about the module it extends | |
| `Circular` | lemmas on the places of a circle (rings, kfifo, table) | extended by four of the above |
| `MCRPCRing`, `MCRPCIntr`, `MCRPCKern`, `MCMDCopy`, `MCStreamEngine`, `MCVenusIR`, `MCMarsCEC` | constants and symmetry for TLC | |

`RPCRing` shows that a ring is a queue of whole packets; `RPCIntr` and `RPCKern`
use that and keep a ring as a count or as a sequence of packets.

### RPCRing
`ringIn` and `ringOut` are offsets from `ringStart`; `ringBuf` holds words
named by packet and index. A thread is at `down`, `check` (interrupt device
only), `measure`, `copy` or `up`; `count`, `base` and `done` are the locals of
the call. The compiler loads each pointer once between `down_interruptible` and
`my_copy_user` and once more after it (both are calls), hence `WriteMeasure` and
`ReadMeasure` are single steps and `Advance` uses the pointer as it is then, not
as it was loaded. The variable `kind`, which never changes, says whose ring it is: the interrupt reader tests for the
empty ring in a step of its own, the kernel device keeps its semaphores on a
reset. A reader or a writer of the other processor is a thread like the others:
holding the semaphore, it does what the firmware is taken to do.
`queued`, `published` and `delivered` are history variables and guard nothing.

### RPCIntr
One CPU: no thread takes a step while `isr` is not `off`. The remote processors
publish (`RemotePublish`) and raise the bit (`RemoteRing`) as separate steps, at
any time. The wait is that of `include/linux/wait.h`: test, queue, test again,
sleep. `Timeout` may come whenever the thread sleeps. `signal` and `freeze` both
make `SignalPending` true; the refrigerator clears the latter. The handler may
serve the two bits of its copy in either order (the code serves audio first).
The read timeout is taken to be positive.

### RPCKern
A packet is the caller and the number of its call: it stands for the two
addresses in the packet and for the frame they point into. The result of call
*n* is *n*. The remote processor empties the request ring when its bell rings
and answers each request once, in any order.

A transfer takes two steps, at both ends of both rings: the measurement of the
ring, and the copy with the store of the pointer (`WriteMeasure`/`WritePublish`,
`RemoteLook`/`RemoteTake`, `RemoteMeasure`/`RemoteReply`, `ThreadLook`/`ThreadRead`).
`rpc_kern_init` stores the four pointers one by one (`ResetToIn` to `ResetFromOut`),
and `rpc_ctrl_ioctl` then acknowledges the interrupts (`ResetAck`), that of a request
written in between included; `disturbed` remembers the calls a reset met. Between the
two stores of a ring it looks non-empty to a reader and may look full to a writer
(`WriteRefused`). A transfer that is between its two steps at the first store, and a
reader that looks between the two stores, advance a pointer that is no longer the one
they measured: old packets, or parts of them, are in the ring again. The history
variable `torn` names these overlaps and the model ends there, because the contents
are then whatever the last 512 bytes were, stale replies included. So the properties
cover a reset at every moment except within a transfer, and none could hold in that
one.

### MDCopy
A locked section is one step. `StoreId` is a step of its own because
`req->request_id = md_write(...)` stores after the lock is gone, and
`StartReturn` reads `copy_id` back from the entry as the code does. The length
and addresses of a copy are abstracted to its number of commands (1 or 2: the
8-byte workaround splits off at most one). `WriteCmd` waits for room in the
ring. The clients are the callers of `md_copy_start`/`md_copy_sync`, whichever
order they sync in; `md_memcpy` is one of each. A handle of 0 means failure to
every caller. Devices are suspended when all processes are frozen, so no client is
inside a call of the driver then.

From its allocation to `StoreId` an entry has `request_id` 0, which means finished:
another client's `md_check_copy_tasks` may release it, and `md_alloc_copy_request`
may give it to another copy when the table has come round. The history variable
`swept` holds the copies whose entry was lost so inside their `md_copy_start`; `owner`
holds the copies that got an entry, in order. `Lapped` names a waiting client that was
not scheduled while the engine executed half of the counter's range.

### StreamEngine
Pointers and lengths count words. `Call`, `Room`, `CopyWord` and `Finish` are the
parts of `WriteCmd` between which the interrupt may come; the second caller is the
handler, during which no thread runs (one CPU) and the engine goes on. Commands are
numbered as they are handed over, so a cell of the ring says which command it
holds. The room is measured from the engine's write pointer, and the copy starts at
`dev->wrptr`: after a first part with `go` 0 the two differ. `raced` (the handler
called `WriteCmd` inside a `WriteCmd`) and `overrun` (a second part was let in
without room) name the two defects under which the properties fail; each
exemption was found necessary by removing it.

### VenusIR
The kfifo is kept in words: `in` and `out` count modulo `Modulus`, a frame is its
number, its code an even word and its repeat word the odd one after it.
`__kfifo_get` is two steps (copy, then the store of `out`), `__kfifo_put` is part of
the handler. `KReset` is `kfifo_reset`; changing the mode is a reset and then a
store. `Exclusive` says that clients open and configure the device between reads
only, which `kfifo.c` requires of its users and the driver does not enforce. `split`,
`mixed` and `silent` are history: a pair stored in part, words put while the mode
changed, words put by the raw decoder, which wakes nobody. `debounce` is 300 ms after
boot and `REPEAT_MAX_INTERVAL` 200 ms, so that every repeat frame is ignored until a
client lowers the former with `VENUS_IR_IOC_SET_DEBOUNCE`; the bounds of the run keep
that order.

### MarsCEC
A critical section under the driver's spinlock is one step. `TxWork` and `RxWork`
run from the interrupt (`IsrTx`, `IsrRx`) and from keventd, which takes an item off
its list before it runs it. A transmit buffer is its sender; a receive buffer is a
unit in one of the queues. The completion of the receiver has a count and a queue
of exclusive waiters, as in `kernel/sched.c`. `INIT_WORK` and `init_completion` on
objects in use set `clobbered`, and the model stops there: what follows is not
determined by the code. `late` and `timerLost` name the senders left behind by a
disable and the transmissions started without a timeout. Messages are numbered as
they are received and the history variable `taken` is the number of the last one a
reader took. An overrun
takes the oldest message back from the readers' queue, and that may be the very one a
reader has just seen there: the reader then takes a later one (`ReaderFindsMessage`:
it does not come back empty-handed), and order is kept (`ReadInOrder`).

## 3. Runs

| run | result | shows |
|---|---|---|
| `rpc_ring` | pass | rings of all three kinds, 16 bytes, packets of 0, 1 and 3 words, reads of 3 and 8 bytes, a reset between calls: all ring properties and the refinement of `RPCFifo` |
| `rpc_intr` | pass | two readers of one device and a kernel thread: a reader always finds data |
| `rpc_intr_live` | pass | no lost wake-up; replies are read; blocked reads return |
| `rpc_kern` | pass | two callers and a reset that stores the pointers one by one: until it overlaps a transfer, own answers only, no store into a dead frame, and every call returns that no reset met |
| `md_copy` | pass | two clients and a suspend: until a copy loses its entry, synced and released copies are complete and the table stays usable; only the first copy after boot and one that lost its entry are misreported as failed; a waiting client gets out |
| `cec` | pass | two senders, a reader, one disable at any moment: buffers are conserved and never freed under the driver, success means sent, messages are read once and in order, disabling ends the queued sends |
| `cec_live` | pass | sends and reads return although the bus may hang; the receiver listens again |
| `ir` | pass | the unlocked kfifo is a FIFO of frames; reads find what they measured; pairs are torn only by a full kfifo; waiting readers get their keys |
| `se` | pass | commands in order, once and by whole entries; queue drains; writes return |
| `rpc_ring_unaligned` | violation | a count that is no multiple of 4 fills the ring, which then looks empty |
| `md_copy_wedge` | violation | two clients: an entry nobody releases blocks the table for good |
| `ir_pairs` | violation | a full kfifo takes a code and drops its repeat word; later pairs are shifted |

**What the passing properties do not claim.** The code has defects under which no
property of its kind can hold. Each is named by a history variable or a constant, is
in the list of hazards, and is seen by dropping the exemption:

| named by | case | properties that stop there |
|---|---|---|
| `ResetBusy = FALSE` | a reset of a busy poll or interrupt device runs `sema_init` over held semaphores and admits two writers (the kernel device keeps its semaphores: `KernelExclusive`) | all of `rpc_ring` |
| `disturbed` | a call that a reset met may poll for ever | `EveryCallReturns` |
| `torn` | a reset overlaps a transfer of `RPCKern` | all of `rpc_kern` |
| `swept` | a copy loses its entry inside `md_copy_start`; `md_copy_wedge` shows what follows | `SyncMeansComplete`, `ReleasedWhenComplete`, `TableUsable`, the bound on copies in `TypeOK`; `FailedMeansNotStarted` for those copies |
| `Lapped` | a client is not scheduled for half of the counter's range | `SyncReturns` |
| `raced` | the handler enters a `WriteCmd` under way | `CommandsIntact`, `EntriesWhole`, `WriteReturns` |
| `overrun` | the second part of a wrapped entry is let in without room | `CommandsIntact`, `EntriesWhole` |
| `Exclusive = TRUE` | an `open` or ioctl resets the kfifo under a reader and its length wraps | all of `ir` |
| `split`, `mixed` | a full kfifo or a change of mode breaks a pair (`ir_pairs`) | `PairsTornOnlyWhenFull` |
| `silent` | the raw decoder wakes nobody | `KeyIsRead` |
| `late` | a message is queued after the disable, behind a stale test of `enable` | `DisableEndsSends` |
| `timerLost` | a transmission gets no timer because its work item is queued | `SendReturns`, `ReceiverRestarts` |
| `disables` | the chip is disabled: what returns then is `DisableEndsSends` | the three of `cec_live`, `ReaderFindsMessage` |
| `clobbered` | an enable initialises a work item or a completion in use | the model ends |

The properties are then about everything else, and hazards that are nothing but such
a case list no property. Two more are visible and not covered: a nonblocking read of
the interrupt device waits in `down` behind a sleeping blocking one
(`BlockedReadReturns` is about the one that holds the semaphore), and the first copy
after boot has `copy_id` 0, which its caller takes for a failure
(`FailedMeansNotStarted` allows that copy and no other).

**Bounds and why they suffice.** A ring of four words has every position of the
two pointers relative to each other and to `ringEnd`, and three packets wrap it;
reads that end inside a word exercise the rounding. Two writers and two readers
contend for each semaphore. In `RPCIntr` two packets let the second arrive
anywhere in the service of the first; one signal and one freeze fall in every
gap of one read. In `RPCKern` the ring has room for one request, so that the second
of two callers is refused, and for two replies, which come in either order; each
caller can call again after the reset, which falls anywhere into the calls of both. In
`MDCopy` two entries fill up under two clients, the counter of six values wraps at the
sixth command with at most two outstanding, and a ring of two stays below half of its
range, as in the code (at most 1024 commands in the ring, 32768 in half of the
range: assumption `MDAssumption`). In `MarsCEC` messages of
two FIFO loads need a refill, two senders queue behind each other, and three receive
buffers (8 in the code) overrun with three messages and a reader that is away, the
readers' queue holding two; `MaxTraffic` leaves out only two sends together with two
receptions; one disable falls into every gap of a send, a read and a worker, and the chip may be
enabled again. In `VenusIR` a kfifo of two words (16 in the code) is full after one
pair and its counters wrap after four; three frames put across
the wrap and into any step of a read, and tear a pair. In `StreamEngine` a ring of
four commands and a queue of six words make entries of three words wrap around both.
Names of bounds: `MaxWrites`, `MaxResets`, `MaxPackets`,
`MaxCalls`, `MaxSignals`, `MaxFreezes`, `MaxCopies`, `MaxSuspends`, `MaxSends`,
`MaxReceives`, `MaxTraffic`, `MaxDisables`, `MaxFrames`, `MaxEntries`. Threads
(and, where declared, clients) are interchangeable, which justifies symmetry in
the safety runs. `CHECK_DEADLOCK FALSE`: when the bounds are spent, all is idle.

**Fairness.** Weak fairness of the interrupt handler (the hardware delivers a
level interrupt), of every thread inside a call (the scheduler), of a remote
processor that has published and still has to raise its bit, of the firmware
answering a request it has been given (external), of the Move Data and streaming
engines, and of the vertical syncs that were asked for. In `MarsCEC` and
`StreamEngine` a thread takes a step only while no interrupt is to be served, and its
fairness says so. Nothing is assumed of the CEC bus: a transmission may hang, and it
is the timer that ends it. Never of new calls, signals, freezes, suspends, frames, remote keys,
disables, or of the read timeout of `RPCIntr`.

**Mutants.** Each property comes with a wrong variant of one definition
(commented as such beside it) under which TLC refutes it: a dropped wrap, a
semaphore tested and not taken, data published early, a missed re-test before
sleeping, an acknowledgement of too many bits, a request number of the wrong
chunk, a counter not restored.

## 4. Proofs

`RPCRing_proofs` proves, for every ring size that is a multiple of 4, every set
of threads and all counts of calls: `TypeOK`, `MutualExclusion`,
`PointersTellOccupancy`, `NoOverwrite` and `ReadsPublished` are invariants of
`Spec`. Assumptions: `RingAssumption` (constants) and `Disciplined`: writes are
whole words and no reset comes during a call. Both are needed: without the first
`rpc_ring_unaligned` is a counterexample, without the second the run `rpc_ring` with
`ResetBusy = TRUE` has one.

`KernelExclusive` needs neither: for a kernel device `MutualExclusion` is an
invariant however many resets come, at whatever moment, because `rpc_kern_init`
leaves the semaphores alone. Pointers and contents are then anything, and its
invariant `KernInv` says only what does not depend on them: the labels, the two
semaphores and who holds them.

None of the five is inductive alone. The invariant `IInv` adds to them:
- `SemInv`: a semaphore is 0 exactly while one thread of its class is inside;
- `ResetInv`: during a reset all threads are idle and the ring counts as empty;
- `WriterInv`: the pointer a writer loaded is still `ringIn` (it alone moves it),
  and the room it measured is still there (readers only add to it);
- `ReaderInv`: the pointer a reader loaded is still `ringOut`, and what it
  measured is still queued (writers only add to it); an interrupt reader that
  has passed its check cannot meet an empty ring.

The arithmetic is in lemmas of its own: rounding, `Size` as the gap between the
pointers (`SizeIsGap`), both pointer updates as one advance modulo the ring size
(`AdvanceWraps`), and the gap growing and shrinking by what is published and
consumed (`GapGrows`, `GapShrinks`). `NoOverwrite` follows from `IInv` because
cells before and after the writer's pointer differ (`Disjoint`).

`RingImplementsFifo` adds what lies in the ring. `DataInv` is `IInv` together with
- `PacketInv`: packets under way have names of their own, and none has been
  published before;
- `WriterData`: the cells behind `ringIn` hold the words a writer has copied so
  far, which are the first of its packet;
- `ReaderData`: the reader's buffer holds the first words behind `ringOut`.

A step that publishes appends a packet to the abstract queue, one that consumes
takes words off its front, and all others leave it alone. The hypothesis is again
`Disciplined`: a reset in the middle of a write loses packets.

**`RPCKern_proofs`**: `TypeOK`, `OwnAnswer` and `StoresHitLiveFrame`, for any
callers, capacities and calls, and any number of resets up to one that overlaps a
transfer; no hypothesis beyond `KernAssumption`. A stale store is excluded only
because a packet exists in one place at most, which is the invariant: every packet, in
a ring, with the remote processor or in the thread's buffer, belongs to a call that is
still waiting with `sync` 0 (`PacketsLive`), no two belong to one caller
(`OnePerCaller`), the result is in place before `sync` is set (`ValueBeforeSync`), one
writer at a time is between its two steps (`SemInv`), and what was measured is still
there when it is copied (`MeasuredInv`; this is what a torn transfer breaks). Any
other step of a reset only removes packets. That the remote processor answers a
request at most once is part of the model of that processor.

**`RPCIntr_proofs`**: `TypeOK`, `TakeFindsData` and `NoLostWakeup`, for any
processors, readers per device, signals, freezes and timeouts. Beyond the
properties the invariant says that one reader at a time is between `down` and
`up`, its sleep included (`SemInv`: nobody else can empty the ring under it),
that a thread out of its wait has data or a signal still to be seen (`DataInv`),
and that whoever is not runnable is on its queue (`QueueInv`). `IntrAssumption`
says that a kernel device has one thread, which is how `rpc_kern_init` creates
them: with two, one could empty the ring the other was woken for.

**`StreamEngine_proofs`**: `TypeOK`, `CommandsIntact` and `EntriesWhole` for every
size of the ring and the queue and all lengths that fit (`SEAssumption`). The
type invariant needs no exemption. The other two are exempt in the properties
themselves once `raced` or `overrun` holds; no further hypothesis is made.
`QueueInv` lays the entries out one after another between the queue's pointers.
`RingInv` says, in terms of the distance on the ring from the engine's read
pointer, that everything up to the last copied word is numbered consecutively
(`Holds`), how many words lie there (`Copied`) and how many of the numbers given
out are still to be copied (`Missing`), and that the room a call measured is still
there (`CallInv`; the engine only adds to it).

**`VenusIR_proofs`**: `TypeOK` (the kfifo never holds more than its buffer),
`GetFindsWord`, `PairsTornOnlyWhenFull` and `KfifoImplementsFifo`, for every depth
and every range of the wrapping counters that is a multiple of it. Hypothesis
`LoneReader`: one reader, which opens and configures the device between its reads.
`kfifo.c` asks this of its users; two concurrent readers advance `out` twice. The
invariant says that what the reader measured is still there (`ReaderInv`) and that
the number of words and the phase of the next one fit together (`PairInv`). The
refinement maps each word to its frame and its place in it (`Queue`) and adds only
the type of what was delivered (`ReadInv`).

**`MarsCEC_proofs`**: `TypeOK`, `BuffersConserved`, `NoDanglingBuffer`,
`SuccessMeansSent`, `DisableEndsSends`, `ReadInOrder`, and
`ReaderFindsMessage`, which is about a lone reader and is in no run, for any number of senders and readers and any number of disables; no hypothesis beyond
`CECAssumption` (finitely many readers, more receive buffers than readers, a
`complete_all` count that is not used up). `RxInv` ties the buffer
being filled to the state of the receiver; `TakeInv` says what a reader may rely on
before the first disabling; `TxInv` says where the message of a blocked sender is
(`WaitInv`: completed, in transmission or queued), that a disabled transmitter
holds no message and that its queue has late ones only (`IdleInv`), and that the
controller has the driver's message and ends it only when it was accepted whole
(`WireInv`).

**`MDCopy_proofs`**: `TypeOK`, `SyncMeansComplete`, `ReleasedWhenComplete`,
`TableUsable` and `FailedMeansNotStarted`, for any number of clients and every size of
table, ring and counter with the ring below half of the counter's range
(`MDAssumption`: 1024 against 32768 in the code); no other hypothesis. The invariant
has two halves. `FlowInv` holds always: which call is at work on which copy and entry
(`CallInv`), that a copy gets one entry and the engine commands of such copies only (`OwnerInv`), which chunks are queued and executed
(`ChunkInv`) and who was refused (`FailedInv`). The other half holds as long as
`swept` is empty, and its centre is that command numbers tell what is done.
`EngineInv`: the register is the number of executed commands modulo its range.
`TableInv`: the entries in use are those between the two copy counters. `EntryInv`:
each holds the number of the last command of its copy given to the engine.
`FinishedNumber` then shows that `md_checkfinish`, which compares modulo the counter,
is right about them: fewer commands are outstanding than half of its range.
`SyncInv` says what a waiting client may conclude. That no copy was swept is used where
an entry with `request_id` 0 is released: nobody is starting a copy on it.

Each of these invariants was found to hold by TLC on the bounds of the runs before
it was proved (for `Takes` of `StreamEngine` with positions up to `QSize`). They are
not part of the runs: the theorems say more.

**Only model-checked.** Liveness: `RepliesAreRead`, `BlockedReadReturns`,
`EveryCallReturns`, `SyncReturns`, `QueueDrains`, `WriteReturns`, `KeyIsRead`,
`SendReturns`, `ReadReturns`, `ReceiverRestarts`. The prover does not reason about
fairness or `ENABLED`, nor by induction over data, which is why no theorem says
how many words an arbitrary sequence of packets takes. The cases outside the
hypotheses, of which the violating runs are examples, are left to TLC too.

## 5. What the models leave out

*Left out of modelled parts.* A reset that re-initialises wait queues with sleepers
on them (what their links then lead to is not determined). `my_copy_user` cannot
fail and is not made to. Weak memory order between processors is the order of the
steps: the code has a `sync` before publishing, and the rings are uncached. Direction
and length of copies, DMA mapping and cache maintenance of `md.c` are data the
properties do not tell apart (the cleared entry of `md_copy_wedge` also clears the
direction its owner reads for later chunks); the words of its command ring are laid
out as in `se.c` and not modelled twice. Of `se.c`: the path of older boards (with a
64-bit counter put together from a register and an interrupt), release by one of
several openers, more than one queue. Of `venus_ir.c`: the bits of the raw decoder,
and ioctls that only write a register. The store of `ir_protocol`, `Venus_IR_Init` and
`kfifo_reset` of one ioctl are one step (`SetProtocol`): what a frame in between puts
into the kfifo is gone with the reset. A read of several words copies each to the start
of the user's buffer (`venus_ir.c:451`), so that the caller sees the last one only; the
properties are about the words taken from the kfifo. Of the CEC driver: NONBLOCK calls,
the wake-up check of standby, module removal; a refill for which `alloc_cmb` returns
NULL (`cec_mars.c:976` would queue it); two calls of `mars_cec_enable` at once, which
takes no lock (an ioctl, and `cec_dev_release` without the big kernel lock): control
calls are serialised. The interrupt handler's work and its write of `MIS_ISR`
(`cec_mars.c:749`) are one step, which assumes that the bus raises no second event of
the same kind in the microseconds between them; the code would clear it unseen.

*Parts not modelled.* `mcp.c`, GPIO, VFD, watchdog, I2C slave and the board support
program registers and keep hardly any state. The vendored kernel with its
drivers (wireless stacks with their firmware arrays are the longest files) and
BusyBox, nearly all of the repository's seven million lines, are outside this
project's subject; what the drivers use of them (wait queues, completions, work
queues, semaphores, kfifo, freezer) is modelled where it is used. The share of the
whole repository's lines that the models stand for is therefore small whatever is
done; of the vendor's drivers they cover the ones with concurrency of their own.

## 6. Plan

The theorems planned are proved: the refinement of `RPCFifo` by the ring and by the
kfifo, and the safety properties of every module. What could come next:
1. the pointers of a poll device when a reset comes during a call: what `TypeOK`
   still keeps without `Disciplined`;
2. `TypeOK` of `VenusIR` with several readers that take turns;
3. `RPCKern` beyond `torn`, with rings of words as in `RPCRing`, to bound what a torn
   transfer can bring back.
