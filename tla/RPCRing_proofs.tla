--------------------------- MODULE RPCRing_proofs ---------------------------
(***************************************************************************)
(* Proofs about RPCRing for rings of every size, any set of threads and    *)
(* any set of byte counts, of the properties the runs check on 16 bytes.   *)
(*                                                                         *)
(* Two facts about the clients are needed, both stated as hypotheses of    *)
(* the theorems: writes are whole words, and the driver is not reset while *)
(* a call is in progress.  The run rpc_ring_unaligned shows that the first *)
(* cannot be dropped.  Kernel devices keep their semaphores in a reset, so *)
(* that mutual exclusion holds on them without either hypothesis.          *)
(***************************************************************************)
EXTENDS RPCRing, Circular, TLAPS

AlignedWrites == \A c \in WriteCounts : c % 4 = 0
Disciplined   == AlignedWrites /\ ~ResetBusy

-----------------------------------------------------------------------------
(* The inductive invariant. *)

\* A semaphore is down whenever somebody is between its down and its up.
SemInv ==
  /\ MutualExclusion
  /\ \A w \in Writers : pc[w] \in Holding => writeSem = 0
  /\ \A r \in Readers : pc[r] \in Holding => readSem = 0

\* A reset in progress has the ring to itself and leaves it empty.
ResetInv ==
  reset # "idle" =>
    /\ Quiescent
    /\ ringIn = 0 /\ queued = 0
    /\ reset # "out" => ringOut = 0

\* The room a writer measured is still there: its base is still the pointer
\* it will publish from, and readers can only have made more room.
WriterInv ==
  \A w \in Writers :
    /\ pc[w] # "idle" => count[w] % 4 = 0
    /\ pc[w] = "copy" => base[w] = ringIn /\ queued + count[w] < RingSize

\* The words a reader measured are still there, and an interrupt reader that
\* passed its wait still has something to read.
ReaderInv ==
  \A r \in Readers :
    /\ done[r] % 4 = 0
    /\ pc[r] = "copy" => base[r] = ringOut /\ RoundUp(count[r]) <= queued
    /\ pc[r] = "measure" /\ kind = "intr" => ringIn # ringOut

IInv == TypeOK /\ SemInv /\ ResetInv /\ PointersTellOccupancy /\ WriterInv /\ ReaderInv

-----------------------------------------------------------------------------
(* Arithmetic. *)

\* Rounding up reaches the next whole word, less than a word away.
LEMMA RoundUpFacts ==
  ASSUME NEW n \in Nat
  PROVE  /\ RoundUp(n) \in Nat
         /\ RoundUp(n) % 4 = 0
         /\ n <= RoundUp(n) /\ RoundUp(n) < n + 4
  BY DEF RoundUp

\* A whole number of words is its own rounding.
LEMMA RoundUpAligned ==
  ASSUME NEW n \in Nat, n % 4 = 0
  PROVE  RoundUp(n) = n
  BY DEF RoundUp

\* Rounding up never passes a word boundary that is not below the count.
LEMMA RoundUpBelow ==
  ASSUME NEW n \in Nat, NEW m \in Nat, m % 4 = 0, n <= m
  PROVE  RoundUp(n) <= m
  BY DEF RoundUp

\* Size as a function of the two pointers.
Gap(i, o) == IF i = o THEN 0 ELSE IF i > o THEN i - o ELSE RingSize + i - o

\* Size is the gap, a whole number of words, and leaves one word free.
LEMMA SizeIsGap ==
  ASSUME NEW i \in Cells, NEW o \in Cells
  PROVE  /\ Gap(i, o) \in Nat
         /\ Gap(i, o) % 4 = 0
         /\ Gap(i, o) <= RingSize - 4
         /\ i # o => Gap(i, o) > 0
  BY RingAssumption DEF Gap, Cells

\* Both kinds of pointer update are an advance modulo the ring size.
LEMMA AdvanceWraps ==
  ASSUME NEW b \in Cells, NEW n \in Nat, RoundUp(n) <= RingSize
  PROVE  /\ Advance(b, b, n) = Wrap(b, RoundUp(n))
         /\ Advance(b, b, n) \in Cells
  BY RingAssumption DEF Advance, Wrap, Cells, RoundUp

\* Publishing n bytes that fit grows the gap by n.
LEMMA GapGrows ==
  ASSUME NEW i \in Cells, NEW o \in Cells, NEW n \in Nat, Gap(i, o) + n < RingSize
  PROVE  Gap(Wrap(i, n), o) = Gap(i, o) + n
  BY RingAssumption DEF Gap, Wrap, Cells

\* Consuming n of the bytes in the gap shrinks it by n.
LEMMA GapShrinks ==
  ASSUME NEW i \in Cells, NEW o \in Cells, NEW n \in Nat, n <= Gap(i, o)
  PROVE  Gap(i, Wrap(o, n)) = Gap(i, o) - n
  BY RingAssumption DEF Gap, Wrap, Cells

\* Bytes before and after the writer's pointer are different cells.
LEMMA Disjoint ==
  ASSUME NEW i \in Cells, NEW o \in Cells, NEW d \in Nat, NEW e \in Nat,
         e < Gap(i, o), Gap(i, o) + d < RingSize
  PROVE  Wrap(i, d) # Wrap(o, e)
  BY RingAssumption DEF Gap, Wrap, Cells

\* A word of the ring.
LEMMA WrapInCells ==
  ASSUME NEW b \in Cells, NEW d \in Nat, d % 4 = 0, d < RingSize
  PROVE  Wrap(b, d) \in Cells
  BY RingAssumption DEF Wrap, Cells

-----------------------------------------------------------------------------
(* The invariant holds initially and is preserved. *)

\* A freshly initialised ring satisfies the invariant.
LEMMA InitIInv == Init => IInv
  <1> SUFFICES ASSUME Init PROVE IInv
    OBVIOUS
  <1>1. 0 \in Cells
    BY RingAssumption DEF Cells
  <1>2. Empty \in Word
    BY DEF Empty, Word
  <1>3. TypeOK
    BY <1>1, <1>2 DEF Init, TypeOK, Labels, Threads
  <1>4. SemInv /\ ResetInv /\ WriterInv /\ ReaderInv
    BY DEF Init, SemInv, MutualExclusion, Holding, ResetInv, WriterInv, ReaderInv, Threads
  <1>5. PointersTellOccupancy
    BY DEF Init, PointersTellOccupancy, Size
  <1> QED
    BY <1>3, <1>4, <1>5 DEF IInv

\* No action of a disciplined client breaks the invariant.
LEMMA NextIInv == Disciplined /\ IInv /\ [Next]_vars => IInv'
  <1> SUFFICES ASSUME Disciplined, IInv, [Next]_vars PROVE IInv'
    OBVIOUS
  <1> USE DEF Disciplined, IInv
  <1>t. TypeOK
    OBVIOUS
  <1>g. Size = Gap(ringIn, ringOut)
    BY DEF Size, Distance, Gap
  <1>g2. Size' = Gap(ringIn', ringOut')
    BY DEF Size, Distance, Gap
  <1>w. \A w \in Writers : w \in Threads /\ w \notin Readers
    BY RingAssumption DEF Threads
  <1>r. \A r \in Readers : r \in Threads /\ r \notin Writers
    BY RingAssumption DEF Threads
  <1>z. 0 \in Cells
    BY RingAssumption DEF Cells
  <1>n. RingSize \in Nat
    BY RingAssumption
  <1>0. CASE UNCHANGED vars
    BY <1>0 DEF vars, ringVars, semVars, callVars, histVars, ctlVars, TypeOK, SemInv,
       MutualExclusion, ResetInv, Quiescent, PointersTellOccupancy, Size, Distance,
       WriterInv, ReaderInv
  <1>1. ASSUME NEW t \in Threads, Interrupted(t) PROVE IInv'
    <2> USE <1>1 DEF Interrupted, Return, Goto, ringVars, semVars, ctlVars, histVars
    <2>1. TypeOK'
      BY <1>t, <1>z DEF TypeOK, Labels
    <2>2. SemInv'
      BY <1>w, <1>r DEF TypeOK, SemInv, MutualExclusion, Holding
    <2>3. ResetInv' /\ PointersTellOccupancy'
      BY <1>g, <1>g2 DEF TypeOK, ResetInv, Quiescent, PointersTellOccupancy
    <2>4. WriterInv' /\ ReaderInv'
      BY <1>w, <1>r DEF TypeOK, WriterInv, ReaderInv
    <2> QED
      BY <2>1, <2>2, <2>3, <2>4
  <1>2. ASSUME NEW w \in Writers, NEW c \in WriteCounts, WriteCall(w, c) PROVE IInv'
    <2> USE <1>2 DEF WriteCall, Goto, ringVars, semVars, ctlVars, histVars
    <2>0. c \in Nat /\ c % 4 = 0
      BY RingAssumption DEF AlignedWrites
    <2>1. TypeOK'
      BY <1>t, <1>w, <2>0 DEF TypeOK, Labels
    <2>2. SemInv'
      BY <1>w, <1>r DEF TypeOK, SemInv, MutualExclusion, Holding
    <2>3. ResetInv' /\ PointersTellOccupancy'
      BY <1>g, <1>g2 DEF TypeOK, ResetInv, CallAllowed, PointersTellOccupancy
    <2>4. WriterInv' /\ ReaderInv'
      BY <1>w, <1>r, <2>0 DEF TypeOK, WriterInv, ReaderInv
    <2> QED
      BY <2>1, <2>2, <2>3, <2>4
  <1>3. ASSUME NEW w \in Writers, WriteDown(w) PROVE IInv'
    <2> USE <1>3 DEF WriteDown, Goto, ringVars, semVars, callVars, ctlVars, histVars
    <2>1. TypeOK'
      BY <1>t, <1>w DEF TypeOK, Labels
    <2>2. SemInv'
      BY <1>w, <1>r DEF TypeOK, SemInv, MutualExclusion, Holding
    <2>3. ResetInv' /\ PointersTellOccupancy'
      BY <1>w, <1>g, <1>g2 DEF TypeOK, ResetInv, Quiescent, PointersTellOccupancy
    <2>4. WriterInv' /\ ReaderInv'
      BY <1>w, <1>r DEF TypeOK, WriterInv, ReaderInv
    <2> QED
      BY <2>1, <2>2, <2>3, <2>4
  <1>4. ASSUME NEW w \in Writers, WriteMeasure(w) PROVE IInv'
    <2> USE <1>4 DEF WriteMeasure, Goto, ringVars, semVars, ctlVars, histVars
    <2>1. TypeOK'
      BY <1>t DEF TypeOK, Labels
    <2>2. SemInv'
      BY <1>w, <1>r DEF TypeOK, SemInv, MutualExclusion, Holding
    <2>3. ResetInv' /\ PointersTellOccupancy' /\ reset = "idle"
      BY <1>w, <1>g, <1>g2 DEF TypeOK, ResetInv, Quiescent, PointersTellOccupancy
    <2>4. WriterInv'
      <3>1. Size \in Nat
        BY <1>g, SizeIsGap DEF TypeOK
      <3>2. queued = Size
        BY <2>3 DEF PointersTellOccupancy
      <3>3. ASSUME pc'[w] = "copy"
            PROVE  base'[w] = ringIn /\ queued + count[w] < RingSize
        <4>1. Fits(count[w]) /\ base'[w] = ringIn
          BY <3>3, <1>w DEF TypeOK
        <4>2. count[w] \in Nat
          BY <1>w DEF TypeOK
        <4> QED
          BY <4>1, <4>2, <3>1, <3>2, RingAssumption DEF Fits
      <3>4. ASSUME NEW v \in Writers, v # w PROVE pc'[v] = pc[v] /\ base'[v] = base[v]
        BY <3>4, <1>w DEF TypeOK
      <3> QED
        BY <3>3, <3>4 DEF WriterInv
    <2>5. ReaderInv'
      BY <1>w, <1>r DEF TypeOK, ReaderInv
    <2> QED
      BY <2>1, <2>2, <2>3, <2>4, <2>5
  <1>5. ASSUME NEW w \in Writers, WriteWord(w) PROVE IInv'
    <2> USE <1>5 DEF WriteWord, semVars, ctlVars, histVars
    <2>1. TypeOK'
      <3>1. <<packet[w], done[w] \div 4>> \in Word
        BY <1>t, <1>w DEF TypeOK, Word
      <3>2. ringBuf' \in [Cells -> Word]
        BY <1>t, <3>1 DEF TypeOK
      <3>3. done' \in [Threads -> Nat]
        BY <1>t, <1>w DEF TypeOK
      <3> QED
        BY <1>t, <3>2, <3>3 DEF TypeOK
    <2>2. SemInv'
      BY DEF SemInv, MutualExclusion
    <2>3. ResetInv' /\ PointersTellOccupancy'
      BY <1>g, <1>g2 DEF ResetInv, Quiescent, PointersTellOccupancy
    <2>4. WriterInv' /\ ReaderInv'
      BY <1>w, <1>r DEF TypeOK, WriterInv, ReaderInv
    <2> QED
      BY <2>1, <2>2, <2>3, <2>4
  <1>6. ASSUME NEW w \in Writers, WritePublish(w) PROVE IInv'
    <2> USE <1>6 DEF WritePublish, Goto, semVars, callVars, ctlVars
    <2>0. /\ reset = "idle"
          /\ count[w] \in Nat /\ RoundUp(count[w]) = count[w]
          /\ base[w] = ringIn /\ queued = Size /\ Size + count[w] < RingSize
      BY <1>w, RoundUpAligned
      DEF TypeOK, ResetInv, Quiescent, WriterInv, PointersTellOccupancy
    <2>a. /\ ringIn' = Wrap(ringIn, count[w]) /\ ringIn' \in Cells
          /\ Size \in Nat
      BY SMTT(30), <2>0, <1>g, AdvanceWraps, SizeIsGap, RingAssumption DEF TypeOK
    <2>b. Size' = Size + count[w]
      BY <2>0, <2>a, <1>g, <1>g2, GapGrows DEF TypeOK
    <2>1. TypeOK'
      <3>1. queued' \in Int
        BY <2>0, <2>a
      <3>2. published' \in SUBSET Nat
        BY <1>t, <1>w DEF TypeOK
      <3> QED
        BY <1>t, <1>w, <2>a, <3>1, <3>2 DEF TypeOK, Labels
    <2>2. SemInv'
      BY <1>w, <1>r DEF TypeOK, SemInv, MutualExclusion, Holding
    <2>3. ResetInv' /\ PointersTellOccupancy'
      BY <2>0, <2>b DEF ResetInv, PointersTellOccupancy
    <2>4. WriterInv'
      BY <1>w DEF TypeOK, WriterInv, SemInv, MutualExclusion, Holding
    <2>5. ReaderInv'
      <3>1. ASSUME NEW r \in Readers, pc[r] = "measure", kind = "intr"
            PROVE  ringIn' # ringOut'
        <4>1. ringIn # ringOut
          BY <3>1 DEF ReaderInv
        <4>2. Size > 0
          BY <4>1, <1>g, SizeIsGap DEF TypeOK
        <4>3. Size' > 0
          BY <4>2, <2>0, <2>a, <2>b
        <4> QED
          BY <4>3 DEF Size
      <3>2. ASSUME NEW r \in Readers, pc[r] = "copy"
            PROVE  base[r] = ringOut /\ RoundUp(count[r]) <= queued'
        <4>1. base[r] = ringOut /\ RoundUp(count[r]) <= queued
          BY <3>2 DEF ReaderInv
        <4>2. RoundUp(count[r]) \in Nat
          BY <1>r, RoundUpFacts DEF TypeOK
        <4> QED
          BY <4>1, <4>2, <2>0, <2>a
      <3> QED
        BY <3>1, <3>2, <1>w, <1>r DEF TypeOK, ReaderInv
    <2> QED
      BY <2>1, <2>2, <2>3, <2>4, <2>5
  <1>7. ASSUME NEW w \in Writers, WriteUp(w) PROVE IInv'
    <2> USE <1>7 DEF WriteUp, Return, Goto, ringVars, ctlVars, histVars
    <2>1. TypeOK'
      BY <1>t, <1>z, <1>w DEF TypeOK, Labels, SemInv, Holding
    <2>2. SemInv'
      BY <1>w, <1>r DEF TypeOK, SemInv, MutualExclusion, Holding
    <2>3. ResetInv' /\ PointersTellOccupancy'
      BY <1>g, <1>g2 DEF TypeOK, ResetInv, Quiescent, PointersTellOccupancy
    <2>4. WriterInv' /\ ReaderInv'
      BY <1>w, <1>r DEF TypeOK, WriterInv, ReaderInv
    <2> QED
      BY <2>1, <2>2, <2>3, <2>4
  <1>8. ASSUME NEW r \in Readers, NEW c \in ReadCounts, ReadCall(r, c) PROVE IInv'
    <2> USE <1>8 DEF ReadCall, Goto, ringVars, semVars, ctlVars, histVars
    <2>0. c \in Nat
      BY RingAssumption
    <2>1. TypeOK'
      BY <1>t, <2>0 DEF TypeOK, Labels
    <2>2. SemInv'
      BY <1>w, <1>r DEF TypeOK, SemInv, MutualExclusion, Holding
    <2>3. ResetInv' /\ PointersTellOccupancy'
      BY <1>g, <1>g2 DEF TypeOK, ResetInv, CallAllowed, PointersTellOccupancy
    <2>4. WriterInv' /\ ReaderInv'
      BY <1>w, <1>r DEF TypeOK, WriterInv, ReaderInv
    <2> QED
      BY <2>1, <2>2, <2>3, <2>4
  <1>9. ASSUME NEW r \in Readers, ReadDown(r) PROVE IInv'
    <2> USE <1>9 DEF ReadDown, Goto, ringVars, semVars, callVars, ctlVars, histVars
    <2>1. TypeOK'
      BY <1>t, <1>r DEF TypeOK, Labels
    <2>2. SemInv'
      BY <1>w, <1>r DEF TypeOK, SemInv, MutualExclusion, Holding
    <2>3. ResetInv' /\ PointersTellOccupancy'
      BY <1>r, <1>g, <1>g2 DEF TypeOK, ResetInv, Quiescent, PointersTellOccupancy
    <2>4. WriterInv' /\ ReaderInv'
      BY <1>w, <1>r DEF TypeOK, WriterInv, ReaderInv
    <2> QED
      BY <2>1, <2>2, <2>3, <2>4
  <1>10. ASSUME NEW r \in Readers, ReadCheck(r) PROVE IInv'
    <2> USE <1>10 DEF ReadCheck, Goto, ringVars, semVars, callVars, ctlVars, histVars
    <2>1. TypeOK'
      BY <1>t DEF TypeOK, Labels
    <2>2. SemInv'
      BY <1>w, <1>r DEF TypeOK, SemInv, MutualExclusion, Holding
    <2>3. ResetInv' /\ PointersTellOccupancy'
      BY <1>r, <1>g, <1>g2 DEF TypeOK, ResetInv, Quiescent, PointersTellOccupancy
    <2>4. WriterInv' /\ ReaderInv'
      BY <1>w, <1>r DEF TypeOK, WriterInv, ReaderInv
    <2> QED
      BY <2>1, <2>2, <2>3, <2>4
  <1>11. ASSUME NEW r \in Readers, ReadMeasure(r) PROVE IInv'
    <2> USE <1>11 DEF ReadMeasure, Goto, ringVars, semVars, ctlVars, histVars
    <2>0. reset = "idle" /\ queued = Size /\ Size \in Nat /\ Size % 4 = 0 /\ Distance \in Nat
      <3>1. reset = "idle" /\ queued = Size
        BY <1>r DEF ResetInv, Quiescent, PointersTellOccupancy
      <3>2. Size \in Nat /\ Size % 4 = 0
        BY <1>g, SizeIsGap DEF TypeOK
      <3>3. Distance \in Nat
        BY RingAssumption DEF Distance, TypeOK, Cells
      <3> QED
        BY <3>1, <3>2, <3>3
    <2>c. count'[r] \in Nat /\ (pc'[r] = "copy" => count'[r] <= Distance)
      <3>1. count[r] \in Nat /\ r \in DOMAIN count /\ r \in DOMAIN pc
        BY <1>r DEF TypeOK
      <3>2. Clip(count[r], Distance) \in Nat /\ Clip(count[r], Distance) <= Distance
        BY <3>1, <2>0 DEF Clip
      <3> QED
        BY <3>1, <3>2
    <2>1. TypeOK'
      <3>1. count' \in [Threads -> Nat] /\ base' \in [Threads -> Cells] /\ pc' \in [Threads -> Labels]
        BY <1>r, <2>c DEF TypeOK, Labels
      <3> QED
        BY <1>t, <3>1 DEF TypeOK
    <2>2. SemInv'
      BY <1>w, <1>r DEF TypeOK, SemInv, MutualExclusion, Holding
    <2>3. ResetInv' /\ PointersTellOccupancy'
      BY <2>0, <1>g, <1>g2 DEF ResetInv, PointersTellOccupancy
    <2>4. WriterInv'
      BY <1>w, <1>r DEF TypeOK, WriterInv
    <2>5. ReaderInv'
      <3>1. ASSUME pc'[r] = "copy" PROVE base'[r] = ringOut /\ RoundUp(count'[r]) <= queued
        <4>1. ringIn # ringOut
          BY <3>1, <1>r DEF TypeOK, ReaderInv
        <4>2. Distance = Size
          BY <4>1 DEF Size
        <4>3. count'[r] \in Nat /\ count'[r] <= Size
          BY <3>1, <4>2, <2>c
        <4> QED
          BY <3>1, <4>3, <2>0, <1>r, RoundUpBelow DEF TypeOK
      <3>2. ASSUME NEW q \in Readers, q # r
            PROVE pc'[q] = pc[q] /\ count'[q] = count[q] /\ base'[q] = base[q]
        BY <3>2, <1>r DEF TypeOK
      <3>3. pc'[r] # "measure"
        BY <1>r DEF TypeOK
      <3> QED
        BY <3>1, <3>2, <3>3 DEF ReaderInv
    <2> QED
      BY <2>1, <2>2, <2>3, <2>4, <2>5
  <1>12. ASSUME NEW r \in Readers, ReadWord(r) PROVE IInv'
    <2> USE <1>12 DEF ReadWord, ringVars, semVars, ctlVars, histVars
    <2>1. TypeOK'
      <3>1. ringBuf[Wrap(base[r], done[r])] \in Word
        <4>1. /\ done[r] \in Nat /\ done[r] % 4 = 0
              /\ base[r] \in Cells /\ count[r] \in Nat
              /\ done[r] < count[r] /\ RoundUp(count[r]) <= queued
          BY <1>r DEF TypeOK, ReaderInv
        <4>2. queued <= RingSize - 4
          BY <1>g, <1>r, SizeIsGap DEF TypeOK, ResetInv, Quiescent, PointersTellOccupancy
        <4>3. count[r] <= RoundUp(count[r]) /\ RoundUp(count[r]) \in Nat /\ queued \in Int
          BY <1>t, <4>1, RoundUpFacts DEF TypeOK
        <4>4. done[r] < RingSize
          BY <4>1, <4>2, <4>3, <1>n
        <4> QED
          BY <4>1, <4>4, WrapInCells DEF TypeOK
      <3> QED
        BY <1>t, <1>r, <3>1 DEF TypeOK
    <2>2. SemInv'
      BY DEF SemInv, MutualExclusion
    <2>3. ResetInv' /\ PointersTellOccupancy'
      BY <1>g, <1>g2 DEF ResetInv, Quiescent, PointersTellOccupancy
    <2>4. WriterInv' /\ ReaderInv'
      <3>1. \A q \in Readers : done'[q] % 4 = 0
        BY <1>r DEF TypeOK, ReaderInv
      <3> QED
        BY <3>1 DEF WriterInv, ReaderInv
    <2> QED
      BY <2>1, <2>2, <2>3, <2>4
  <1>13. ASSUME NEW r \in Readers, ReadAdvance(r) PROVE IInv'
    <2> USE <1>13 DEF ReadAdvance, Goto, semVars, callVars, ctlVars
    <2>0. /\ reset = "idle" /\ queued = Size
          /\ base[r] = ringOut /\ RoundUp(count[r]) <= Size
      BY <1>r DEF ResetInv, Quiescent, ReaderInv, PointersTellOccupancy
    <2>a. /\ Size \in Nat /\ Size <= RingSize - 4
          /\ count[r] \in Nat /\ RoundUp(count[r]) \in Nat
      BY <1>g, <1>r, SizeIsGap, RoundUpFacts DEF TypeOK
    <2>b. ringOut' = Wrap(ringOut, RoundUp(count[r])) /\ ringOut' \in Cells
      <3>1. ringOut' = Advance(ringOut, ringOut, count[r])
        BY <2>0
      <3>2. ringOut \in Cells /\ RoundUp(count[r]) <= RingSize
        BY <1>t, <1>n, <2>0, <2>a DEF TypeOK
      <3> QED
        BY <2>a, <3>1, <3>2, AdvanceWraps
    <2>c. Size' = Size - RoundUp(count[r])
      BY <2>0, <2>a, <2>b, <1>g, <1>g2, GapShrinks DEF TypeOK
    <2>1. TypeOK'
      <3>1. delivered' \in Seq(Word)
        BY DEF TypeOK
      <3> QED
        BY <1>t, <1>r, <2>a, <2>b, <3>1, SMTT(30) DEF TypeOK, Labels
    <2>2. SemInv'
      BY <1>w, <1>r DEF TypeOK, SemInv, MutualExclusion, Holding
    <2>3. ResetInv' /\ PointersTellOccupancy'
      BY <2>0, <2>c DEF ResetInv, PointersTellOccupancy
    <2>4. WriterInv'
      <3>1. ASSUME NEW w \in Writers, pc[w] = "copy"
            PROVE  queued' + count[w] < RingSize
        <4>1. queued + count[w] < RingSize /\ count[w] \in Nat
          BY <3>1, <1>w DEF TypeOK, WriterInv
        <4> QED
          BY <4>1, <2>0, <2>a, RingAssumption
      <3> QED
        BY <3>1, <1>w, <1>r DEF TypeOK, WriterInv
    <2>5. ReaderInv'
      BY <1>r DEF TypeOK, ReaderInv, SemInv, MutualExclusion, Holding
    <2> QED
      BY <2>1, <2>2, <2>3, <2>4, <2>5
  <1>14. ASSUME NEW r \in Readers, ReadUp(r) PROVE IInv'
    <2> USE <1>14 DEF ReadUp, Return, Goto, ringVars, ctlVars, histVars
    <2>1. TypeOK'
      BY <1>t, <1>z, <1>r DEF TypeOK, Labels, SemInv, Holding
    <2>2. SemInv'
      BY <1>w, <1>r DEF TypeOK, SemInv, MutualExclusion, Holding
    <2>3. ResetInv' /\ PointersTellOccupancy'
      BY <1>g, <1>g2 DEF TypeOK, ResetInv, Quiescent, PointersTellOccupancy
    <2>4. WriterInv' /\ ReaderInv'
      BY <1>w, <1>r DEF TypeOK, WriterInv, ReaderInv
    <2> QED
      BY <2>1, <2>2, <2>3, <2>4
  <1>15. ASSUME ResetIn \/ ResetOut \/ ResetReadSem \/ ResetWriteSem PROVE IInv'
    <2> USE <1>15 DEF ResetIn, ResetOut, ResetReadSem, ResetWriteSem,
                      ringVars, semVars, callVars, histVars
    <2>0. Quiescent /\ pc' = pc
      BY DEF ResetInv
    <2>1. TypeOK'
      <3>1. CASE ResetIn
        BY <3>1, <1>t, <1>z DEF TypeOK
      <3>2. CASE ResetOut
        BY <3>2, <1>t, <1>z DEF TypeOK
      <3>3. CASE ResetReadSem
        BY <3>3, <1>t DEF TypeOK
      <3>4. CASE ResetWriteSem
        BY <3>4, <1>t DEF TypeOK
      <3> QED
        BY <3>1, <3>2, <3>3, <3>4
    <2>2. SemInv'
      BY <2>0, <1>w, <1>r DEF SemInv, MutualExclusion, Quiescent, Holding
    <2>3. ResetInv' /\ PointersTellOccupancy'
      BY <2>0 DEF ResetInv, Quiescent, PointersTellOccupancy, Size
    <2>4. WriterInv' /\ ReaderInv'
      BY <2>0, <1>w, <1>r DEF WriterInv, ReaderInv, Quiescent
    <2> QED
      BY <2>1, <2>2, <2>3, <2>4
  <1> QED
    BY <1>0, <1>1, <1>2, <1>3, <1>4, <1>5, <1>6, <1>7, <1>8, <1>9, <1>10, <1>11,
       <1>12, <1>13, <1>14, <1>15 DEF Next

\* The invariant of every behaviour with disciplined clients.
LEMMA Invariance ==
  ASSUME Disciplined
  PROVE  Spec => []IInv
  <1>1. Init => IInv
    BY InitIInv
  <1>2. IInv /\ [Next]_vars => IInv'
    BY NextIInv
  <1> QED
    BY <1>1, <1>2, PTL DEF Spec

-----------------------------------------------------------------------------
(* What it gives. *)

\* The variables keep their types: both pointers of a ring stay word aligned
\* and inside the ring, and its semaphores stay binary.
THEOREM TypeCorrect ==
  ASSUME Disciplined
  PROVE  Spec => []TypeOK
  <1>1. IInv => TypeOK
    BY DEF IInv
  <1> QED
    BY <1>1, Invariance, PTL

\* readSem and writeSem each admit one thread at a time to the ring.
THEOREM Exclusive ==
  ASSUME Disciplined
  PROVE  Spec => []MutualExclusion
  <1>1. IInv => MutualExclusion
    BY DEF IInv, SemInv
  <1> QED
    BY <1>1, Invariance, PTL

\* The sizes the read and write functions compute from the pointers are the
\* number of bytes really waiting in the ring.
THEOREM OccupancyKnown ==
  ASSUME Disciplined
  PROVE  Spec => []PointersTellOccupancy
  <1>1. IInv => PointersTellOccupancy
    BY DEF IInv
  <1> QED
    BY <1>1, Invariance, PTL

\* A writer that measured the ring before readers moved ringOut still never
\* stores into a word that has to be read.
THEOREM NothingOverwritten ==
  ASSUME Disciplined
  PROVE  Spec => []NoOverwrite
  <1>1. IInv => NoOverwrite
    <2> SUFFICES ASSUME IInv, NEW w \in Writers, pc[w] = "copy",
                        NEW a \in Filling(w), a \in Unread
                 PROVE  FALSE
      BY DEF NoOverwrite
    <2>1. /\ w \in Threads /\ count[w] \in Nat /\ base[w] = ringIn
          /\ queued + count[w] < RingSize /\ queued \in Int
          /\ ringIn \in Cells /\ ringOut \in Cells
      BY DEF IInv, TypeOK, WriterInv, Threads
    <2>2. queued = Gap(ringIn, ringOut)
      <3>1. reset = "idle"
        BY <2>1 DEF IInv, ResetInv, Quiescent
      <3> QED
        BY <3>1 DEF IInv, PointersTellOccupancy, Size, Distance, Gap
    <2>3. PICK d \in 0..count[w] - 1 : a = Wrap(ringIn, d)
      BY <2>1 DEF Filling
    <2>4. PICK e \in 0..queued - 1 : a = Wrap(ringOut, e)
      BY DEF Unread
    <2>5. /\ d \in Nat /\ e \in Nat
          /\ e < Gap(ringIn, ringOut) /\ Gap(ringIn, ringOut) + d < RingSize
      BY <2>1, <2>2, <2>3, <2>4, RingAssumption
    <2> QED
      BY <2>1, <2>3, <2>4, <2>5, Disjoint
  <1> QED
    BY <1>1, Invariance, PTL

\* A reader copies published words only, whatever it asked for.
THEOREM OnlyPublishedRead ==
  ASSUME Disciplined
  PROVE  Spec => []ReadsPublished
  <1>1. IInv => ReadsPublished
    BY DEF IInv, ReaderInv, ReadsPublished
  <1> QED
    BY <1>1, Invariance, PTL

-----------------------------------------------------------------------------
(* Kernel devices, reset at any moment. *)

\* The semaphores alone: what RPC_IOCTRESET leaves intact on a kernel device.
KernInv ==
  /\ kind = "kern" /\ reset \in {"idle", "out"}
  /\ readSem \in 0..1 /\ writeSem \in 0..1
  /\ pc \in [Threads -> Labels]
  /\ SemInv

\* No step breaks it, resets of busy rings and writes of any length included.
LEMMA NextKernInv == KernInv /\ [Next]_vars => KernInv'
  <1> SUFFICES ASSUME KernInv, [Next]_vars PROVE KernInv'
    OBVIOUS
  <1> USE DEF KernInv
  <1>w. \A w \in Writers : w \in Threads /\ w \notin Readers
    BY RingAssumption DEF Threads
  <1>r. \A r \in Readers : r \in Threads /\ r \notin Writers
    BY RingAssumption DEF Threads
  <1>0. CASE UNCHANGED vars
    BY <1>0 DEF vars, semVars, ctlVars, SemInv, MutualExclusion
  <1>1. ASSUME NEW t \in Threads, Interrupted(t) PROVE KernInv'
    BY <1>1, <1>w, <1>r DEF Interrupted, Return, Goto, semVars, ctlVars, SemInv,
       MutualExclusion, Holding, Labels
  <1>2. ASSUME NEW w \in Writers, NEW c \in WriteCounts, WriteCall(w, c) PROVE KernInv'
    BY <1>2, <1>w, <1>r DEF WriteCall, Goto, semVars, ctlVars, SemInv,
       MutualExclusion, Holding, Labels
  <1>3. ASSUME NEW w \in Writers, WriteDown(w) PROVE KernInv'
    BY <1>3, <1>w, <1>r DEF WriteDown, Goto, ctlVars, SemInv,
       MutualExclusion, Holding, Labels
  <1>4. ASSUME NEW w \in Writers, WriteMeasure(w) \/ WriteWord(w) \/ WritePublish(w)
        PROVE  KernInv'
    BY <1>4, <1>w, <1>r DEF WriteMeasure, WriteWord, WritePublish, Goto, semVars,
       ctlVars, SemInv, MutualExclusion, Holding, Labels
  <1>5. ASSUME NEW w \in Writers, WriteUp(w) PROVE KernInv'
    BY <1>5, <1>w, <1>r DEF WriteUp, Return, Goto, ctlVars, SemInv,
       MutualExclusion, Holding, Labels
  <1>6. ASSUME NEW r \in Readers, NEW c \in ReadCounts, ReadCall(r, c) PROVE KernInv'
    BY <1>6, <1>w, <1>r DEF ReadCall, Goto, semVars, ctlVars, SemInv,
       MutualExclusion, Holding, Labels
  <1>7. ASSUME NEW r \in Readers, ReadDown(r) PROVE KernInv'
    BY <1>7, <1>w, <1>r DEF ReadDown, Goto, ctlVars, SemInv,
       MutualExclusion, Holding, Labels
  <1>8. ASSUME NEW r \in Readers,
               ReadCheck(r) \/ ReadMeasure(r) \/ ReadWord(r) \/ ReadAdvance(r)
        PROVE  KernInv'
    BY <1>8, <1>w, <1>r DEF ReadCheck, ReadMeasure, ReadWord, ReadAdvance, Goto,
       semVars, ctlVars, SemInv, MutualExclusion, Holding, Labels
  <1>9. ASSUME NEW r \in Readers, ReadUp(r) PROVE KernInv'
    BY <1>9, <1>w, <1>r DEF ReadUp, Return, Goto, ctlVars, SemInv,
       MutualExclusion, Holding, Labels
  <1>10. ASSUME ResetIn \/ ResetOut \/ ResetReadSem \/ ResetWriteSem PROVE KernInv'
    BY <1>10 DEF ResetIn, ResetOut, ResetReadSem, ResetWriteSem, semVars, SemInv,
       MutualExclusion
  <1> QED
    BY <1>0, <1>1, <1>2, <1>3, <1>4, <1>5, <1>6, <1>7, <1>8, <1>9, <1>10 DEF Next

\* On a kernel device RPC_IOCTRESET may come during calls: the pointers jump
\* under them, but readSem and writeSem still admit one thread at a time.
THEOREM KernelExclusive ==
  ASSUME Kinds = {"kern"}
  PROVE  Spec => []MutualExclusion
  <1>1. Init => KernInv
    BY RingAssumption DEF Init, KernInv, SemInv, MutualExclusion, Holding, Labels, Threads
  <1>2. KernInv => MutualExclusion
    BY DEF KernInv, SemInv
  <1> QED
    BY <1>1, <1>2, NextKernInv, PTL DEF Spec

-----------------------------------------------------------------------------
(* The ring implements the queue of RPCFifo. *)

\* The n words of b from pointer o on.
Window(b, o, n) == [i \in 1..n |-> b[Wrap(o, 4 * (i - 1))]]

\* Advancing twice is advancing by the sum.
LEMMA WrapTwice ==
  ASSUME NEW o \in Cells, NEW d \in Nat, NEW e \in Nat, d + e < RingSize
  PROVE  Wrap(Wrap(o, d), e) = Wrap(o, d + e)
  BY RingAssumption DEF Wrap, Cells

\* Words less than a turn away are different words.
LEMMA WrapDiffers ==
  ASSUME NEW o \in Cells, NEW d \in Nat, NEW e \in Nat, d < RingSize, e < d
  PROVE  Wrap(o, d) # Wrap(o, e)
  BY RingAssumption DEF Wrap, Cells

\* The words of a part of the ring are words.
LEMMA WindowIsSeq ==
  ASSUME NEW b \in [Cells -> Word], NEW o \in Cells, NEW n \in Nat, 4 * n <= RingSize
  PROVE  /\ Window(b, o, n) \in [1..n -> Word]
         /\ Window(b, o, n) \in Seq(Word) /\ Len(Window(b, o, n)) = n
         /\ \A i \in 1..n : Window(b, o, n)[i] = b[Wrap(o, 4 * (i - 1))]
  <1>1. ASSUME NEW i \in 1..n PROVE b[Wrap(o, 4 * (i - 1))] \in Word
    <2>1. PICK d \in Nat : d = 4 * (i - 1)
      OBVIOUS
    <2>2. d < RingSize /\ d % 4 = 0
      BY <2>1, RingAssumption
    <2> QED
      BY <2>1, <2>2, WrapInCells
  <1>2. Window(b, o, n) \in [1..n -> Word] /\ \A i \in 1..n : Window(b, o, n)[i] = b[Wrap(o, 4 * (i - 1))]
    BY <1>1 DEF Window
  <1> QED
    BY <1>2, FunctionIsSeq

\* One word more.
LEMMA WindowAppend ==
  ASSUME NEW b \in [Cells -> Word], NEW o \in Cells, NEW n \in Nat, 4 * (n + 1) <= RingSize
  PROVE  Window(b, o, n + 1) = Append(Window(b, o, n), b[Wrap(o, 4 * n)])
  <1>0. 4 * n <= RingSize /\ n + 1 \in Nat
    BY RingAssumption
  <1>1. PICK f \in Seq(Word) : f = Window(b, o, n) /\ Len(f) = n
    BY <1>0, WindowIsSeq
  <1>2. PICK g \in Seq(Word) : g = Window(b, o, n + 1) /\ Len(g) = n + 1
    BY <1>0, WindowIsSeq
  <1>3. PICK x \in Word : x = b[Wrap(o, 4 * n)] /\ g[n + 1] = x
    <2>1. n + 1 \in 1..n + 1 /\ (n + 1) - 1 = n
      OBVIOUS
    <2>2. g[n + 1] = b[Wrap(o, 4 * n)]
      BY <1>2, <2>1 DEF Window
    <2> QED
      BY <1>2, <2>1, <2>2
  <1>4. ASSUME NEW i \in 1..n PROVE g[i] = f[i]
    <2>1. i \in 1..n + 1
      OBVIOUS
    <2> QED
      BY <1>1, <1>2, <2>1 DEF Window
  <1>5. Append(f, x) \in Seq(Word) /\ Len(Append(f, x)) = n + 1
        /\ (\A i \in 1..n : Append(f, x)[i] = f[i]) /\ Append(f, x)[n + 1] = x
    BY <1>1, AppendProperties
  <1>6. ASSUME NEW i \in 1..n + 1 PROVE g[i] = Append(f, x)[i]
    <2>1. i \in 1..n \/ i = n + 1
      OBVIOUS
    <2> QED
      BY <1>3, <1>4, <1>5, <2>1
  <1>7. g = Append(f, x)
    BY <1>2, <1>5, <1>6, SeqEqual
  <1> QED
    BY <1>1, <1>2, <1>3, <1>7

\* Where the words of a part of the ring are.
LEMMA WindowPlace ==
  ASSUME NEW o \in Cells, NEW n \in Nat, 4 * n <= RingSize, NEW i \in 1..n
  PROVE  4 * (i - 1) \in Nat /\ 4 * (i - 1) < 4 * n /\ Wrap(o, 4 * (i - 1)) \in Cells
  <1>1. PICK d \in Nat : d = 4 * (i - 1)
    OBVIOUS
  <1>2. d < RingSize /\ d % 4 = 0 /\ d < 4 * n
    BY <1>1, RingAssumption
  <1>3. Wrap(o, d) \in Cells
    BY <1>2, WrapInCells
  <1> QED
    BY <1>1, <1>2, <1>3

\* The elements of a part of the ring cut in two.
LEMMA WindowParts ==
  ASSUME NEW b \in [Cells -> Word], NEW o \in Cells, NEW m \in Nat, NEW n \in Nat,
         4 * (m + n) < RingSize
  PROVE  /\ Window(b, o, m) \in [1..m -> Word]
         /\ Window(b, Wrap(o, 4 * m), n) \in [1..n -> Word]
         /\ Window(b, o, m + n) \in [1..m + n -> Word]
         /\ \A i \in 1..m : Window(b, o, m + n)[i] = Window(b, o, m)[i]
         /\ \A i \in 1..n : Window(b, o, m + n)[m + i] = Window(b, Wrap(o, 4 * m), n)[i]
  <1>0. /\ 4 * m <= RingSize /\ 4 * n <= RingSize /\ 4 * (m + n) <= RingSize /\ m + n \in Nat
        /\ 4 * m < RingSize /\ 4 * m \in Nat /\ (4 * m) % 4 = 0
    BY RingAssumption
  <1>1. PICK k \in Cells : k = Wrap(o, 4 * m)
    BY <1>0, WrapInCells
  <1>2. /\ Window(b, o, m) \in [1..m -> Word] /\ Window(b, k, n) \in [1..n -> Word]
        /\ Window(b, o, m + n) \in [1..m + n -> Word]
    BY <1>0, WindowIsSeq
  <1>3. ASSUME NEW i \in 1..m PROVE Window(b, o, m + n)[i] = Window(b, o, m)[i]
    <2>1. i \in 1..m + n
      OBVIOUS
    <2> QED
      BY <2>1 DEF Window
  <1>4. ASSUME NEW i \in 1..n PROVE Window(b, o, m + n)[m + i] = Window(b, k, n)[i]
    <2>1. m + i \in 1..m + n
      OBVIOUS
    <2>2. Window(b, o, m + n)[m + i] = b[Wrap(o, 4 * ((m + i) - 1))]
      BY <2>1 DEF Window
    <2>3. Window(b, k, n)[i] = b[Wrap(k, 4 * (i - 1))]
      BY DEF Window
    <2>4. PICK d \in Nat, e \in Nat : d = 4 * m /\ e = 4 * (i - 1)
      OBVIOUS
    <2>5. 4 * ((m + i) - 1) = d + e /\ d + e < RingSize
      BY <2>4, <1>0, RingAssumption
    <2>6. Wrap(k, e) = Wrap(o, d + e)
      BY <1>1, <2>4, <2>5, WrapTwice
    <2> QED
      BY <2>2, <2>3, <2>4, <2>5, <2>6
  <1> QED
    BY <1>1, <1>2, <1>3, <1>4

\* The words up to a pointer, then those from there on.
LEMMA WindowConcat ==
  ASSUME NEW b \in [Cells -> Word], NEW o \in Cells, NEW m \in Nat, NEW n \in Nat,
         4 * (m + n) < RingSize
  PROVE  Window(b, o, m + n) = Window(b, o, m) \o Window(b, Wrap(o, 4 * m), n)
  <1>f. PICK f \in [1..m -> Word] : f = Window(b, o, m)
    BY WindowParts
  <1>g. PICK g \in [1..n -> Word] : g = Window(b, Wrap(o, 4 * m), n)
    BY WindowParts
  <1>h. PICK h \in [1..m + n -> Word] : h = Window(b, o, m + n)
    BY WindowParts
  <1>a. \A i \in 1..m : h[i] = f[i]
    BY <1>f, <1>h, WindowParts
  <1>b. \A i \in 1..n : h[m + i] = g[i]
    BY <1>g, <1>h, WindowParts
  <1>2. h = f \o g
    <2>1. /\ f \in Seq(Word) /\ Len(f) = m /\ g \in Seq(Word) /\ Len(g) = n
          /\ h \in Seq(Word) /\ Len(h) = m + n
      BY FunctionIsSeq
    <2>2. f \o g \in Seq(Word) /\ Len(f \o g) = m + n
      BY <2>1, ConcatProperties
    <2>3. ASSUME NEW i \in 1..m + n PROVE h[i] = (f \o g)[i]
      <3>1. CASE i \in 1..m
        BY <1>a, <2>1, <3>1
      <3>2. CASE i \notin 1..m
        <4>1. i - m \in 1..n /\ m + (i - m) = i
          BY <3>2
        <4>2. h[i] = g[i - m]
          BY <1>b, <4>1
        <4>3. (f \o g)[i] = g[i - m]
          <5>1. i \in 1..Len(f) + Len(g) /\ ~(i <= Len(f)) /\ i - Len(f) = i - m
            BY <2>1, <3>2
          <5>2. (f \o g)[i] = IF i <= Len(f) THEN f[i] ELSE g[i - Len(f)]
            BY <2>1, <5>1, ConcatProperties
          <5> QED
            BY <5>1, <5>2
        <4> QED
          BY <4>2, <4>3
      <3> QED
        BY <3>1, <3>2
    <2> QED
      BY <2>1, <2>2, <2>3, SeqEqual
  <1> QED
    BY <1>f, <1>g, <1>h, <1>2

\* The first m words, and those behind them.
LEMMA WindowSplit ==
  ASSUME NEW b \in [Cells -> Word], NEW o \in Cells, NEW m \in Nat, NEW n \in Nat,
         4 * (m + n) < RingSize
  PROVE  /\ SubSeq(Window(b, o, m + n), 1, m) = Window(b, o, m)
         /\ SubSeq(Window(b, o, m + n), m + 1, m + n) = Window(b, Wrap(o, 4 * m), n)
  <1>f. PICK f \in [1..m -> Word] : f = Window(b, o, m)
    BY WindowParts
  <1>g. PICK g \in [1..n -> Word] : g = Window(b, Wrap(o, 4 * m), n)
    BY WindowParts
  <1>h. PICK h \in [1..m + n -> Word] : h = Window(b, o, m + n)
    BY WindowParts
  <1>a. \A i \in 1..m : h[i] = f[i]
    BY <1>f, <1>h, WindowParts
  <1>b. \A i \in 1..n : h[m + i] = g[i]
    BY <1>g, <1>h, WindowParts
  <1>2. f = SubSeq(h, 0 + 1, 0 + m)
    <2>1. 0 \in Nat /\ 0 + m <= m + n /\ m + n \in Nat
      OBVIOUS
    <2>2. \A i \in 1..m : f[i] = h[0 + i]
      BY <1>a
    <2> QED
      BY <2>1, <2>2, SubSeqByElements
  <1>3. g = SubSeq(h, m + 1, m + n)
    <2>1. m + n <= m + n /\ m + n \in Nat
      OBVIOUS
    <2>2. \A i \in 1..n : g[i] = h[m + i]
      BY <1>b
    <2> QED
      BY <2>1, <2>2, SubSeqByElements
  <1>4. 0 + 1 = 1 /\ 0 + m = m
    OBVIOUS
  <1> QED
    BY <1>f, <1>g, <1>h, <1>2, <1>3, <1>4

\* The words of a packet.
LEMMA WordsIsSeq ==
  ASSUME NEW p \in Nat, NEW n \in Nat
  PROVE  Fifo!Words(p, n) \in Seq(Word) /\ Len(Fifo!Words(p, n)) = n
  <1>1. \A i \in 1..n : <<p, i - 1>> \in Word
    BY DEF Word
  <1>2. Fifo!Words(p, n) \in [1..n -> Word]
    BY <1>1 DEF Fifo!Words
  <1> QED
    BY <1>2, FunctionIsSeq

\* One word more of a packet.
LEMMA WordsAppend ==
  ASSUME NEW p \in Nat, NEW n \in Nat
  PROVE  Fifo!Words(p, n + 1) = Append(Fifo!Words(p, n), <<p, n>>)
  <1>1. PICK f \in Seq(Word) : f = Fifo!Words(p, n) /\ Len(f) = n
    BY WordsIsSeq
  <1>2. PICK g \in Seq(Word) : g = Fifo!Words(p, n + 1) /\ Len(g) = n + 1
    BY WordsIsSeq
  <1>3. PICK x \in Word : x = <<p, n>>
    BY DEF Word
  <1>4. Append(f, x) \in Seq(Word) /\ Len(Append(f, x)) = n + 1
        /\ (\A i \in 1..n : Append(f, x)[i] = f[i]) /\ Append(f, x)[n + 1] = x
    BY <1>1, AppendProperties
  <1>5. ASSUME NEW i \in 1..n + 1 PROVE g[i] = Append(f, x)[i]
    <2>1. CASE i \in 1..n
      BY <1>1, <1>2, <1>4, <2>1 DEF Fifo!Words
    <2>2. CASE i = n + 1
      BY <1>2, <1>3, <1>4, <2>2 DEF Fifo!Words
    <2>3. i \in 1..n \/ i = n + 1
      OBVIOUS
    <2> QED
      BY <2>1, <2>2, <2>3
  <1>6. g = Append(f, x)
    BY <1>2, <1>4, <1>5, SeqEqual
  <1> QED
    BY <1>1, <1>2, <1>3, <1>6

-----------------------------------------------------------------------------
(* What the copies hold.  Together with IInv these are inductive. *)

\* Packets on their way are named apart, and none was published before.
Underway == {"down", "measure", "copy"}

PacketInv ==
  /\ issued <= MaxWrites /\ published \subseteq 1..issued
  /\ \A w \in Writers : pc[w] \in Underway => packet[w] \in 1..issued \ published
  /\ \A v, w \in Writers :
       pc[v] \in Underway /\ pc[w] \in Underway /\ packet[v] = packet[w] => v = w

\* Behind ringIn lie the first words of the packet that is being written.
WriterData ==
  \A w \in Writers :
    /\ pc[w] \in {"idle", "down", "measure"} => done[w] = 0
    /\ pc[w] = "copy" =>
         /\ done[w] % 4 = 0 /\ done[w] <= count[w]
         /\ Window(ringBuf, base[w], done[w] \div 4) = Fifo!Words(packet[w], done[w] \div 4)

\* A reader's buffer holds the first words behind ringOut.
ReaderData ==
  \A r \in Readers :
    /\ pc[r] \in {"idle", "down", "check", "measure"} => done[r] = 0 /\ userBuf[r] = << >>
    /\ pc[r] = "copy" =>
         /\ done[r] <= RoundUp(count[r])
         /\ userBuf[r] = Window(ringBuf, base[r], done[r] \div 4)

DataInv == IInv /\ PacketInv /\ WriterData /\ ReaderData

\* Before the first call.
LEMMA InitData == Init => DataInv
  <1> SUFFICES ASSUME Init PROVE DataInv
    OBVIOUS
  <1>1. IInv
    BY InitIInv
  <1>2. PacketInv
    BY RingAssumption DEF Init, PacketInv, Underway, Threads
  <1>3. WriterData /\ ReaderData
    BY DEF Init, WriterData, ReaderData, Threads
  <1> QED
    BY <1>1, <1>2, <1>3 DEF DataInv

\* Calls take numbers that were not used before.
LEMMA NextPackets ==
  ASSUME TypeOK, PacketInv, [Next]_vars
  PROVE  PacketInv'
  <1>w. \A w \in Writers : w \in Threads /\ w \notin Readers
    BY RingAssumption DEF Threads
  <1>r. \A r \in Readers : r \in Threads /\ r \notin Writers
    BY RingAssumption DEF Threads
  <1>t. pc \in [Threads -> Labels] /\ packet \in [Writers -> Nat] /\ issued \in Nat
    BY DEF TypeOK
  <1>1. ASSUME NEW w \in Writers, NEW c \in WriteCounts, WriteCall(w, c) PROVE PacketInv'
    <2>1. pc' = [pc EXCEPT ![w] = "down"] /\ packet' = [packet EXCEPT ![w] = issued + 1]
          /\ issued' = issued + 1 /\ published' = published /\ issued < MaxWrites
      BY <1>1 DEF WriteCall, Goto, histVars
    <2>2. issued' <= MaxWrites /\ published \subseteq 1..issued' /\ issued + 1 \notin published
          /\ \A p \in 1..issued : p \in 1..issued' /\ p # issued + 1
      BY <1>t, <2>1, RingAssumption DEF PacketInv
    <2>3. /\ packet'[w] = issued + 1 /\ packet'[w] \in 1..issued'
          /\ \A v \in Writers : v # w => pc'[v] = pc[v] /\ packet'[v] = packet[v]
      BY <1>t, <1>w, <2>1
    <2>4. \A v \in Writers : pc[v] \in Underway => packet[v] \in 1..issued \ published
      BY DEF PacketInv
    <2>5. \A v \in Writers : pc'[v] \in Underway => packet'[v] \in 1..issued' \ published'
      BY <2>1, <2>2, <2>3, <2>4
    <2>6. \A v \in Writers : v # w /\ pc'[v] \in Underway => packet'[v] # issued + 1
      BY <2>2, <2>3, <2>4
    <2>7. \A u, v \in Writers :
            pc'[u] \in Underway /\ pc'[v] \in Underway /\ packet'[u] = packet'[v] => u = v
      BY <2>3, <2>6 DEF PacketInv
    <2> QED
      BY <2>1, <2>2, <2>5, <2>7 DEF PacketInv
  <1>2. ASSUME NEW w \in Writers, WritePublish(w) PROVE PacketInv'
    <2>1. pc' = [pc EXCEPT ![w] = "up"] /\ packet' = packet /\ issued' = issued
          /\ published' = published \cup {packet[w]} /\ pc[w] = "copy"
      BY <1>2 DEF WritePublish, Goto, callVars
    <2>2. pc'[w] \notin Underway /\ \A v \in Writers : v # w => pc'[v] = pc[v]
      BY <1>t, <1>w, <2>1 DEF Underway
    <2>3. pc[w] \in Underway
      BY <2>1 DEF Underway
    <2> QED
      BY <2>1, <2>2, <2>3 DEF PacketInv
  <1>3. ASSUME UNCHANGED <<packet, issued, published>>,
               \A v \in Writers : pc'[v] \in Underway => pc[v] \in Underway
        PROVE  PacketInv'
    BY <1>3 DEF PacketInv
  <1>4. ASSUME NEW t \in Threads, Interrupted(t) PROVE PacketInv'
    <2>1. \A v \in Writers : pc'[v] \in Underway => pc[v] \in Underway
      BY <1>t, <1>w, <1>4 DEF Interrupted, Return, Goto, Underway
    <2> QED
      BY <1>3, <1>4, <2>1 DEF Interrupted, histVars
  <1>5. ASSUME NEW w \in Writers, WriteDown(w) \/ WriteMeasure(w) \/ WriteWord(w) \/ WriteUp(w)
        PROVE  PacketInv'
    <2>1. \A v \in Writers : pc'[v] \in Underway => pc[v] \in Underway
      BY <1>t, <1>w, <1>5 DEF WriteDown, WriteMeasure, WriteWord, WriteUp, Return, Goto, Underway
    <2> QED
      BY <1>3, <1>5, <2>1
      DEF WriteDown, WriteMeasure, WriteWord, WriteUp, callVars, histVars
  <1>6. ASSUME NEW r \in Readers,
               \/ \E c \in ReadCounts : ReadCall(r, c)
               \/ ReadDown(r) \/ ReadCheck(r) \/ ReadMeasure(r) \/ ReadWord(r)
               \/ ReadAdvance(r) \/ ReadUp(r)
        PROVE  PacketInv'
    <2>1. \A v \in Writers : pc'[v] = pc[v]
      BY <1>t, <1>w, <1>r, <1>6
      DEF ReadCall, ReadDown, ReadCheck, ReadMeasure, ReadWord, ReadAdvance, ReadUp, Return, Goto
    <2> QED
      BY <1>3, <1>6, <2>1
      DEF ReadCall, ReadDown, ReadCheck, ReadMeasure, ReadWord, ReadAdvance, ReadUp,
          callVars, histVars
  <1>7. ASSUME ResetIn \/ ResetOut \/ ResetReadSem \/ ResetWriteSem \/ UNCHANGED vars PROVE PacketInv'
    BY <1>3, <1>7 DEF ResetIn, ResetOut, ResetReadSem, ResetWriteSem, vars, callVars, histVars
  <1> QED
    BY <1>1, <1>2, <1>4, <1>5, <1>6, <1>7 DEF Next

\* The sizes of the ring and of the copies in progress.
LEMMA CopyFacts ==
  ASSUME IInv, WriterData, ReaderData
  PROVE  /\ RingSize \in Nat /\ ringBuf \in [Cells -> Word] /\ ringIn \in Cells /\ ringOut \in Cells
         /\ Size \in Nat /\ Size % 4 = 0 /\ Size = Gap(ringIn, ringOut) /\ Size <= RingSize - 4
         /\ \A t \in Threads : pc[t] # "idle" => reset = "idle" /\ queued = Size
         /\ \A w \in Writers : pc[w] = "copy" =>
              /\ base[w] = ringIn /\ packet[w] \in Nat
              /\ count[w] \in Nat /\ count[w] % 4 = 0 /\ Size + count[w] < RingSize
              /\ done[w] \in Nat /\ done[w] % 4 = 0 /\ done[w] <= count[w]
         /\ \A r \in Readers : pc[r] = "copy" =>
              /\ base[r] = ringOut /\ count[r] \in Nat
              /\ RoundUp(count[r]) \in Nat /\ RoundUp(count[r]) % 4 = 0
              /\ count[r] <= RoundUp(count[r]) /\ RoundUp(count[r]) < count[r] + 4
              /\ RoundUp(count[r]) <= Size
              /\ done[r] \in Nat /\ done[r] % 4 = 0 /\ done[r] <= RoundUp(count[r])
  <1> USE DEF IInv
  <1>1. RingSize \in Nat /\ ringBuf \in [Cells -> Word] /\ ringIn \in Cells /\ ringOut \in Cells
    BY RingAssumption DEF TypeOK
  <1>2. Size = Gap(ringIn, ringOut)
    BY DEF Size, Distance, Gap
  <1>3. Size \in Nat /\ Size % 4 = 0 /\ Size <= RingSize - 4
    BY <1>1, <1>2, SizeIsGap
  <1>4. ASSUME NEW t \in Threads, pc[t] # "idle" PROVE reset = "idle" /\ queued = Size
    BY <1>4 DEF ResetInv, Quiescent, PointersTellOccupancy
  <1>5. ASSUME NEW w \in Writers, pc[w] = "copy"
        PROVE  /\ base[w] = ringIn /\ packet[w] \in Nat
               /\ count[w] \in Nat /\ count[w] % 4 = 0 /\ Size + count[w] < RingSize
               /\ done[w] \in Nat /\ done[w] % 4 = 0 /\ done[w] <= count[w]
    <2>1. w \in Threads /\ queued = Size
      BY <1>4, <1>5 DEF Threads
    <2> QED
      BY <1>5, <2>1 DEF TypeOK, WriterInv, WriterData
  <1>6. ASSUME NEW r \in Readers, pc[r] = "copy"
        PROVE  /\ base[r] = ringOut /\ count[r] \in Nat
               /\ RoundUp(count[r]) \in Nat /\ RoundUp(count[r]) % 4 = 0
               /\ count[r] <= RoundUp(count[r]) /\ RoundUp(count[r]) < count[r] + 4
               /\ RoundUp(count[r]) <= Size
               /\ done[r] \in Nat /\ done[r] % 4 = 0 /\ done[r] <= RoundUp(count[r])
    <2>1. r \in Threads /\ queued = Size
      BY <1>4, <1>6 DEF Threads
    <2>2. count[r] \in Nat /\ done[r] \in Nat
      BY <2>1 DEF TypeOK
    <2> QED
      BY <1>6, <2>1, <2>2, RoundUpFacts DEF ReaderInv, ReaderData
  <1> QED
    BY <1>1, <1>2, <1>3, <1>4, <1>5, <1>6

\* The place a writer stores its next word is none of the words to be read.
LEMMA StoreElsewhere ==
  ASSUME IInv, WriterData, ReaderData, NEW w \in Writers, WriteWord(w), NEW n \in Nat, 4 * n <= Size
  PROVE  Window(ringBuf', ringOut, n) = Window(ringBuf, ringOut, n)
  <1>1. /\ pc[w] = "copy" /\ done[w] < count[w]
        /\ ringBuf' = [ringBuf EXCEPT ![Wrap(base[w], done[w])] = <<packet[w], done[w] \div 4>>]
    BY DEF WriteWord
  <1>2. /\ base[w] = ringIn /\ count[w] \in Nat /\ Size + count[w] < RingSize /\ done[w] \in Nat
        /\ RingSize \in Nat /\ ringBuf \in [Cells -> Word] /\ ringIn \in Cells /\ ringOut \in Cells
        /\ Size \in Nat /\ Size = Gap(ringIn, ringOut) /\ Size <= RingSize - 4
    BY <1>1, CopyFacts
  <1>3. PICK d \in Nat : d = done[w] /\ Gap(ringIn, ringOut) + d < RingSize
    BY <1>1, <1>2
  <1>4. ASSUME NEW e \in Nat, e < 4 * n PROVE Wrap(ringOut, e) # Wrap(base[w], done[w])
    <2>1. e < Gap(ringIn, ringOut)
      BY <1>2, <1>4
    <2> QED
      BY <1>2, <1>3, <2>1, Disjoint
  <1>5. 4 * n <= RingSize
    BY <1>2
  <1>6. PICK c : c = Wrap(base[w], done[w])
    OBVIOUS
  <1>7. \A a \in Cells : a # c => ringBuf'[a] = ringBuf[a]
    BY <1>1, <1>2, <1>6
  <1>8. \A e \in Nat : e < 4 * n => Wrap(ringOut, e) # c
    BY <1>4, <1>6
  <1>9. ASSUME NEW i \in 1..n
        PROVE  ringBuf'[Wrap(ringOut, 4 * (i - 1))] = ringBuf[Wrap(ringOut, 4 * (i - 1))]
    BY <1>2, <1>5, <1>7, <1>8, WindowPlace
  <1> QED
    BY <1>9 DEF Window

\* The writer's own words.
LEMMA StoreOwn ==
  ASSUME IInv, WriterData, ReaderData, NEW w \in Writers, WriteWord(w)
  PROVE  /\ done'[w] % 4 = 0 /\ done'[w] <= count[w]
         /\ Window(ringBuf', base[w], done'[w] \div 4) = Fifo!Words(packet[w], done'[w] \div 4)
  <1>1. /\ pc[w] = "copy" /\ done[w] < count[w] /\ done' = [done EXCEPT ![w] = @ + 4]
        /\ ringBuf' = [ringBuf EXCEPT ![Wrap(base[w], done[w])] = <<packet[w], done[w] \div 4>>]
    BY DEF WriteWord
  <1>2. /\ base[w] \in Cells /\ packet[w] \in Nat
        /\ count[w] \in Nat /\ count[w] % 4 = 0 /\ count[w] < RingSize
        /\ done[w] \in Nat /\ done[w] % 4 = 0
        /\ RingSize \in Nat /\ ringBuf \in [Cells -> Word] /\ RingSize % 4 = 0
    BY <1>1, CopyFacts, RingAssumption
  <1>3. PICK k \in Nat : k = done[w] \div 4 /\ done[w] = 4 * k
    BY <1>2
  <1>4. done'[w] = 4 * k + 4
    BY <1>1, <1>3 DEF IInv, TypeOK, Threads
  <1>5. /\ done'[w] % 4 = 0 /\ done'[w] <= count[w] /\ done'[w] \div 4 = k + 1
        /\ 4 * (k + 1) <= RingSize /\ 4 * k <= RingSize /\ 4 * k < RingSize /\ 4 * k \in Nat
        /\ (4 * k) % 4 = 0
    BY <1>1, <1>2, <1>3, <1>4
  <1>6. PICK b \in [Cells -> Word], x \in Word, c \in Cells :
          b = ringBuf' /\ x = <<packet[w], k>> /\ c = Wrap(base[w], 4 * k)
          /\ b = [ringBuf EXCEPT ![c] = x]
    <2>1. <<packet[w], k>> \in Word
      BY <1>2 DEF Word
    <2>2. Wrap(base[w], 4 * k) \in Cells
      BY <1>2, <1>5, WrapInCells
    <2>3. ringBuf' = [ringBuf EXCEPT ![Wrap(base[w], 4 * k)] = <<packet[w], k>>]
      BY <1>1, <1>3
    <2>4. ringBuf' \in [Cells -> Word]
      BY <1>2, <2>1, <2>2, <2>3
    <2> QED
      BY <2>1, <2>2, <2>3, <2>4
  <1>7. Window(b, base[w], k) = Window(ringBuf, base[w], k)
    <2>1. ASSUME NEW e \in Nat, e < 4 * k PROVE Wrap(base[w], e) # c
      BY <1>2, <1>5, <1>6, <2>1, WrapDiffers
    <2>2. \A a \in Cells : a # c => b[a] = ringBuf[a]
      BY <1>2, <1>6
    <2>3. ASSUME NEW i \in 1..k
          PROVE  b[Wrap(base[w], 4 * (i - 1))] = ringBuf[Wrap(base[w], 4 * (i - 1))]
      BY <1>2, <1>5, <2>1, <2>2, WindowPlace
    <2> QED
      BY <2>3 DEF Window
  <1>8. Window(b, base[w], k + 1) = Append(Window(ringBuf, base[w], k), x)
    <2>1. b[c] = x
      BY <1>2, <1>6
    <2>2. Window(b, base[w], k + 1) = Append(Window(b, base[w], k), b[Wrap(base[w], 4 * k)])
      BY <1>2, <1>5, WindowAppend
    <2> QED
      BY <1>6, <1>7, <2>1, <2>2
  <1>9. Window(ringBuf, base[w], k) = Fifo!Words(packet[w], k)
    BY <1>1, <1>3 DEF WriterData
  <1>10. Fifo!Words(packet[w], k + 1) = Append(Fifo!Words(packet[w], k), x)
    BY <1>2, <1>6, WordsAppend
  <1> QED
    BY <1>5, <1>6, <1>8, <1>9, <1>10

\* The reader's next word.
LEMMA LoadNext ==
  ASSUME IInv, WriterData, ReaderData, NEW r \in Readers, ReadWord(r)
  PROVE  /\ done'[r] <= RoundUp(count[r])
         /\ userBuf'[r] = Window(ringBuf, base[r], done'[r] \div 4)
  <1>1. /\ pc[r] = "copy" /\ done[r] < count[r] /\ done' = [done EXCEPT ![r] = @ + 4]
        /\ userBuf' = [userBuf EXCEPT ![r] = Append(@, ringBuf[Wrap(base[r], done[r])])]
    BY DEF ReadWord
  <1>2. /\ base[r] \in Cells /\ count[r] \in Nat /\ RingSize \in Nat
        /\ RoundUp(count[r]) \in Nat /\ RoundUp(count[r]) % 4 = 0
        /\ count[r] <= RoundUp(count[r]) /\ RoundUp(count[r]) <= RingSize - 4
        /\ done[r] \in Nat /\ done[r] % 4 = 0 /\ ringBuf \in [Cells -> Word]
    BY <1>1, CopyFacts
  <1>3. PICK k \in Nat : k = done[r] \div 4 /\ done[r] = 4 * k
    BY <1>2
  <1>4. done'[r] = 4 * k + 4
    BY <1>1, <1>3 DEF IInv, TypeOK, Threads
  <1>5. done'[r] <= RoundUp(count[r]) /\ done'[r] \div 4 = k + 1 /\ 4 * (k + 1) <= RingSize
    <2>1. done[r] < RoundUp(count[r])
      BY <1>1, <1>2
    <2>2. 4 * k + 4 <= RoundUp(count[r])
      <3>1. PICK n \in Nat : RoundUp(count[r]) = 4 * n
        BY <1>2
      <3>2. 4 * k < 4 * n
        BY <1>3, <2>1, <3>1
      <3> QED
        BY <3>1, <3>2
    <2>3. (4 * k + 4) \div 4 = k + 1
      OBVIOUS
    <2> QED
      BY <1>2, <1>4, <2>2, <2>3
  <1>6. userBuf[r] = Window(ringBuf, base[r], k)
    BY <1>1, <1>3 DEF ReaderData
  <1>7. userBuf'[r] = Append(userBuf[r], ringBuf[Wrap(base[r], 4 * k)])
    BY <1>1, <1>3 DEF IInv, TypeOK
  <1>8. Window(ringBuf, base[r], k + 1) = Append(Window(ringBuf, base[r], k), ringBuf[Wrap(base[r], 4 * k)])
    BY <1>2, <1>5, WindowAppend
  <1> QED
    BY <1>5, <1>6, <1>7, <1>8

\* No words.
LEMMA NoWords ==
  ASSUME NEW b, NEW o, NEW p
  PROVE  Window(b, o, 0) = << >> /\ Fifo!Words(p, 0) = << >> /\ 0 \div 4 = 0
  BY DEF Window, Fifo!Words

\* Steps of writers.
LEMMA NextWriterData ==
  ASSUME IInv, WriterData, ReaderData, [Next]_vars
  PROVE  WriterData'
  <1>w. \A w \in Writers : w \in Threads /\ w \notin Readers
    BY RingAssumption DEF Threads
  <1>r. \A r \in Readers : r \in Threads /\ r \notin Writers
    BY RingAssumption DEF Threads
  <1>t. /\ pc \in [Threads -> Labels] /\ done \in [Threads -> Nat] /\ count \in [Threads -> Nat]
        /\ base \in [Threads -> Cells] /\ packet \in [Writers -> Nat]
    BY DEF IInv, TypeOK
  <1>1. ASSUME NEW w \in Writers, NEW c \in WriteCounts, WriteCall(w, c) PROVE WriterData'
    <2>1. pc[w] = "idle" /\ pc'[w] = "down" /\ done' = done /\ base' = base /\ ringBuf' = ringBuf
      BY <1>1, <1>w, <1>t DEF WriteCall, Goto, ringVars
    <2>2. \A v \in Writers : v # w => pc'[v] = pc[v] /\ count'[v] = count[v] /\ packet'[v] = packet[v]
      BY <1>1, <1>w, <1>t DEF WriteCall, Goto
    <2> QED
      BY <2>1, <2>2 DEF WriterData
  <1>2. ASSUME NEW w \in Writers, WriteDown(w) PROVE WriterData'
    <2>1. pc[w] = "down" /\ pc'[w] = "measure" /\ UNCHANGED <<done, base, count, packet, ringBuf>>
      BY <1>2, <1>w, <1>t DEF WriteDown, Goto, ringVars, callVars
    <2>2. \A v \in Writers : v # w => pc'[v] = pc[v]
      BY <1>2, <1>w, <1>t DEF WriteDown, Goto
    <2> QED
      BY <2>1, <2>2 DEF WriterData
  <1>3. ASSUME NEW w \in Writers, WriteMeasure(w) PROVE WriterData'
    <2>1. pc[w] = "measure" /\ pc'[w] \in {"copy", "up"} /\ UNCHANGED <<done, count, packet, ringBuf>>
      BY <1>3, <1>w, <1>t DEF WriteMeasure, Goto, ringVars
    <2>2. \A v \in Writers : v # w => pc'[v] = pc[v] /\ base'[v] = base[v]
      BY <1>3, <1>w, <1>t DEF WriteMeasure, Goto
    <2>3. done[w] = 0 /\ count[w] \in Nat
      BY <1>w, <1>t, <2>1 DEF WriterData
    <2>4. /\ done'[w] % 4 = 0 /\ done'[w] <= count'[w] /\ done'[w] \div 4 = 0
          /\ Window(ringBuf', base'[w], 0) = Fifo!Words(packet'[w], 0)
      BY <2>1, <2>3, NoWords
    <2> QED
      BY <2>1, <2>2, <2>4 DEF WriterData
  <1>4. ASSUME NEW w \in Writers, WriteWord(w) PROVE WriterData'
    <2>1. pc[w] = "copy" /\ UNCHANGED <<pc, count, base, packet>>
      BY <1>4 DEF WriteWord
    <2>2. \A v \in Writers : v # w => pc[v] # "copy" /\ done'[v] = done[v]
      BY <1>4, <1>w, <1>t, <2>1 DEF WriteWord, IInv, SemInv, MutualExclusion, Holding
    <2>3. /\ done'[w] % 4 = 0 /\ done'[w] <= count[w]
          /\ Window(ringBuf', base[w], done'[w] \div 4) = Fifo!Words(packet[w], done'[w] \div 4)
      BY <1>4, StoreOwn
    <2> QED
      BY <2>1, <2>2, <2>3 DEF WriterData
  <1>5. ASSUME NEW w \in Writers, WritePublish(w) PROVE WriterData'
    <2>1. pc'[w] = "up" /\ UNCHANGED <<done, base, count, packet, ringBuf>>
      BY <1>5, <1>w, <1>t DEF WritePublish, Goto, callVars
    <2>2. \A v \in Writers : v # w => pc'[v] = pc[v]
      BY <1>5, <1>w, <1>t DEF WritePublish, Goto
    <2> QED
      BY <2>1, <2>2 DEF WriterData
  <1>6. ASSUME NEW t \in Threads, Interrupted(t) \/ (t \in Writers /\ WriteUp(t)) PROVE WriterData'
    <2>1. pc'[t] = "idle" /\ done'[t] = 0 /\ UNCHANGED <<packet, ringBuf>>
      BY <1>6, <1>t DEF Interrupted, WriteUp, Return, Goto, ringVars
    <2>2. \A v \in Threads : v # t =>
            pc'[v] = pc[v] /\ done'[v] = done[v] /\ count'[v] = count[v] /\ base'[v] = base[v]
      BY <1>6, <1>t DEF Interrupted, WriteUp, Return, Goto
    <2> QED
      BY <1>w, <2>1, <2>2 DEF WriterData
  <1>7. ASSUME NEW r \in Readers,
               \/ \E c \in ReadCounts : ReadCall(r, c)
               \/ ReadDown(r) \/ ReadCheck(r) \/ ReadMeasure(r) \/ ReadWord(r)
               \/ ReadAdvance(r) \/ ReadUp(r)
        PROVE  WriterData'
    <2>1. \A v \in Writers :
            pc'[v] = pc[v] /\ done'[v] = done[v] /\ count'[v] = count[v] /\ base'[v] = base[v]
      BY <1>t, <1>w, <1>r, <1>7
      DEF ReadCall, ReadDown, ReadCheck, ReadMeasure, ReadWord, ReadAdvance, ReadUp, Return, Goto,
          callVars
    <2>2. UNCHANGED <<packet, ringBuf>>
      BY <1>7
      DEF ReadCall, ReadDown, ReadCheck, ReadMeasure, ReadWord, ReadAdvance, ReadUp,
          callVars, ringVars
    <2> QED
      BY <2>1, <2>2 DEF WriterData
  <1>8. ASSUME ResetIn \/ ResetOut \/ ResetReadSem \/ ResetWriteSem \/ UNCHANGED vars PROVE WriterData'
    <2>1. UNCHANGED <<pc, callVars, ringBuf>>
      BY <1>8 DEF ResetIn, ResetOut, ResetReadSem, ResetWriteSem, vars, ringVars
    <2> QED
      BY <2>1 DEF WriterData, callVars
  <1> QED
    BY <1>1, <1>2, <1>3, <1>4, <1>5, <1>6, <1>7, <1>8, <1>w DEF Next

\* Steps of readers.
LEMMA NextReaderData ==
  ASSUME IInv, WriterData, ReaderData, [Next]_vars
  PROVE  ReaderData'
  <1>w. \A w \in Writers : w \in Threads /\ w \notin Readers
    BY RingAssumption DEF Threads
  <1>r. \A r \in Readers : r \in Threads /\ r \notin Writers
    BY RingAssumption DEF Threads
  <1>t. /\ pc \in [Threads -> Labels] /\ done \in [Threads -> Nat] /\ count \in [Threads -> Nat]
        /\ base \in [Threads -> Cells] /\ userBuf \in [Readers -> Seq(Word)]
    BY DEF IInv, TypeOK
  <1>1. ASSUME NEW r \in Readers, NEW c \in ReadCounts, ReadCall(r, c) PROVE ReaderData'
    <2>1. pc[r] = "idle" /\ pc'[r] = "down" /\ UNCHANGED <<done, base, userBuf, ringBuf>>
      BY <1>1, <1>r, <1>t DEF ReadCall, Goto, ringVars
    <2>2. \A q \in Readers : q # r => pc'[q] = pc[q] /\ count'[q] = count[q]
      BY <1>1, <1>r, <1>t DEF ReadCall, Goto
    <2> QED
      BY <2>1, <2>2 DEF ReaderData
  <1>2. ASSUME NEW r \in Readers, ReadDown(r) \/ ReadCheck(r) PROVE ReaderData'
    <2>1. pc[r] \in {"down", "check"} /\ pc'[r] \in {"check", "measure", "up"}
          /\ UNCHANGED <<done, base, count, userBuf, ringBuf>>
      BY <1>2, <1>r, <1>t DEF ReadDown, ReadCheck, Goto, ringVars, callVars
    <2>2. \A q \in Readers : q # r => pc'[q] = pc[q]
      BY <1>2, <1>r, <1>t DEF ReadDown, ReadCheck, Goto
    <2> QED
      BY <2>1, <2>2 DEF ReaderData
  <1>3. ASSUME NEW r \in Readers, ReadMeasure(r) PROVE ReaderData'
    <2>1. pc[r] = "measure" /\ pc'[r] \in {"copy", "up"} /\ UNCHANGED <<done, userBuf, ringBuf>>
      BY <1>3, <1>r, <1>t DEF ReadMeasure, Goto, ringVars
    <2>2. \A q \in Readers : q # r => pc'[q] = pc[q] /\ base'[q] = base[q] /\ count'[q] = count[q]
      BY <1>3, <1>r, <1>t DEF ReadMeasure, Goto
    <2>3. done[r] = 0 /\ userBuf[r] = << >>
      BY <2>1 DEF ReaderData
    <2>4. count'[r] \in Nat
      <3>1. Distance \in Nat
        BY RingAssumption DEF Distance, IInv, TypeOK, Cells
      <3> QED
        BY <1>3, <1>r, <1>t, <3>1 DEF ReadMeasure, Clip
    <2>5. 0 <= RoundUp(count'[r])
      BY <2>4, RoundUpFacts
    <2>6. done'[r] = 0 /\ done'[r] \div 4 = 0 /\ userBuf'[r] = Window(ringBuf', base'[r], 0)
      BY <2>1, <2>3, NoWords
    <2> QED
      BY <2>1, <2>2, <2>5, <2>6 DEF ReaderData
  <1>4. ASSUME NEW r \in Readers, ReadWord(r) PROVE ReaderData'
    <2>1. pc[r] = "copy" /\ UNCHANGED <<pc, count, base, ringBuf>>
      BY <1>4 DEF ReadWord, ringVars
    <2>2. \A q \in Readers : q # r => done'[q] = done[q] /\ userBuf'[q] = userBuf[q]
      BY <1>4, <1>r, <1>t DEF ReadWord
    <2>3. done'[r] <= RoundUp(count[r]) /\ userBuf'[r] = Window(ringBuf, base[r], done'[r] \div 4)
      BY <1>4, LoadNext
    <2> QED
      BY <2>1, <2>2, <2>3 DEF ReaderData
  <1>5. ASSUME NEW r \in Readers, ReadAdvance(r) PROVE ReaderData'
    <2>1. pc'[r] = "up" /\ UNCHANGED <<done, base, count, userBuf, ringBuf>>
      BY <1>5, <1>r, <1>t DEF ReadAdvance, Goto, callVars
    <2>2. \A q \in Readers : q # r => pc'[q] = pc[q]
      BY <1>5, <1>r, <1>t DEF ReadAdvance, Goto
    <2> QED
      BY <2>1, <2>2 DEF ReaderData
  <1>6. ASSUME NEW t \in Threads, Interrupted(t) \/ (t \in Readers /\ ReadUp(t)) PROVE ReaderData'
    <2>1. pc'[t] = "idle" /\ done'[t] = 0 /\ UNCHANGED ringBuf
      BY <1>6, <1>t DEF Interrupted, ReadUp, Return, Goto, ringVars
    <2>2. \A q \in Threads : q # t =>
            pc'[q] = pc[q] /\ done'[q] = done[q] /\ count'[q] = count[q] /\ base'[q] = base[q]
      BY <1>6, <1>t DEF Interrupted, ReadUp, Return, Goto
    <2>3. \A q \in Readers : q # t => userBuf'[q] = userBuf[q]
      BY <1>6, <1>t DEF Interrupted, ReadUp
    <2>4. t \in Readers => userBuf'[t] = << >>
      <3>1. CASE Interrupted(t)
        BY <3>1 DEF Interrupted, ReaderData
      <3>2. CASE t \in Readers /\ ReadUp(t)
        BY <1>t, <3>2 DEF ReadUp
      <3> QED
        BY <1>6, <3>1, <3>2
    <2> QED
      BY <1>r, <2>1, <2>2, <2>3, <2>4 DEF ReaderData
  <1>7. ASSUME NEW w \in Writers,
               \/ \E c \in WriteCounts : WriteCall(w, c)
               \/ WriteDown(w) \/ WriteMeasure(w) \/ WritePublish(w) \/ WriteUp(w)
        PROVE  ReaderData'
    <2>1. \A q \in Readers :
            pc'[q] = pc[q] /\ done'[q] = done[q] /\ count'[q] = count[q] /\ base'[q] = base[q]
      BY <1>t, <1>w, <1>r, <1>7
      DEF WriteCall, WriteDown, WriteMeasure, WritePublish, WriteUp, Return, Goto, callVars
    <2>2. UNCHANGED <<userBuf, ringBuf>>
      BY <1>7 DEF WriteCall, WriteDown, WriteMeasure, WritePublish, WriteUp, callVars, ringVars
    <2> QED
      BY <2>1, <2>2 DEF ReaderData
  <1>8. ASSUME NEW w \in Writers, WriteWord(w) PROVE ReaderData'
    <2>1. UNCHANGED <<pc, count, base, userBuf>> /\ \A q \in Readers : done'[q] = done[q]
      BY <1>8, <1>t, <1>r DEF WriteWord
    <2>2. ASSUME NEW q \in Readers, pc[q] = "copy"
          PROVE  Window(ringBuf', base[q], done[q] \div 4) = Window(ringBuf, base[q], done[q] \div 4)
      <3>1. /\ base[q] = ringOut /\ RoundUp(count[q]) <= Size /\ RoundUp(count[q]) \in Nat
            /\ done[q] \in Nat /\ done[q] % 4 = 0 /\ done[q] <= RoundUp(count[q]) /\ Size \in Nat
        BY <2>2, CopyFacts
      <3>2. PICK k \in Nat : k = done[q] \div 4 /\ 4 * k <= Size
        BY <3>1
      <3> QED
        BY <1>8, <3>1, <3>2, StoreElsewhere
    <2> QED
      BY <2>1, <2>2 DEF ReaderData
  <1>9. ASSUME ResetIn \/ ResetOut \/ ResetReadSem \/ ResetWriteSem \/ UNCHANGED vars PROVE ReaderData'
    <2>1. UNCHANGED <<pc, callVars, ringBuf>>
      BY <1>9 DEF ResetIn, ResetOut, ResetReadSem, ResetWriteSem, vars, ringVars
    <2> QED
      BY <2>1 DEF ReaderData, callVars
  <1> QED
    BY <1>1, <1>2, <1>3, <1>4, <1>5, <1>6, <1>7, <1>8, <1>9, <1>r DEF Next

\* The invariant of the refinement.
LEMMA DataInvariance ==
  ASSUME Disciplined
  PROVE  Spec => []DataInv
  <1>1. Init => DataInv
    BY InitData
  <1>2. DataInv /\ [Next]_vars => DataInv'
    BY NextIInv, NextPackets, NextWriterData, NextReaderData DEF DataInv, IInv
  <1> QED
    BY <1>1, <1>2, PTL DEF Spec

-----------------------------------------------------------------------------
(* The refinement. *)

\* The abstract queue, before and after a step.
LEMMA ContentsIsWindow ==
  /\ Contents = IF reset = "idle" THEN Window(ringBuf, ringOut, Size \div 4) ELSE << >>
  /\ Contents' = IF reset' = "idle" THEN Window(ringBuf', ringOut', Size' \div 4) ELSE << >>
  BY DEF Contents, Window

\* Publishing adds the words of the packet at the end of the queue.
LEMMA PublishRefines ==
  ASSUME DataInv, NEW w \in Writers, WritePublish(w)
  PROVE  Fifo!FifoNext
  <1>1. /\ pc[w] = "copy" /\ done[w] >= count[w] /\ ringIn' = Advance(ringIn, base[w], count[w])
        /\ published' = published \cup {packet[w]}
        /\ UNCHANGED <<ringOut, ringBuf, reset, delivered>>
    BY DEF WritePublish, ctlVars
  <1>2. /\ RingSize \in Nat /\ ringBuf \in [Cells -> Word] /\ ringIn \in Cells /\ ringOut \in Cells
        /\ Size \in Nat /\ Size % 4 = 0 /\ Size = Gap(ringIn, ringOut)
        /\ base[w] = ringIn /\ packet[w] \in Nat
        /\ count[w] \in Nat /\ count[w] % 4 = 0 /\ Size + count[w] < RingSize
        /\ done[w] \in Nat /\ done[w] <= count[w] /\ reset = "idle" /\ RingSize % 4 = 0
    BY <1>1, CopyFacts, RingAssumption DEF DataInv, Threads
  <1>3. PICK m \in Nat, n \in Nat, c \in Nat :
          /\ Size = 4 * m /\ count[w] = 4 * n /\ RingSize = 4 * c
          /\ m = Size \div 4 /\ n = count[w] \div 4 /\ c = RingSize \div 4
    BY <1>2
  <1>4. ringIn' = Wrap(ringIn, 4 * n)
    <2>1. RoundUp(count[w]) = 4 * n /\ RoundUp(count[w]) <= RingSize
      BY <1>2, <1>3, RoundUpAligned
    <2> QED
      BY <1>1, <1>2, <2>1, AdvanceWraps
  <1>5. Size' = 4 * (m + n)
    <2>1. Size' = Gap(ringIn', ringOut)
      BY <1>1 DEF Size, Distance, Gap
    <2>2. 4 * n \in Nat /\ Gap(ringIn, ringOut) + 4 * n < RingSize
      BY <1>2, <1>3
    <2>3. Gap(Wrap(ringIn, 4 * n), ringOut) = Gap(ringIn, ringOut) + 4 * n
      BY <1>2, <2>2, GapGrows
    <2> QED
      BY <1>2, <1>3, <1>4, <2>1, <2>3
  <1>6. Wrap(ringOut, 4 * m) = ringIn
    BY <1>2, <1>3, RingAssumption DEF Wrap, Gap, Cells
  <1>7. Window(ringBuf, ringIn, n) = Fifo!Words(packet[w], n)
    <2>1. done[w] = count[w]
      BY <1>1, <1>2
    <2> QED
      BY <1>1, <1>2, <1>3, <2>1 DEF DataInv, WriterData
  <1>8. Contents = Window(ringBuf, ringOut, m) /\ Contents' = Window(ringBuf, ringOut, m + n)
    <2>1. Size' \div 4 = m + n
      BY <1>5
    <2> QED
      BY <1>1, <1>2, <1>3, <2>1, ContentsIsWindow
  <1>9. Contents' = Contents \o Fifo!Words(packet[w], n)
    <2>1. 4 * (m + n) < RingSize
      BY <1>2, <1>3
    <2>2. ringBuf \in [Cells -> Word] /\ ringOut \in Cells
      BY <1>2
    <2>3. Window(ringBuf, ringOut, m + n)
            = Window(ringBuf, ringOut, m) \o Window(ringBuf, Wrap(ringOut, 4 * m), n)
      BY <2>1, <2>2, WindowConcat
    <2> QED
      BY <1>6, <1>7, <1>8, <2>3
  <1>10. packet[w] \notin published /\ packet[w] \in 1..MaxWrites
    <2>1. packet[w] \in 1..issued \ published /\ issued <= MaxWrites /\ issued \in Nat
      BY <1>1 DEF DataInv, IInv, TypeOK, PacketInv, Underway
    <2> QED
      BY <2>1, RingAssumption
  <1>11. Len(Contents) = m /\ m + n < c /\ n \in 0..c
    <2>1. 4 * m <= RingSize /\ m + n < c /\ n \in 0..c
      BY <1>2, <1>3
    <2> QED
      BY <1>2, <1>8, <2>1, WindowIsSeq
  <1>12. Fifo!Write(packet[w], n)
    BY <1>1, <1>3, <1>9, <1>10, <1>11 DEF Fifo!Write
  <1> QED
    BY <1>3, <1>10, <1>11, <1>12 DEF Fifo!FifoNext

\* A read takes the words it copied from the head of the queue.
LEMMA AdvanceRefines ==
  ASSUME DataInv, NEW r \in Readers, ReadAdvance(r)
  PROVE  Fifo!FifoNext
  <1>1. /\ pc[r] = "copy" /\ done[r] >= count[r] /\ ringOut' = Advance(ringOut, base[r], count[r])
        /\ delivered' = delivered \o userBuf[r]
        /\ UNCHANGED <<ringIn, ringBuf, reset, published>>
    BY DEF ReadAdvance, ctlVars
  <1>2. /\ RingSize \in Nat /\ ringBuf \in [Cells -> Word] /\ ringIn \in Cells /\ ringOut \in Cells
        /\ Size \in Nat /\ Size % 4 = 0 /\ Size = Gap(ringIn, ringOut) /\ Size <= RingSize - 4
        /\ base[r] = ringOut /\ count[r] \in Nat
        /\ RoundUp(count[r]) \in Nat /\ RoundUp(count[r]) % 4 = 0
        /\ count[r] <= RoundUp(count[r]) /\ RoundUp(count[r]) < count[r] + 4
        /\ RoundUp(count[r]) <= Size
        /\ done[r] \in Nat /\ done[r] % 4 = 0 /\ done[r] <= RoundUp(count[r])
        /\ reset = "idle"
    BY <1>1, CopyFacts DEF DataInv, Threads
  <1>3. PICK m \in Nat, n \in Nat :
          /\ RoundUp(count[r]) = 4 * m /\ Size = 4 * (m + n)
          /\ m = done[r] \div 4 /\ Size \div 4 = m + n
    <2>1. done[r] = RoundUp(count[r])
      <3>1. PICK d \in Nat, c \in Nat, x \in Nat : d = done[r] /\ c = count[r] /\ x = RoundUp(c)
        BY <1>2
      <3>2. d % 4 = 0 /\ x % 4 = 0 /\ d >= c /\ d <= x /\ x < c + 4
        BY <1>1, <1>2, <3>1
      <3>3. d = x
        BY <3>2
      <3> QED
        BY <3>1, <3>3
    <2>2. PICK m \in Nat : RoundUp(count[r]) = 4 * m /\ m = done[r] \div 4
      BY <1>2, <2>1
    <2>0. PICK x \in Nat : x = Size /\ x % 4 = 0
      BY <1>2
    <2>3. PICK k \in Nat : Size = 4 * k /\ k = Size \div 4
      <3>1. x = 4 * (x \div 4) /\ x \div 4 \in Nat
        BY <2>0
      <3> QED
        BY <2>0, <3>1
    <2>4. k - m \in Nat /\ m + (k - m) = k
      BY <1>2, <2>2, <2>3
    <2> QED
      BY <2>2, <2>3, <2>4
  <1>4. ringOut' = Wrap(ringOut, 4 * m)
    <2>1. RoundUp(count[r]) <= RingSize
      BY <1>2
    <2> QED
      BY <1>1, <1>2, <1>3, <2>1, AdvanceWraps
  <1>5. Size' \div 4 = n
    <2>1. Size' = Gap(ringIn, ringOut')
      BY <1>1 DEF Size, Distance, Gap
    <2>2. 4 * m \in Nat /\ 4 * m <= Gap(ringIn, ringOut)
      BY <1>2, <1>3
    <2>3. Gap(ringIn, Wrap(ringOut, 4 * m)) = Gap(ringIn, ringOut) - 4 * m
      BY <1>2, <2>2, GapShrinks
    <2>4. Size' = 4 * n
      BY <1>2, <1>3, <1>4, <2>1, <2>3
    <2> QED
      BY <2>4
  <1>6. 4 * (m + n) < RingSize /\ 4 * (m + n) <= RingSize
    BY <1>2, <1>3
  <1>7. /\ Contents = Window(ringBuf, ringOut, m + n)
        /\ Contents' = Window(ringBuf, Wrap(ringOut, 4 * m), n)
    BY <1>1, <1>2, <1>3, <1>4, <1>5, ContentsIsWindow
  <1>8. Len(Contents) = m + n
    BY <1>2, <1>6, <1>7, WindowIsSeq, SMTT(30)
  <1>9. userBuf[r] = Window(ringBuf, ringOut, m)
    BY <1>1, <1>2, <1>3 DEF DataInv, ReaderData
  <1>10. Contents' = SubSeq(Contents, m + 1, Len(Contents)) /\ userBuf[r] = SubSeq(Contents, 1, m)
    <2>1. ringBuf \in [Cells -> Word] /\ ringOut \in Cells
      BY <1>2
    <2>2. /\ SubSeq(Window(ringBuf, ringOut, m + n), 1, m) = Window(ringBuf, ringOut, m)
          /\ SubSeq(Window(ringBuf, ringOut, m + n), m + 1, m + n)
               = Window(ringBuf, Wrap(ringOut, 4 * m), n)
      BY <1>6, <2>1, WindowSplit
    <2> QED
      BY <1>7, <1>8, <1>9, <2>2
  <1>11. m \in 0..Len(Contents)
    BY <1>8
  <1>12. Fifo!Read(m)
    BY <1>1, <1>10 DEF Fifo!Read
  <1> QED
    BY <1>11, <1>12 DEF Fifo!FifoNext

\* Every other step leaves the queue alone or empties it.
LEMMA OthersRefine ==
  ASSUME DataInv, [Next]_vars, \A w \in Writers : ~WritePublish(w),
         \A r \in Readers : ~ReadAdvance(r)
  PROVE  [Fifo!FifoNext]_Fifo!fifoVars
  <1>1. CASE ResetIn
    <2>1. Contents' = << >> /\ UNCHANGED <<delivered, published>>
      BY <1>1, ContentsIsWindow DEF ResetIn
    <2> QED
      BY <2>1 DEF Fifo!FifoNext, Fifo!Reset
  <1>2. CASE ResetOut \/ ResetReadSem \/ ResetWriteSem
    <2>1. UNCHANGED <<delivered, published>> /\ reset # "idle"
      BY <1>2 DEF ResetOut, ResetReadSem, ResetWriteSem, histVars
    <2>2. ringIn' = 0 /\ ringOut' = 0
      BY <1>2, <2>1 DEF ResetOut, ResetReadSem, ResetWriteSem, ringVars, DataInv, IInv, ResetInv
    <2>3. Size' = 0 /\ 0 \div 4 = 0
      BY <2>2 DEF Size
    <2>4. Contents' = << >> /\ Contents = << >>
      BY <2>1, <2>3, ContentsIsWindow, NoWords
    <2> QED
      BY <2>1, <2>4 DEF Fifo!fifoVars
  <1>3. ASSUME NEW w \in Writers, WriteWord(w) PROVE UNCHANGED <<Contents, delivered, published>>
    <2>1. UNCHANGED <<ringIn, ringOut, reset, delivered, published>>
      BY <1>3 DEF WriteWord, ctlVars, histVars
    <2>2. Size \in Nat /\ Size % 4 = 0
      BY CopyFacts DEF DataInv
    <2>3. PICK n \in Nat : n = Size \div 4 /\ 4 * n <= Size
      BY <2>2
    <2>4. Window(ringBuf', ringOut, n) = Window(ringBuf, ringOut, n)
      BY <1>3, <2>3, StoreElsewhere DEF DataInv
    <2>5. Size' = Size
      BY <2>1 DEF Size, Distance
    <2>6. Contents' = Contents
      BY <2>1, <2>3, <2>4, <2>5, ContentsIsWindow
    <2> QED
      BY <2>1, <2>6
  <1>4. ASSUME UNCHANGED <<ringVars, reset, delivered, published>>
        PROVE  UNCHANGED <<Contents, delivered, published>>
    <2>1. Contents' = Contents
      BY <1>4 DEF Contents, Size, Distance, Wrap, ringVars
    <2> QED
      BY <1>4, <2>1
  <1>5. ASSUME NEW t \in Threads, Interrupted(t) PROVE UNCHANGED <<Contents, delivered, published>>
    BY <1>4, <1>5 DEF Interrupted, ctlVars, histVars
  <1>6. ASSUME NEW w \in Writers,
               \/ \E c \in WriteCounts : WriteCall(w, c)
               \/ WriteDown(w) \/ WriteMeasure(w) \/ WriteUp(w)
        PROVE  UNCHANGED <<Contents, delivered, published>>
    BY <1>4, <1>6 DEF WriteCall, WriteDown, WriteMeasure, WriteUp, ctlVars, histVars
  <1>7. ASSUME NEW r \in Readers,
               \/ \E c \in ReadCounts : ReadCall(r, c)
               \/ ReadDown(r) \/ ReadCheck(r) \/ ReadMeasure(r) \/ ReadWord(r) \/ ReadUp(r)
        PROVE  UNCHANGED <<Contents, delivered, published>>
    BY <1>4, <1>7
    DEF ReadCall, ReadDown, ReadCheck, ReadMeasure, ReadWord, ReadUp, ctlVars, histVars
  <1>8. CASE UNCHANGED vars
    BY <1>4, <1>8 DEF vars, ctlVars, histVars, Fifo!fifoVars
  <1> QED
    BY <1>1, <1>2, <1>3, <1>5, <1>6, <1>7, <1>8 DEF Next, Fifo!fifoVars

\* The ring, with its pointers, semaphores and word-wise copies, implements the
\* bounded queue of whole packets: what readers receive are the words of the
\* packets, once each and in order, although copies, publishing and resets
\* interleave.
THEOREM RingImplementsFifo ==
  ASSUME Disciplined
  PROVE  Spec => ImplementsFifo
  <1>1. Init => Fifo!FifoInit
    <2> SUFFICES ASSUME Init PROVE Fifo!FifoInit
      OBVIOUS
    <2>1. Size = 0 /\ 0 \div 4 = 0 /\ reset = "idle" /\ delivered = << >> /\ published = {}
      BY DEF Init, Size
    <2>2. Contents = << >>
      BY <2>1, ContentsIsWindow, NoWords
    <2> QED
      BY <2>1, <2>2 DEF Fifo!FifoInit
  <1>2. DataInv /\ [Next]_vars => [Fifo!FifoNext]_Fifo!fifoVars
    <2> SUFFICES ASSUME DataInv, [Next]_vars PROVE [Fifo!FifoNext]_Fifo!fifoVars
      OBVIOUS
    <2>1. CASE \E w \in Writers : WritePublish(w)
      BY <2>1, PublishRefines
    <2>2. CASE \E r \in Readers : ReadAdvance(r)
      BY <2>2, AdvanceRefines
    <2>3. CASE (\A w \in Writers : ~WritePublish(w)) /\ (\A r \in Readers : ~ReadAdvance(r))
      BY <2>3, OthersRefine
    <2> QED
      BY <2>1, <2>2, <2>3
  <1> QED
    BY <1>1, <1>2, DataInvariance, PTL DEF Spec, ImplementsFifo, Fifo!FifoSpec
=============================================================================
