------------------------ MODULE StreamEngine_proofs ------------------------
(***************************************************************************)
(* Proofs about StreamEngine for a ring and a queue of every size and any  *)
(* lengths of entries and writes that the ring can hold.  The two ways in  *)
(* which the code loses commands (raced and overrun) are excluded by the   *)
(* properties themselves; the type invariant holds in spite of them.       *)
(***************************************************************************)
EXTENDS StreamEngine, Circular, TLAPS

-----------------------------------------------------------------------------
(* The inductive invariant. *)

Idx == 0..Size - 1

\* p says where each entry of the queue q begins when all of them, with their
\* headers, take g words.
Layout(q, p, g) ==
  /\ p[1] = 0 /\ p[Len(q) + 1] = g
  /\ \A i \in 1..Len(q) : p[i + 1] = p[i] + 1 + q[i]
  /\ \A i, j \in 1..Len(q) + 1 : i < j => p[i] < p[j]

Takes(q, g) == \E p \in [1..Len(q) + 1 -> Nat] : Layout(q, p, g)

\* The entries lie one after the other from u32RdPtr to u32WrPtr.
QueueInv ==
  /\ queue \in Seq(Payloads \cup {0})
  /\ Takes(queue, Ahead(QSize, qrd, qwr))

\* What TypeOK leaves out, and when the handler is inside a WriteCmd.
HandlerInv ==
  /\ numbered \in Nat /\ executed \in Nat
  /\ publish \in [Callers -> BOOLEAN]
  /\ part2 \in -1..Size - 1
  /\ pc["irq"] # "idle" \/ part2 # None => handler = "write"
  /\ pc["irq"] # "idle" => (publish["irq"] <=> part2 = None)

\* The place behind the last word copied, by the program counters, pointers and
\* write pointer p, t and w.
Front(p, t, w) == IF p["write"] = "copy" THEN t["write"]
                  ELSE IF p["irq"] = "copy" THEN t["irq"] ELSE w

Copied == Span(hwRd, Front(pc, ptr, wrptr))

Rest(x) == IF x = None THEN 0 ELSE x

\* Commands still to be copied by the WriteCmd in progress and the one after it.
Missing(p, l, x) == (IF p["write"] # "idle" THEN l["write"] ELSE 0)
                  + (IF p["irq"] # "idle" THEN l["irq"] ELSE 0) + Rest(x)

\* The ring b holds, from r to f, the commands that follow the first x.
Holds(b, r, f, x) == \A i \in 0..Span(r, f) - 1 : b[(r + i) % Size] = x + 1 + i

\* A WriteCmd in progress works behind what was copied before it.
CallInv(a) ==
  pc[a] # "idle" =>
    /\ next[a] = executed + Copied + 1
    /\ pc[a] = "room" => base[a] = hwWr
    /\ pc[a] = "copy" => Copied + len[a] < Size

\* The ring when no WriteCmd broke into another and none ran out of room.
RingInv ==
  /\ pc["write"] = "idle" \/ handler # "write"
  /\ pc["write"] # "idle" => publish["write"]
  /\ Span(hwRd, hwWr) <= Span(hwRd, wrptr) /\ Span(hwRd, wrptr) <= Copied
  /\ Holds(cmdBuf, hwRd, Front(pc, ptr, wrptr), executed)
  /\ executed + Copied + Missing(pc, len, part2) = numbered
  /\ part2 # None => next["irq"] = executed + Copied + 1
  /\ wrptr # hwWr => handler = "write" /\ (pc["irq"] = "idle" <=> part2 # None)
  /\ CallInv("write") /\ CallInv("irq")
  /\ numbered \in ends /\ executed + Span(hwRd, hwWr) \in ends

IInv == TypeOK /\ QueueInv /\ HandlerInv /\ (~raced /\ ~overrun => RingInv)

-----------------------------------------------------------------------------
(* The queue. *)

\* What an entry may be.
LEMMA PayloadNat == \A e \in Payloads \cup {0} : e \in Nat /\ e <= Size - 1
  <1>1. \A e \in Payloads : e \in 1..Size - 1
    BY SEAssumption
  <1>2. Size \in Nat \ {0}
    BY SEAssumption
  <1> QED
    BY <1>1, <1>2

\* Only an empty queue takes no words.
LEMMA TakesNone ==
  ASSUME NEW q \in Seq(Nat), NEW g \in Nat, Takes(q, g)
  PROVE  q = << >> <=> g = 0
  <1>1. PICK p \in [1..Len(q) + 1 -> Nat] : Layout(q, p, g)
    BY DEF Takes
  <1>2. Len(q) \in Nat /\ (q = << >> <=> Len(q) = 0)
    OBVIOUS
  <1> QED
    BY <1>1, <1>2 DEF Layout

\* Without its first entry the queue takes so many words less.
LEMMA TakesTail ==
  ASSUME NEW q \in Seq(Nat), q # << >>, NEW g \in Nat, Takes(q, g)
  PROVE  /\ Head(q) \in Nat /\ Head(q) + 1 <= g
         /\ Takes(Tail(q), g - (Head(q) + 1))
  <1>1. PICK p \in [1..Len(q) + 1 -> Nat] : Layout(q, p, g)
    BY DEF Takes
  <1>2. PICK n \in Nat : n = Len(q) - 1
    OBVIOUS
  <1>3. /\ Len(q) = n + 1 /\ Head(q) = q[1] /\ q[1] \in Nat
        /\ Len(Tail(q)) = n /\ \A i \in 1..n : Tail(q)[i] = q[i + 1] /\ q[i + 1] \in Nat
    BY <1>2
  <1>4. PICK d \in Nat : d = q[1] + 1
    BY <1>3
  <1>5. /\ \A i \in 1..n + 2 : p[i] \in Nat
        /\ p[1] = 0 /\ p[2] = d /\ p[n + 2] = g
        /\ \A i \in 1..n + 1 : p[i + 1] = p[i] + 1 + q[i]
        /\ \A i, j \in 1..n + 2 : i < j => p[i] < p[j]
    BY <1>1, <1>2, <1>3, <1>4 DEF Layout
  <1>6. \A i \in 1..n + 1 : p[i + 1] \in Nat /\ d <= p[i + 1]
    <2> TAKE i \in 1..n + 1
    <2>1. i + 1 \in 1..n + 2 /\ 2 \in 1..n + 2
      BY <1>2
    <2>2. p[i + 1] \in Nat /\ p[2] = d
      BY <1>5, <2>1
    <2>3. CASE i = 1
      BY <2>2, <2>3
    <2>4. CASE 2 < i + 1
      <3>1. p[2] < p[i + 1]
        BY <1>5, <2>1, <2>4
      <3> QED
        BY <2>2, <3>1
    <2> QED
      BY <2>3, <2>4
  <1> DEFINE r == [i \in 1..n + 1 |-> p[i + 1] - d]
  <1>7. r \in [1..n + 1 -> Nat] /\ \A i \in 1..n + 1 : r[i] = p[i + 1] - d
    BY <1>6
  <1> HIDE DEF r
  <1>8. Layout(Tail(q), r, g - d)
    <2>1. r[1] = 0 /\ r[n + 1] = g - d
      <3>1. 1 \in 1..n + 1 /\ n + 1 \in 1..n + 1 /\ 1 + 1 = 2 /\ (n + 1) + 1 = n + 2
        OBVIOUS
      <3>2. r[1] = p[2] - d /\ r[n + 1] = p[n + 2] - d
        BY <1>7, <3>1
      <3> QED
        BY <1>5, <3>2
    <2>2. ASSUME NEW i \in 1..n PROVE r[i + 1] = r[i] + 1 + Tail(q)[i]
      <3>1. i \in 1..n + 1 /\ i + 1 \in 1..n + 1 /\ i + 1 \in 1..n + 2
        BY <1>2
      <3>2. r[i] = p[i + 1] - d /\ r[i + 1] = p[(i + 1) + 1] - d
        BY <1>7, <3>1
      <3>3. p[(i + 1) + 1] = p[i + 1] + 1 + q[i + 1] /\ p[i + 1] \in Nat /\ q[i + 1] \in Nat
        BY <1>3, <1>5, <3>1
      <3>4. PICK x \in Nat, y \in Nat : x = p[i + 1] /\ y = q[i + 1]
        BY <3>3
      <3>5. r[i] = x - d /\ r[i + 1] = (x + 1 + y) - d /\ Tail(q)[i] = y
        BY <1>3, <3>2, <3>3, <3>4
      <3>6. (x + 1 + y) - d = (x - d) + 1 + y
        OBVIOUS
      <3> QED
        BY <3>5, <3>6
    <2>3. ASSUME NEW i \in 1..n + 1, NEW j \in 1..n + 1, i < j PROVE r[i] < r[j]
      <3>1. i + 1 \in 1..n + 2 /\ j + 1 \in 1..n + 2 /\ i + 1 < j + 1
        BY <1>2, <2>3
      <3>2. p[i + 1] < p[j + 1] /\ p[i + 1] \in Nat /\ p[j + 1] \in Nat
        BY <1>5, <3>1
      <3>3. r[i] = p[i + 1] - d /\ r[j] = p[j + 1] - d
        BY <1>7
      <3> QED
        BY SMTT(30), <3>2, <3>3
    <2> QED
      BY <1>3, <2>1, <2>2, <2>3 DEF Layout
  <1>9. Takes(Tail(q), g - d)
    BY <1>3, <1>7, <1>8 DEF Takes
  <1>10. d <= g
    BY <1>5, <1>6
  <1> QED
    BY <1>3, <1>4, <1>9, <1>10

\* One more entry takes its words and its header.
LEMMA TakesAppend ==
  ASSUME NEW q \in Seq(Nat), NEW e \in Nat, NEW g \in Nat, Takes(q, g)
  PROVE  Takes(Append(q, e), g + (e + 1))
  <1>1. PICK p \in [1..Len(q) + 1 -> Nat] : Layout(q, p, g)
    BY DEF Takes
  <1>2. PICK n \in Nat : n = Len(q)
    OBVIOUS
  <1>3. /\ Len(Append(q, e)) = n + 1 /\ Append(q, e)[n + 1] = e
        /\ \A i \in 1..n : Append(q, e)[i] = q[i] /\ q[i] \in Nat
    BY <1>2
  <1>5. /\ \A i \in 1..n + 1 : p[i] \in Nat
        /\ p[1] = 0 /\ p[n + 1] = g
        /\ \A i \in 1..n : p[i + 1] = p[i] + 1 + q[i]
        /\ \A i, j \in 1..n + 1 : i < j => p[i] < p[j]
    BY <1>1, <1>2 DEF Layout
  <1> DEFINE r == [i \in 1..n + 2 |-> IF i = n + 2 THEN g + (e + 1) ELSE p[i]]
  <1>7. /\ r \in [1..n + 2 -> Nat]
        /\ \A i \in 1..n + 1 : r[i] = p[i]
        /\ r[n + 2] = g + (e + 1)
    BY <1>5
  <1> HIDE DEF r
  <1>8. Layout(Append(q, e), r, g + (e + 1))
    <2>1. r[1] = 0 /\ r[(n + 1) + 1] = g + (e + 1)
      BY <1>5, <1>7
    <2>2. ASSUME NEW i \in 1..n + 1 PROVE r[i + 1] = r[i] + 1 + Append(q, e)[i]
      <3>1. CASE i \in 1..n
        <4>1. i \in 1..n + 1 /\ i + 1 \in 1..n + 1
          BY <3>1
        <4> QED
          BY <1>3, <1>5, <1>7, <3>1, <4>1
      <3>2. CASE i = n + 1
        <4>1. i + 1 = n + 2
          BY <3>2
        <4>2. r[i] = g
          BY <1>5, <1>7, <3>2
        <4>3. r[i + 1] = g + (e + 1) /\ Append(q, e)[i] = e
          BY <1>3, <1>7, <3>2, <4>1
        <4> QED
          BY <4>2, <4>3
      <3>3. i \in 1..n \/ i = n + 1
        OBVIOUS
      <3> QED
        BY <3>1, <3>2, <3>3
    <2>3. ASSUME NEW i \in 1..n + 2, NEW j \in 1..n + 2, i < j PROVE r[i] < r[j]
      <3>0. i \in 1..n + 1
        BY <2>3
      <3>1. CASE j \in 1..n + 1
        BY <1>5, <1>7, <2>3, <3>0, <3>1
      <3>2. CASE j = n + 2
        <4>0. p[i] \in Nat /\ n + 1 \in 1..n + 1 /\ p[n + 1] = g
          BY <1>5, <3>0
        <4>1. CASE i < n + 1
          <5>1. p[i] < p[n + 1]
            BY <1>5, <3>0, <4>0, <4>1
          <5> QED
            BY <1>7, <3>0, <3>2, <4>0, <5>1
        <4>2. CASE i = n + 1
          BY <1>7, <3>0, <3>2, <4>0, <4>2
        <4> QED
          BY <3>0, <4>1, <4>2
      <3> QED
        BY <3>1, <3>2
    <2> QED
      BY <1>3, <2>1, <2>2, <2>3 DEF Layout
  <1>9. (n + 1) + 1 = n + 2
    OBVIOUS
  <1> QED
    BY <1>3, <1>7, <1>8, <1>9 DEF Takes

\* The handler takes the first entry of a queue that is not empty.
LEMMA TakeHead ==
  ASSUME NEW q \in Seq(Payloads \cup {0}), NEW r \in 0..QSize - 1, NEW w \in 0..QSize - 1,
         r # w, Takes(q, Ahead(QSize, r, w))
  PROVE  /\ q # << >> /\ Head(q) \in Payloads \cup {0} /\ Head(q) + 1 < QSize
         /\ Tail(q) \in Seq(Payloads \cup {0})
         /\ Step(r, Head(q)) \in 0..QSize - 1
         /\ Takes(Tail(q), Ahead(QSize, Step(r, Head(q)), w))
         /\ Tail(q) = << >> <=> Step(r, Head(q)) = w
  <1>0. QSize \in Nat \ {0}
    BY SEAssumption
  <1>1. PICK g \in 0..QSize - 1 : g = Ahead(QSize, r, w)
    BY <1>0, AheadValue
  <1>2. q \in Seq(Nat) /\ g \in Nat
    BY PayloadNat, <1>0
  <1>3. g # 0
    BY <1>0, <1>1, AheadZero
  <1>4. q # << >>
    BY <1>1, <1>2, <1>3, TakesNone
  <1>5. PICK e \in Nat : e = Head(q)
    BY <1>2, <1>4
  <1>6. e + 1 <= g /\ Takes(Tail(q), g - (e + 1))
    BY <1>1, <1>2, <1>4, <1>5, TakesTail
  <1>7. PICK d \in Nat : d = e + 1
    OBVIOUS
  <1>8. Step(r, e) = (r + d) % QSize
    <2>1. r + 1 + e = r + d
      BY <1>0, <1>7
    <2> QED
      BY <2>1 DEF Step
  <1>9. Step(r, e) \in 0..QSize - 1
    <2>1. r + d \in Int
      BY <1>0
    <2> QED
      BY <1>0, <1>8, <2>1, ModRange
  <1>10. Ahead(QSize, Step(r, e), w) = g - d
    <2>1. d <= Ahead(QSize, r, w)
      BY <1>1, <1>6, <1>7
    <2> QED
      BY <1>0, <1>1, <1>8, <2>1, AheadShrinks
  <1>11. Tail(q) \in Seq(Payloads \cup {0}) /\ Tail(q) \in Seq(Nat) /\ Head(q) \in Payloads \cup {0}
    BY <1>2, <1>4
  <1>12. Tail(q) = << >> <=> g - d = 0
    <2>1. g - d \in Nat /\ g - d = g - (e + 1)
      BY <1>1, <1>6, <1>7, <1>0
    <2> QED
      BY <1>6, <1>11, <2>1, TakesNone
  <1>13. Tail(q) = << >> <=> Step(r, e) = w
    BY <1>0, <1>9, <1>10, <1>12, AheadZero
  <1>14. e + 1 < QSize
    BY <1>0, <1>6
  <1> QED
    BY <1>4, <1>5, <1>6, <1>7, <1>9, <1>10, <1>11, <1>13, <1>14

\* The client puts an entry behind the last one when there is room.
LEMMA PutEntry ==
  ASSUME NEW q \in Seq(Payloads \cup {0}), NEW r \in 0..QSize - 1, NEW w \in 0..QSize - 1,
         NEW e \in Payloads \cup {0},
         Takes(q, Ahead(QSize, r, w)), Ahead(QSize, r, w) + 1 + e < QSize
  PROVE  /\ Append(q, e) \in Seq(Payloads \cup {0}) /\ Append(q, e) # << >>
         /\ Step(w, e) \in 0..QSize - 1 /\ Step(w, e) # r
         /\ Takes(Append(q, e), Ahead(QSize, r, Step(w, e)))
  <1>0. QSize \in Nat \ {0} /\ e \in Nat
    BY SEAssumption, PayloadNat
  <1>1. PICK g \in 0..QSize - 1 : g = Ahead(QSize, r, w)
    BY <1>0, AheadValue
  <1>2. q \in Seq(Nat) /\ g \in Nat
    <2>1. q \in Seq(Nat)
      BY PayloadNat
    <2> QED
      BY <1>0, <2>1
  <1>3. PICK d \in Nat : d = e + 1
    BY <1>0
  <1>4. Step(w, e) = (w + d) % QSize
    <2>1. w + 1 + e = w + d
      BY <1>0, <1>3
    <2> QED
      BY <2>1 DEF Step
  <1>5. Step(w, e) \in 0..QSize - 1
    <2>1. w + d \in Int
      BY <1>0
    <2> QED
      BY <1>0, <1>4, <2>1, ModRange
  <1>6. g + d < QSize /\ g + d # 0
    BY <1>0, <1>1, <1>3
  <1>7. Ahead(QSize, r, Step(w, e)) = g + d
    BY <1>0, <1>1, <1>4, <1>6, AheadGrows
  <1>8. Takes(Append(q, e), g + d)
    BY <1>0, <1>1, <1>2, <1>3, TakesAppend
  <1>9. Step(w, e) # r
    BY <1>0, <1>5, <1>6, <1>7, AheadZero
  <1>10. Append(q, e) \in Seq(Payloads \cup {0}) /\ Append(q, e) # << >>
    OBVIOUS
  <1> QED
    BY <1>5, <1>7, <1>8, <1>9, <1>10

-----------------------------------------------------------------------------
(* The ring. *)

\* Span as a distance on the circle; a pointer is bumped by one place.
LEMMA SpanFacts ==
  ASSUME NEW r \in Idx, NEW w \in Idx
  PROVE  /\ Size \in Nat \ {0}
         /\ Span(r, w) = Ahead(Size, r, w) /\ Span(r, w) \in 0..Size - 1
         /\ Span(r, w) = IF w >= r THEN w - r ELSE w - r + Size
         /\ Bump(w) = (w + 1) % Size /\ Bump(w) \in Idx
  <1>1. Size \in Nat \ {0}
    BY SEAssumption
  <1>2. Span(r, w) = Ahead(Size, r, w)
    BY DEF Span, Ahead
  <1>3. Span(r, w) \in 0..Size - 1 /\ Span(r, w) = IF w >= r THEN w - r ELSE w - r + Size
    BY <1>1, <1>2, AheadValue DEF Idx
  <1>4. 1 \in 0..Size
    BY <1>1
  <1>5. (w + 1) % Size \in 0..Size - 1
        /\ (w + 1) % Size = IF w + 1 < Size THEN w + 1 ELSE w + 1 - Size
    BY <1>1, <1>4, MovedPlace DEF Idx
  <1>6. Bump(w) = (w + 1) % Size
    BY <1>1, <1>5 DEF Bump, Idx
  <1> QED
    BY <1>1, <1>2, <1>3, <1>5, <1>6 DEF Idx

\* What the test for room says: so many words more stay short of a turn.
LEMMA FitsMeansRoom ==
  ASSUME TypeOK, NEW b \in Idx, NEW n \in Nat, Fits(b, n)
  PROVE  Span(hwRd, b) + n < Size
  <1>1. hwRd \in Idx
    BY DEF TypeOK, Idx
  <1>2. Size \in Nat \ {0} /\ Span(hwRd, b) = IF b >= hwRd THEN b - hwRd ELSE b - hwRd + Size
    BY <1>1, SpanFacts
  <1> QED
    BY <1>1, <1>2 DEF Fits, Idx

\* A command is copied behind the others, with room for it.
LEMMA CopyHolds ==
  ASSUME NEW b \in [Idx -> Nat], NEW r \in Idx, NEW f \in Idx, NEW x \in Nat,
         Span(r, f) + 1 < Size, Holds(b, r, f, x)
  PROVE  /\ Span(r, Bump(f)) = Span(r, f) + 1
         /\ Holds([b EXCEPT ![f] = x + Span(r, f) + 1], r, Bump(f), x)
  <1>0. Size \in Nat \ {0} /\ r \in 0..Size - 1 /\ f \in 0..Size - 1
    BY SpanFacts DEF Idx
  <1>1. PICK g \in 0..Size - 1 : g = Span(r, f) /\ g = Ahead(Size, r, f)
    BY SpanFacts
  <1>2. Span(r, Bump(f)) = g + 1
    <2>1. Bump(f) \in Idx /\ Bump(f) = (f + 1) % Size
      BY SpanFacts
    <2>2. Ahead(Size, r, (f + 1) % Size) = g + 1
      BY <1>0, <1>1, AheadGrows
    <2> QED
      BY <2>1, <2>2, SpanFacts
  <1>3. (r + g) % Size = f
    BY <1>0, <1>1, AheadPlace
  <1> DEFINE c == [b EXCEPT ![f] = x + g + 1]
  <1>4. ASSUME NEW i \in 0..g PROVE c[(r + i) % Size] = x + 1 + i
    <2>1. i \in 0..Size - 1 /\ r + i \in Int
      BY <1>0
    <2>2. PICK j \in 0..Size - 1 : j = (r + i) % Size
      BY <1>0, <2>1, ModRange
    <2>3. CASE i = g
      <3>1. c[f] = x + g + 1
        BY DEF Idx
      <3>2. x + g + 1 = x + 1 + g
        BY <1>0
      <3> QED
        BY <1>3, <2>3, <3>1, <3>2
    <2>4. CASE i # g
      <3>1. j # f
        BY <1>0, <1>3, <2>1, <2>2, <2>4, PlacesDiffer
      <3>2. c[j] = b[j]
        BY <3>1 DEF Idx
      <3>3. i \in 0..g - 1
        BY <1>0, <2>4
      <3>4. b[(r + i) % Size] = x + 1 + i
        BY <1>1, <3>3 DEF Holds
      <3> QED
        BY <2>2, <3>2, <3>4
    <2> QED
      BY <2>3, <2>4
  <1>5. (g + 1) - 1 = g
    BY <1>0
  <1> QED
    BY <1>1, <1>2, <1>4, <1>5 DEF Holds

\* The first command is executed.
LEMMA ExecuteHolds ==
  ASSUME NEW b, NEW r \in Idx, NEW f \in Idx, NEW x \in Nat,
         Span(r, f) > 0, Holds(b, r, f, x)
  PROVE  Holds(b, (r + 1) % Size, f, x + 1)
  <1>0. Size \in Nat \ {0} /\ r \in 0..Size - 1 /\ f \in 0..Size - 1
    BY SpanFacts DEF Idx
  <1>1. PICK g \in 0..Size - 1 : g = Span(r, f) /\ g = Ahead(Size, r, f)
    BY SpanFacts
  <1>2. Span((r + 1) % Size, f) = g - 1
    <2>1. (r + 1) % Size \in Idx
      BY <1>0, ModRange DEF Idx
    <2>2. Ahead(Size, (r + 1) % Size, f) = g - 1
      BY <1>0, <1>1, AheadShrinks
    <2> QED
      BY <2>1, <2>2, SpanFacts
  <1>3. ASSUME NEW i \in 0..g - 1 - 1 PROVE b[(((r + 1) % Size) + i) % Size] = (x + 1) + 1 + i
    <2>1. i \in Nat /\ i + 1 < Size /\ i + 1 \in 0..g - 1
      BY <1>0
    <2>2. (((r + 1) % Size) + i) % Size = (r + (i + 1)) % Size
      BY <1>0, <2>1, PlaceShift
    <2>3. b[(r + (i + 1)) % Size] = x + 1 + (i + 1)
      BY <1>1, <2>1 DEF Holds
    <2>4. x + 1 + (i + 1) = (x + 1) + 1 + i
      BY <2>1
    <2> QED
      BY <2>2, <2>3, <2>4
  <1> QED
    BY <1>2, <1>3 DEF Holds

\* With at most one WriteCmd in progress, where its copy ends and what is missing.
LEMMA OneCall ==
  ASSUME NEW a \in Callers, NEW p, NEW t, NEW w, NEW l \in [Callers -> Nat],
         NEW x \in -1..Size - 1, \A b \in Callers : b # a => p[b] = "idle"
  PROVE  /\ Front(p, t, w) = IF p[a] = "copy" THEN t[a] ELSE w
         /\ Rest(x) \in Nat
         /\ Missing(p, l, x) = (IF p[a] # "idle" THEN l[a] ELSE 0) + Rest(x)
  <1>0. "idle" # "copy" /\ "write" # "irq" /\ "write" \in Callers /\ "irq" \in Callers
    BY DEF Callers
  <1>1. Rest(x) \in Nat /\ l["write"] \in Nat /\ l["irq"] \in Nat
    BY SEAssumption DEF Rest, None, Callers
  <1>2. CASE a = "write"
    <2>1. p["irq"] = "idle"
      BY <1>0, <1>2
    <2>2. Front(p, t, w) = IF p[a] = "copy" THEN t[a] ELSE w
      BY <1>0, <1>2, <2>1 DEF Front
    <2>3. Missing(p, l, x) = (IF p[a] # "idle" THEN l[a] ELSE 0) + 0 + Rest(x)
      BY <1>2, <2>1 DEF Missing
    <2> QED
      BY <1>1, <1>2, <2>2, <2>3
  <1>3. CASE a = "irq"
    <2>1. p["write"] = "idle"
      BY <1>0, <1>3
    <2>2. Front(p, t, w) = IF p[a] = "copy" THEN t[a] ELSE w
      BY <1>0, <1>3, <2>1 DEF Front
    <2>3. Missing(p, l, x) = 0 + (IF p[a] # "idle" THEN l[a] ELSE 0) + Rest(x)
      BY <1>3, <2>1 DEF Missing
    <2> QED
      BY <1>1, <1>3, <2>2, <2>3
  <1> QED
    BY <1>2, <1>3 DEF Callers

-----------------------------------------------------------------------------
(* The invariant without the contents of the ring. *)

FlowInv == TypeOK /\ QueueInv /\ HandlerInv

\* Calling WriteCmd keeps the types of its variables, and the engine's pointers.
LEMMA CallTypes ==
  ASSUME FlowInv, NEW a \in Callers, NEW n \in 0..Size - 1, NEW k \in Nat, NEW g \in BOOLEAN,
         Call(a, n, k, g)
  PROVE  /\ pc' \in [Callers -> {"idle", "room", "copy"}]
         /\ base' \in [Callers -> Idx] /\ ptr' \in [Callers -> Idx]
         /\ next' \in [Callers -> Nat] /\ len' \in [Callers -> 0..Size - 1]
         /\ publish' \in [Callers -> BOOLEAN]
         /\ hwWr' \in Idx
  BY DEF FlowInv, TypeOK, HandlerInv, Call, Idx, cmdVars

\* Steps of the client, of se_write and of the engine.
LEMMA ThreadFlow ==
  ASSUME FlowInv,
         \/ \E e \in Payloads \cup {0} : Enqueue(e)
         \/ Kick \/ Vsync \/ Execute
         \/ \E n \in Counts : Write(n)
  PROVE  FlowInv'
  <1> USE DEF FlowInv
  <1>1. CASE \E e \in Payloads \cup {0} : Enqueue(e)
    <2>1. PICK e \in Payloads \cup {0} : Enqueue(e)
      BY <1>1
    <2>2. Ahead(QSize, qrd, qwr) + 1 + e < QSize
      BY <2>1 DEF Enqueue, Ahead
    <2>3. queue' \in Seq(Payloads \cup {0}) /\ queue' # << >>
          /\ qwr' \in 0..QSize - 1 /\ qwr' # qrd
          /\ Takes(queue', Ahead(QSize, qrd, qwr'))
      BY <2>1, <2>2, PutEntry DEF Enqueue, TypeOK, QueueInv
    <2> QED
      BY <2>1, <2>3
      DEF Enqueue, TypeOK, QueueInv, HandlerInv, irqVars, cmdVars, ringVars, histVars
  <1>2. CASE Kick
    BY <1>2 DEF Kick, TypeOK, QueueInv, HandlerInv, irqVars, cmdVars, ringVars, histVars
  <1>3. CASE Vsync
    BY <1>3 DEF Vsync, TypeOK, QueueInv, HandlerInv, irqVars, cmdVars, ringVars, histVars
  <1>4. CASE Execute
    <2>1. hwRd' \in 0..Size - 1
      BY <1>4, SEAssumption, ModRange DEF Execute, TypeOK
    <2>2. executed' \in Nat
      BY <1>4 DEF Execute, HandlerInv
    <2>3. TypeOK' /\ QueueInv'
      BY <1>4, <2>1 DEF Execute, TypeOK, QueueInv, queueVars, irqVars, cmdVars
    <2>4. HandlerInv'
      BY <1>4, <2>2 DEF Execute, HandlerInv, irqVars, cmdVars
    <2> QED
      BY <2>3, <2>4
  <1>5. CASE \E n \in Counts : Write(n)
    <2>1. PICK n \in Counts : Write(n)
      BY <1>5
    <2>2. n \in 0..Size - 1 /\ numbered + 1 \in Nat /\ numbered + n \in Nat
      BY SEAssumption DEF HandlerInv
    <2>3. /\ pc' \in [Callers -> {"idle", "room", "copy"}]
          /\ base' \in [Callers -> Idx] /\ ptr' \in [Callers -> Idx]
          /\ next' \in [Callers -> Nat] /\ len' \in [Callers -> 0..Size - 1]
          /\ publish' \in [Callers -> BOOLEAN]
          /\ hwWr' \in Idx
      BY <2>1, <2>2, CallTypes DEF Write, Callers
    <2>4. pc'["irq"] = pc["irq"] /\ publish'["irq"] = publish["irq"]
      BY <2>1 DEF Write, Call, TypeOK, HandlerInv, Callers, cmdVars
    <2> QED
      BY <2>1, <2>2, <2>3, <2>4
      DEF Write, Call, TypeOK, QueueInv, HandlerInv, Idx, queueVars, irqVars
  <1> QED
    BY <1>1, <1>2, <1>3, <1>4, <1>5

\* Steps of a WriteCmd.
LEMMA WriteCmdFlow ==
  ASSUME FlowInv, NEW a \in Callers, WriteCmd(a)
  PROVE  FlowInv'
  <1> USE DEF FlowInv
  <1>1. CASE Room(a)
    <2>1. pc["irq"] # "idle" <=> pc'["irq"] # "idle"
      BY <1>1 DEF Room, TypeOK, Callers
    <2> QED
      BY <1>1, <2>1 DEF Room, TypeOK, QueueInv, HandlerInv, queueVars, irqVars, ringVars
  <1>2. CASE CopyWord(a)
    <2>1. ptr[a] \in Idx /\ next[a] \in Nat /\ len[a] \in 0..Size - 1
      BY DEF TypeOK, Idx
    <2>2. Bump(ptr[a]) \in 0..Size - 1
      BY <2>1, SpanFacts DEF Idx
    <2>3. len[a] - 1 \in 0..Size - 1
      BY <1>2, <2>1, SEAssumption DEF CopyWord
    <2>4. ptr' \in [Callers -> 0..Size - 1] /\ len' \in [Callers -> 0..Size - 1]
      BY <1>2, <2>2, <2>3 DEF CopyWord, TypeOK
    <2>5. next' \in [Callers -> Nat] /\ cmdBuf' \in [0..Size - 1 -> Nat]
      BY <1>2, <2>1, SMTT(30) DEF CopyWord, TypeOK
    <2> QED
      BY <1>2, <2>4, <2>5
      DEF CopyWord, TypeOK, QueueInv, HandlerInv, queueVars, irqVars, histVars
  <1>3. CASE Finish(a)
    <2>1. pc'["irq"] = pc["irq"] \/ pc'["irq"] = "idle"
      BY <1>3 DEF Finish, TypeOK, Callers
    <2> QED
      BY <1>3, <2>1
      DEF Finish, TypeOK, QueueInv, HandlerInv, queueVars, irqVars, histVars
  <1> QED
    BY <1>1, <1>2, <1>3 DEF WriteCmd

\* The entry at the head of the queue, when the handler takes it.
LEMMA EntryFacts ==
  ASSUME FlowInv, IrqEntry,
         NEW e, e = Head(queue), NEW r, r = (qrd + 1) % QSize,
         NEW n, n = IF r + e < QSize THEN e ELSE QSize - r
  PROVE  /\ e \in 1..Size - 1 /\ e < QSize /\ r \in 0..QSize - 1
         /\ n \in 1..e
         /\ part2' = (IF r + e < QSize THEN None ELSE e - n)
         /\ Call("irq", n, numbered + 1, r + e < QSize)
         /\ numbered' = numbered + e /\ ends' = ends \cup {numbered + e}
  <1> USE DEF FlowInv
  <1>1. QSize \in Nat \ {0} /\ Size \in Nat \ {0} /\ Payloads \subseteq 1..Size - 1
    BY SEAssumption
  <1>2. e \in Payloads \cup {0} /\ e + 1 < QSize
    BY TakeHead DEF IrqEntry, TypeOK, QueueInv
  <1>3. e \in 1..Size - 1 /\ e < QSize
    BY <1>1, <1>2 DEF IrqEntry
  <1>4. r \in 0..QSize - 1
    BY <1>1, ModRange DEF TypeOK
  <1>5. n \in 1..e
    BY <1>1, <1>2, <1>3, <1>4
  <1>6. r + e - QSize = e - n \/ r + e < QSize
    BY <1>1, <1>3, <1>4
  <1>7. /\ Call("irq", n, numbered + 1, r + e < QSize)
        /\ part2' = IF r + e < QSize THEN None ELSE r + e - QSize
        /\ numbered' = numbered + e /\ ends' = ends \cup {numbered + e}
    BY DEF IrqEntry, FirstPartAlone
  <1> QED
    BY <1>3, <1>4, <1>5, <1>6, <1>7

\* Steps of the interrupt handler.
LEMMA HandlerFlow ==
  ASSUME FlowInv,
         IrqEnter \/ IrqMarker \/ IrqEntry \/ IrqSecond \/ IrqWritten \/ IrqEmpty \/ IrqFinish
  PROVE  FlowInv'
  <1> USE DEF FlowInv
  <1>1. CASE IrqEnter
    BY <1>1 DEF IrqEnter, TypeOK, QueueInv, HandlerInv, cmdVars, ringVars, histVars
  <1>2. CASE IrqMarker
    <2>1. /\ queue' \in Seq(Payloads \cup {0}) /\ qrd' \in 0..QSize - 1
          /\ Takes(queue', Ahead(QSize, qrd', qwr))
          /\ queue' = << >> <=> qrd' = qwr
      BY <1>2, TakeHead DEF IrqMarker, TypeOK, QueueInv
    <2> QED
      BY <1>2, <2>1 DEF IrqMarker, TypeOK, QueueInv, HandlerInv, cmdVars, ringVars, histVars
  <1>3. CASE IrqEntry
    <2>1. /\ queue' \in Seq(Payloads \cup {0}) /\ qrd' \in 0..QSize - 1
          /\ Takes(queue', Ahead(QSize, qrd', qwr))
          /\ queue' = << >> <=> qrd' = qwr
      BY <1>3, TakeHead DEF IrqEntry, TypeOK, QueueInv
    <2>2. PICK e, r, n : e = Head(queue) /\ r = (qrd + 1) % QSize
                         /\ n = IF r + e < QSize THEN e ELSE QSize - r
      OBVIOUS
    <2>3. /\ e \in 1..Size - 1 /\ e < QSize /\ r \in 0..QSize - 1 /\ n \in 1..e
          /\ part2' = (IF r + e < QSize THEN None ELSE e - n)
          /\ Call("irq", n, numbered + 1, r + e < QSize)
          /\ numbered' = numbered + e
      BY <1>3, <2>2, EntryFacts
    <2>4. n \in 0..Size - 1 /\ n # 0 /\ numbered + 1 \in Nat /\ (r + e < QSize) \in BOOLEAN
          /\ part2' \in -1..QSize /\ part2' \in -1..Size - 1 /\ numbered + e \in Nat
          /\ (part2' = None <=> r + e < QSize)
      BY <2>3, SEAssumption DEF HandlerInv, None
    <2>5. /\ pc' \in [Callers -> {"idle", "room", "copy"}]
          /\ base' \in [Callers -> Idx] /\ ptr' \in [Callers -> Idx]
          /\ next' \in [Callers -> Nat] /\ len' \in [Callers -> 0..Size - 1]
          /\ publish' \in [Callers -> BOOLEAN]
          /\ hwWr' \in Idx
      BY <2>3, <2>4, CallTypes DEF Callers
    <2>6. publish'["irq"] <=> r + e < QSize
      BY <2>3, <2>4 DEF Call, HandlerInv, Callers
    <2>7. TypeOK'
      BY <1>3, <2>1, <2>3, <2>4, <2>5 DEF IrqEntry, Call, TypeOK, Idx
    <2>8. HandlerInv'
      BY <1>3, <2>3, <2>4, <2>5, <2>6 DEF IrqEntry, HandlerInv
    <2> QED
      BY <1>3, <2>1, <2>7, <2>8 DEF IrqEntry, QueueInv
  <1>4. CASE IrqSecond
    <2>1. part2 \in 0..Size - 1 /\ next["irq"] \in Nat
      BY <1>4 DEF IrqSecond, HandlerInv, TypeOK, None, Callers
    <2>2. /\ pc' \in [Callers -> {"idle", "room", "copy"}]
          /\ base' \in [Callers -> Idx] /\ ptr' \in [Callers -> Idx]
          /\ next' \in [Callers -> Nat] /\ len' \in [Callers -> 0..Size - 1]
          /\ publish' \in [Callers -> BOOLEAN]
          /\ hwWr' \in Idx
      BY <1>4, <2>1, CallTypes DEF IrqSecond, Callers
    <2>3. pc'["irq"] # "idle" => publish'["irq"]
      BY <1>4 DEF IrqSecond, Call, HandlerInv, Callers, cmdVars
    <2>4. part2' = None /\ part2' \in -1..QSize /\ part2' \in -1..Size - 1
      BY <1>4, SEAssumption DEF IrqSecond, None
    <2>5. TypeOK' /\ QueueInv'
      BY <1>4, <2>2, <2>4 DEF IrqSecond, Call, TypeOK, QueueInv, Idx, queueVars
    <2>6. HandlerInv'
      BY <1>4, <2>2, <2>3, <2>4 DEF IrqSecond, HandlerInv, histVars
    <2> QED
      BY <2>5, <2>6
  <1>5. CASE IrqWritten
    BY <1>5 DEF IrqWritten, TypeOK, QueueInv, HandlerInv, queueVars, cmdVars, ringVars, histVars
  <1>6. CASE IrqEmpty
    BY <1>6 DEF IrqEmpty, TypeOK, QueueInv, HandlerInv, queueVars, cmdVars, ringVars, histVars
  <1>7. CASE IrqFinish
    <2>1. go' \in BOOLEAN
      BY <1>7 DEF IrqFinish
    <2> QED
      BY <1>7, <2>1 DEF IrqFinish, TypeOK, QueueInv, HandlerInv, cmdVars, ringVars, histVars
  <1> QED
    BY <1>1, <1>2, <1>3, <1>4, <1>5, <1>6, <1>7

-----------------------------------------------------------------------------
(* The contents of the ring. *)

\* Pointers and counts, for the steps below.
LEMMA RingTypes ==
  ASSUME FlowInv
  PROVE  /\ Size \in Nat \ {0}
         /\ hwRd \in Idx /\ hwWr \in Idx /\ wrptr \in Idx
         /\ Front(pc, ptr, wrptr) \in Idx /\ Copied \in 0..Size - 1
         /\ Span(hwRd, wrptr) \in 0..Size - 1 /\ Span(hwRd, hwWr) \in 0..Size - 1
         /\ numbered \in Nat /\ executed \in Nat /\ cmdBuf \in [Idx -> Nat]
         /\ part2 \in -1..Size - 1 /\ Rest(part2) \in Nat /\ len \in [Callers -> Nat]
         /\ \A a \in Callers : ptr[a] \in Idx /\ base[a] \in Idx /\ len[a] \in Nat /\ next[a] \in Nat
  <1> USE DEF FlowInv
  <1>1. /\ hwRd \in Idx /\ hwWr \in Idx /\ wrptr \in Idx /\ Size \in Nat \ {0}
        /\ cmdBuf \in [Idx -> Nat] /\ part2 \in -1..Size - 1 /\ len \in [Callers -> Nat]
    BY SEAssumption, SMTT(30) DEF TypeOK, HandlerInv, Idx
  <1>2. \A a \in Callers : ptr[a] \in Idx /\ base[a] \in Idx /\ len[a] \in Nat /\ next[a] \in Nat
    BY SEAssumption DEF TypeOK, Idx
  <1>3. Front(pc, ptr, wrptr) \in Idx
    BY <1>1, <1>2 DEF Front, Callers
  <1>4. Copied \in 0..Size - 1
    BY <1>1, <1>3, SpanFacts DEF Copied
  <1>5. Rest(part2) \in Nat
    BY <1>1 DEF Rest, None
  <1>6. Span(hwRd, wrptr) \in 0..Size - 1 /\ Span(hwRd, hwWr) \in 0..Size - 1
    BY <1>1, SpanFacts
  <1> QED
    BY <1>1, <1>2, <1>3, <1>4, <1>5, <1>6 DEF HandlerInv

\* Only one WriteCmd is in progress; the caller says when there is a second part.
LEMMA OthersIdle ==
  ASSUME FlowInv, RingInv, NEW a \in Callers, pc[a] # "idle"
  PROVE  /\ \A b \in Callers : b # a => pc[b] = "idle"
         /\ a = "write" => part2 = None
         /\ publish[a] <=> part2 = None
  BY DEF FlowInv, RingInv, HandlerInv, Callers

\* Steps that touch neither the ring nor a WriteCmd.
LEMMA RingFrame ==
  ASSUME RingInv, UNCHANGED <<cmdVars, ringVars, part2, numbered, executed, ends>>,
         handler' = handler \/ (wrptr = hwWr /\ handler' # "write")
  PROVE  RingInv'
  BY DEF RingInv, CallInv, Copied, cmdVars, ringVars

\* A WriteCmd that found room has room behind what was copied: the pointer it
\* measured from was the one it writes at, or it did not overrun.
LEMMA RoomRing ==
  ASSUME FlowInv, RingInv, NEW a \in Callers, Room(a), ~overrun'
  PROVE  RingInv'
  <1>1. \A b \in Callers : b # a => pc[b] = "idle"
    BY OthersIdle DEF Room
  <1>2. pc' = [pc EXCEPT ![a] = "copy"] /\ ptr' = [ptr EXCEPT ![a] = wrptr] /\ pc[a] = "room"
        /\ pc \in [Callers -> {"idle", "room", "copy"}] /\ ptr \in [Callers -> Idx]
    BY DEF Room, FlowInv, TypeOK, Idx
  <1>3. /\ pc'[a] = "copy" /\ ptr'[a] = wrptr
        /\ \A b \in Callers : b # a => pc'[b] = "idle"
    BY <1>1, <1>2
  <1>4. /\ UNCHANGED <<part2, handler, base, next, len, publish, wrptr, cmdBuf, hwRd, hwWr,
                       numbered, executed, ends>>
    BY DEF Room, irqVars, ringVars
  <1>5. Front(pc, ptr, wrptr) = wrptr /\ Missing(pc, len, part2) = len[a] + Rest(part2)
    BY <1>1, <1>2, OneCall, RingTypes, ZenonT(40)
  <1>6. Front(pc', ptr', wrptr) = wrptr /\ Missing(pc', len, part2) = len[a] + Rest(part2)
    BY <1>3, OneCall, RingTypes, ZenonT(40)
  <1>7. Copied' = Copied /\ Copied = Span(hwRd, wrptr)
    BY <1>4, <1>5, <1>6 DEF Copied
  <1>8. Copied + len[a] < Size
    <2>1. CASE wrptr # hwWr
      <3>1. ~(Span(hwRd, wrptr) + len[a] >= Size)
        BY <2>1 DEF Room
      <3> QED
        BY <1>7, <3>1, RingTypes
    <2>2. CASE wrptr = hwWr
      <3>1. base[a] = wrptr
        BY <1>2, <2>2 DEF RingInv, CallInv, Callers
      <3>2. Span(hwRd, base[a]) + len[a] < Size
        BY FitsMeansRoom, RingTypes DEF Room, FlowInv
      <3> QED
        BY <1>7, <3>1, <3>2
    <2> QED
      BY <2>1, <2>2
  <1>9. CallInv("write")' /\ CallInv("irq")'
    <2>1. next[a] = executed + Copied + 1
      BY <1>2 DEF RingInv, CallInv, Callers
    <2>2. CallInv(a)'
      BY <1>3, <1>4, <1>7, <1>8, <2>1 DEF CallInv
    <2>3. \A b \in Callers : b # a => CallInv(b)'
      BY <1>3 DEF CallInv
    <2> QED
      BY <2>2, <2>3 DEF Callers
  <1>10. pc'["irq"] = "idle" <=> pc["irq"] = "idle"
    BY <1>1, <1>2, <1>3 DEF Callers
  <1>11. pc'["write"] = "idle" <=> pc["write"] = "idle"
    BY <1>1, <1>2, <1>3 DEF Callers
  <1> QED
    BY <1>4, <1>5, <1>6, <1>7, <1>9, <1>10, <1>11 DEF RingInv

\* Copying a command keeps those before it and adds one behind them.
LEMMA CopyRing ==
  ASSUME FlowInv, RingInv, NEW a \in Callers, CopyWord(a)
  PROVE  RingInv'
  <1>1. /\ \A b \in Callers : b # a => pc[b] = "idle"
        /\ a = "write" => part2 = None
    BY OthersIdle DEF CopyWord
  <1>2. PICK f \in Idx, m \in Nat : f = ptr[a] /\ m = len[a]
    BY RingTypes
  <1>3. pc[a] = "copy" /\ m > 0 /\ m - 1 \in Nat
    BY <1>2 DEF CopyWord
  <1>4. UNCHANGED <<part2, handler, pc, base, publish, wrptr, hwRd, hwWr, numbered, executed, ends>>
    BY DEF CopyWord, irqVars, histVars
  <1>5. /\ ptr'[a] = Bump(f) /\ next'[a] = next[a] + 1 /\ len'[a] = m - 1
        /\ \A b \in Callers : b # a => next'[b] = next[b]
        /\ len' \in [Callers -> Nat]
    <2>1. ptr \in [Callers -> Idx] /\ next \in [Callers -> Nat] /\ len \in [Callers -> Nat]
      BY RingTypes DEF FlowInv, TypeOK, Idx
    <2> QED
      BY <1>2, <1>3, <2>1 DEF CopyWord
  <1>6. Front(pc, ptr, wrptr) = f /\ Missing(pc, len, part2) = m + Rest(part2)
    BY <1>1, <1>2, <1>3, OneCall, RingTypes
  <1>7. Front(pc, ptr', wrptr) = Bump(f) /\ Missing(pc, len', part2) = (m - 1) + Rest(part2)
    BY <1>1, <1>3, <1>5, OneCall, RingTypes
  <1>8. PICK c \in Nat : c = Copied /\ c = Span(hwRd, f)
    BY <1>6, RingTypes DEF Copied
  <1>9. next[a] = executed + c + 1 /\ c + m < Size
    BY <1>2, <1>3, <1>8 DEF RingInv, CallInv, Callers
  <1>10. /\ Span(hwRd, Bump(f)) = c + 1
         /\ Holds([cmdBuf EXCEPT ![f] = executed + c + 1], hwRd, Bump(f), executed)
    <2>1. Holds(cmdBuf, hwRd, f, executed)
      BY <1>6 DEF RingInv
    <2>2. Span(hwRd, f) + 1 < Size
      BY <1>3, <1>8, <1>9, RingTypes
    <2> QED
      BY <1>8, <2>1, <2>2, CopyHolds, RingTypes, ZenonT(40)
  <1>11. cmdBuf' = [cmdBuf EXCEPT ![f] = executed + c + 1]
    BY <1>2, <1>9 DEF CopyWord
  <1>12. Copied' = c + 1
    BY <1>4, <1>7, <1>10 DEF Copied
  <1>13. Holds(cmdBuf, hwRd, Front(pc, ptr, wrptr), executed)'
    BY <1>4, <1>7, <1>10, <1>11
  <1>14. (executed + Copied + Missing(pc, len, part2) = numbered)'
    <2>1. executed + c + (m + Rest(part2)) = numbered
      BY <1>6, <1>8 DEF RingInv
    <2>2. executed + (c + 1) + ((m - 1) + Rest(part2)) = executed + c + (m + Rest(part2))
      BY RingTypes
    <2> QED
      BY <1>4, <1>7, <1>12, <2>1, <2>2
  <1>15. next'[a] = executed + (c + 1) + 1
    BY <1>5, <1>9, RingTypes
  <1>16. CallInv("write")' /\ CallInv("irq")'
    <2>1. (c + 1) + (m - 1) < Size
      BY <1>9
    <2>2. CallInv(a)'
      BY <1>3, <1>4, <1>5, <1>12, <1>15, <2>1 DEF CallInv
    <2>3. \A b \in Callers : b # a => CallInv(b)'
      BY <1>1, <1>4 DEF CallInv
    <2> QED
      BY <2>2, <2>3 DEF Callers
  <1>17. (part2 # None => next["irq"] = executed + Copied + 1)'
    BY <1>1, <1>4, <1>12, <1>15 DEF Callers
  <1>18. (Span(hwRd, hwWr) <= Span(hwRd, wrptr) /\ Span(hwRd, wrptr) <= Copied)'
    <2>1. Span(hwRd, hwWr) <= Span(hwRd, wrptr) /\ Span(hwRd, wrptr) <= c
      BY <1>8 DEF RingInv
    <2>2. Span(hwRd, wrptr) <= c + 1
      BY <2>1, RingTypes
    <2> QED
      BY <1>4, <1>12, <2>1, <2>2
  <1> QED
    BY <1>4, <1>13, <1>14, <1>16, <1>17, <1>18 DEF RingInv

\* The commands of a WriteCmd are published at its end, or kept for the second part.
LEMMA FinishRing ==
  ASSUME FlowInv, RingInv, NEW a \in Callers, Finish(a)
  PROVE  RingInv'
  <1>1. /\ \A b \in Callers : b # a => pc[b] = "idle"
        /\ a = "write" => part2 = None
        /\ publish[a] <=> part2 = None
    BY OthersIdle DEF Finish
  <1>2. PICK f \in Idx : f = ptr[a]
    BY RingTypes
  <1>3. pc[a] = "copy" /\ len[a] = 0 /\ wrptr' = f /\ hwWr' = (IF publish[a] THEN f ELSE hwWr)
    BY <1>2 DEF Finish
  <1>4. UNCHANGED <<part2, handler, base, ptr, next, len, publish, cmdBuf, hwRd,
                    numbered, executed, ends>>
    BY DEF Finish, irqVars, histVars
  <1>5. \A b \in Callers : pc'[b] = "idle"
    BY <1>1 DEF Finish, FlowInv, TypeOK
  <1>6. Front(pc, ptr, wrptr) = f /\ Missing(pc, len, part2) = 0 + Rest(part2)
    BY <1>1, <1>2, <1>3, OneCall, RingTypes
  <1>7. Front(pc', ptr, f) = f /\ Missing(pc', len, part2) = 0 + Rest(part2)
    <2>1. pc'[a] = "idle" /\ len \in [Callers -> Nat] /\ part2 \in -1..Size - 1
      BY <1>5, RingTypes
    <2>2. /\ Front(pc', ptr, f) = IF pc'[a] = "copy" THEN ptr[a] ELSE f
          /\ Missing(pc', len, part2) = (IF pc'[a] # "idle" THEN len[a] ELSE 0) + Rest(part2)
      BY <1>5, <2>1, OneCall
    <2> QED
      BY <2>1, <2>2
  <1>8. Copied' = Copied /\ Copied = Span(hwRd, f)
    BY <1>3, <1>4, <1>6, <1>7 DEF Copied
  <1>9. (wrptr # hwWr => handler = "write" /\ (pc["irq"] = "idle" <=> part2 # None))'
    <2>1. ASSUME wrptr' # hwWr' PROVE part2 # None
      BY <1>1, <1>3, <2>1
    <2>2. part2 # None => handler = "write"
      BY DEF FlowInv, HandlerInv
    <2> QED
      BY <1>4, <1>5, <2>1, <2>2 DEF Callers
  <1>10. (executed + Span(hwRd, hwWr) \in ends)'
    <2>1. CASE publish[a]
      <3>1. executed + Copied + (0 + 0) = numbered
        BY <1>1, <1>6, <2>1 DEF RingInv, Rest
      <3>2. executed + Copied = numbered
        BY <3>1, RingTypes
      <3> QED
        BY <1>3, <1>4, <1>8, <2>1, <3>2 DEF RingInv
    <2>2. CASE ~publish[a]
      BY <1>3, <1>4, <2>2 DEF RingInv
    <2> QED
      BY <2>1, <2>2
  <1>11. (Span(hwRd, hwWr) <= Span(hwRd, wrptr) /\ Span(hwRd, wrptr) <= Copied)'
    <2>1. Span(hwRd, hwWr) <= Copied
      BY RingTypes DEF RingInv
    <2>2. Span(hwRd', wrptr') = Copied /\ Copied <= Copied
      BY <1>3, <1>4, <1>8, RingTypes
    <2>3. Span(hwRd', hwWr') <= Copied
      BY <1>3, <1>4, <1>8, <2>1, <2>2
    <2> QED
      BY <1>8, <2>2, <2>3
  <1>12. CallInv("write")' /\ CallInv("irq")'
    BY <1>5 DEF CallInv, Callers
  <1>13. (executed + Copied + Missing(pc, len, part2) = numbered)'
    BY <1>4, <1>6, <1>7, <1>8 DEF RingInv
  <1>14. Holds(cmdBuf, hwRd, Front(pc, ptr, wrptr), executed)'
    BY <1>3, <1>4, <1>6, <1>7 DEF RingInv
  <1>15. pc'["write"] = "idle"
    BY <1>5 DEF Callers
  <1> QED
    BY <1>4, <1>8, <1>9, <1>10, <1>11, <1>12, <1>13, <1>14, <1>15 DEF RingInv

\* Executing a command moves the beginning of what the ring holds.
LEMMA ExecuteRing ==
  ASSUME FlowInv, RingInv, Execute
  PROVE  RingInv'
  <1> DEFINE f == Front(pc, ptr, wrptr)
  <1>1. UNCHANGED <<part2, handler, pc, base, ptr, next, len, publish, wrptr, cmdBuf, hwWr,
                    numbered, ends>>
        /\ hwRd' = (hwRd + 1) % Size /\ executed' = executed + 1
    BY DEF Execute, irqVars, cmdVars
  <1>0. Size \in Nat \ {0} /\ hwRd \in 0..Size - 1 /\ hwRd + 1 \in Int
    BY RingTypes DEF Idx
  <1>2. hwRd' \in Idx
    BY <1>0, <1>1, ModRange DEF Idx
  <1>3. ASSUME NEW w \in Idx, Span(hwRd, w) > 0 PROVE Span(hwRd', w) = Span(hwRd, w) - 1
    <2>1. Ahead(Size, (hwRd + 1) % Size, w) = Ahead(Size, hwRd, w) - 1
      <3>1. 1 <= Ahead(Size, hwRd, w)
        BY <1>3, RingTypes, SpanFacts
      <3> QED
        BY <1>0, <3>1, AheadShrinks DEF Idx
    <2> QED
      BY <1>1, <1>2, <2>1, RingTypes, SpanFacts
  <1>4. Span(hwRd, hwWr) > 0
    <2>1. hwRd # hwWr
      BY DEF Execute
    <2>2. Ahead(Size, hwRd, hwWr) # 0
      BY <2>1, RingTypes, AheadZero DEF Idx
    <2> QED
      BY <2>2, RingTypes, SpanFacts
  <1>5. PICK x \in Nat, y \in Nat, z \in Nat :
          x = Span(hwRd, hwWr) /\ y = Span(hwRd, wrptr) /\ z = Copied
    BY RingTypes
  <1>6. x > 0 /\ x <= y /\ y <= z
    BY <1>4, <1>5 DEF RingInv
  <1>7. Span(hwRd', hwWr) = x - 1 /\ Span(hwRd', wrptr) = y - 1 /\ Copied' = z - 1
    <2>1. Span(hwRd', hwWr) = x - 1
      BY <1>3, <1>5, <1>6, RingTypes
    <2>2. y > 0 /\ z > 0
      BY <1>6
    <2>3. Span(hwRd', wrptr) = y - 1
      BY <1>3, <1>5, <2>2, RingTypes
    <2>4. Span(hwRd', f) = z - 1
      BY <1>3, <1>5, <2>2, RingTypes DEF Copied
    <2> QED
      BY <1>1, <2>1, <2>3, <2>4 DEF Copied
  <1>8. Holds(cmdBuf, hwRd, Front(pc, ptr, wrptr), executed)'
    <2>1. Span(hwRd, f) > 0 /\ Holds(cmdBuf, hwRd, f, executed)
      BY <1>5, <1>6 DEF Copied, RingInv
    <2>2. Holds(cmdBuf, (hwRd + 1) % Size, f, executed + 1)
      BY <2>1, ExecuteHolds, RingTypes
    <2> QED
      BY <1>1, <2>2
  <1>9. executed' + Copied' = executed + Copied /\ executed' + (x - 1) = executed + x
    BY <1>1, <1>5, <1>7, RingTypes
  <1>10. CallInv("write")' /\ CallInv("irq")'
    <2> SUFFICES ASSUME NEW a \in Callers, pc[a] # "idle" PROVE CallInv(a)'
      BY <1>1 DEF CallInv, Callers
    <2>1. /\ next[a] = executed + Copied + 1
          /\ pc[a] = "room" => base[a] = hwWr
          /\ pc[a] = "copy" => Copied + len[a] < Size
      BY DEF RingInv, CallInv, Callers
    <2>2. len[a] \in Nat /\ Size \in Nat
      BY RingTypes
    <2>3. pc[a] = "copy" => Copied' + len[a] < Size
      BY <1>5, <1>7, <2>1, <2>2
    <2> QED
      BY <1>1, <1>9, <2>1, <2>3 DEF CallInv
  <1>11. (Span(hwRd, hwWr) <= Span(hwRd, wrptr) /\ Span(hwRd, wrptr) <= Copied)'
    BY <1>1, <1>6, <1>7
  <1>12. (executed + Span(hwRd, hwWr) \in ends)'
    BY <1>1, <1>5, <1>7, <1>9 DEF RingInv
  <1> QED
    BY <1>1, <1>8, <1>9, <1>10, <1>11, <1>12 DEF RingInv

\* With no WriteCmd in progress or due everything handed over was copied, and
\* with the handler outside of its own the engine was told of it.
LEMMA NothingMissing ==
  ASSUME FlowInv, RingInv, pc["write"] = "idle", pc["irq"] = "idle"
  PROVE  /\ Front(pc, ptr, wrptr) = wrptr /\ Copied = Span(hwRd, wrptr)
         /\ executed + Copied + Rest(part2) = numbered
         /\ handler # "write" => part2 = None /\ wrptr = hwWr /\ executed + Copied = numbered
  <1>1. Front(pc, ptr, wrptr) = wrptr /\ Missing(pc, len, part2) = 0 + Rest(part2)
    BY RingTypes, OneCall DEF Callers
  <1>2. Copied = Span(hwRd, wrptr) /\ executed + Copied + Rest(part2) = numbered
    BY <1>1, RingTypes DEF Copied, RingInv
  <1>3. handler # "write" => part2 = None /\ wrptr = hwWr
    BY DEF FlowInv, HandlerInv, RingInv
  <1>4. part2 = None => executed + Copied = numbered
    BY <1>2, RingTypes DEF Rest
  <1> QED
    BY <1>1, <1>2, <1>3, <1>4

\* A WriteCmd for n commands begins behind all that was copied.
LEMMA CallRing ==
  ASSUME FlowInv, RingInv, pc["write"] = "idle", pc["irq"] = "idle",
         NEW a \in Callers, NEW n \in Nat \ {0}, NEW k, NEW g, Call(a, n, k, g)
  PROVE  /\ pc'[a] = "room" /\ \A b \in Callers : b # a => pc'[b] = "idle"
         /\ publish'[a] = g /\ next'[a] = k /\ UNCHANGED <<wrptr, cmdBuf, hwRd, hwWr>>
         /\ Front(pc', ptr', wrptr') = wrptr
         /\ len' \in [Callers -> Nat] /\ len'[a] = n
         /\ executed' = executed => Copied' = Copied
         /\ executed' = executed /\ k = executed + Copied + 1 => CallInv("write")' /\ CallInv("irq")'
  <1>1. /\ pc \in [Callers -> {"idle", "room", "copy"}] /\ publish \in [Callers -> BOOLEAN]
        /\ next \in [Callers -> Nat] /\ base \in [Callers -> Idx] /\ len \in [Callers -> Nat]
        /\ \A b \in Callers : pc[b] = "idle"
    BY RingTypes DEF FlowInv, TypeOK, HandlerInv, Callers, Idx
  <1>2. /\ pc'[a] = "room" /\ \A b \in Callers : b # a => pc'[b] = "idle"
        /\ publish'[a] = g /\ next'[a] = k /\ base'[a] = hwWr
        /\ UNCHANGED <<wrptr, cmdBuf, hwRd, hwWr, ptr>>
        /\ len' \in [Callers -> Nat] /\ len'[a] = n
    BY <1>1 DEF Call
  <1>3. Front(pc', ptr', wrptr') = wrptr
    <2>1. pc'[a] # "copy"
      BY <1>2
    <2>2. Front(pc', ptr, wrptr) = IF pc'[a] = "copy" THEN ptr[a] ELSE wrptr
      BY <1>2, OneCall, RingTypes
    <2> QED
      BY <1>2, <2>1, <2>2
  <1>4. Copied' = Copied
    BY <1>2, <1>3, NothingMissing DEF Copied
  <1>5. ASSUME executed' = executed, k = executed + Copied + 1
        PROVE  CallInv("write")' /\ CallInv("irq")'
    <2>1. CallInv(a)'
      BY <1>2, <1>4, <1>5 DEF CallInv
    <2>2. \A b \in Callers : b # a => CallInv(b)'
      BY <1>2 DEF CallInv
    <2> QED
      BY <2>1, <2>2 DEF Callers
  <1> QED
    BY <1>2, <1>3, <1>4, <1>5

\* A call of se_write begins behind all commands, or finds nothing to publish.
LEMMA WriteRing ==
  ASSUME FlowInv, RingInv, NEW n \in Counts, Write(n)
  PROVE  RingInv'
  <1>1. /\ pc["write"] = "idle" /\ handler # "write" /\ pc["irq"] = "idle"
        /\ UNCHANGED <<handler, part2, executed>>
        /\ Call("write", n, numbered + 1, TRUE)
        /\ numbered' = numbered + n /\ ends' = ends \cup {numbered + n}
    BY DEF Write, Thread, irqVars, FlowInv, HandlerInv
  <1>2. n \in Nat
    BY SEAssumption
  <1>3. /\ Copied = Span(hwRd, wrptr) /\ executed + Copied = numbered
        /\ part2 = None /\ wrptr = hwWr /\ Front(pc, ptr, wrptr) = wrptr
    BY <1>1, NothingMissing
  <1>4. CASE n = 0
    <2>1. UNCHANGED <<cmdVars, ringVars, part2, executed, handler>>
      BY <1>1, <1>3, <1>4 DEF Call, ringVars
    <2>2. numbered' = numbered
      BY <1>1, <1>4, RingTypes
    <2>3. ends' = ends
      BY <1>1, <2>2 DEF RingInv
    <2> QED
      BY <2>1, <2>2, <2>3, RingFrame
  <1>5. CASE n # 0
    <2>0. n \in Nat \ {0} /\ numbered + 1 = executed + Copied + 1 /\ "write" \in Callers
      BY <1>2, <1>3, <1>5 DEF Callers
    <2>1. /\ pc'["write"] = "room" /\ \A b \in Callers : b # "write" => pc'[b] = "idle"
          /\ publish'["write"] = TRUE /\ UNCHANGED <<wrptr, cmdBuf, hwRd, hwWr>>
          /\ Front(pc', ptr', wrptr') = wrptr /\ len' \in [Callers -> Nat] /\ len'["write"] = n
          /\ Copied' = Copied /\ CallInv("write")' /\ CallInv("irq")'
      BY <1>1, <2>0, CallRing
    <2>2. Missing(pc', len', part2) = n + Rest(part2)
      BY <2>0, <2>1, OneCall, RingTypes
    <2>3. executed' + Copied' + Missing(pc', len', part2') = numbered'
      <3>1. Missing(pc', len', part2') = n + 0
        BY <1>1, <1>3, <2>2 DEF Rest
      <3>2. executed + Copied + (n + 0) = numbered + n
        BY <1>2, <1>3, RingTypes
      <3> QED
        BY <1>1, <2>1, <3>1, <3>2
    <2>4. (Span(hwRd, hwWr) <= Span(hwRd, wrptr) /\ Span(hwRd, wrptr) <= Copied)'
      BY <2>1 DEF RingInv
    <2>5. Holds(cmdBuf, hwRd, Front(pc, ptr, wrptr), executed)'
      BY <1>1, <1>3, <2>1 DEF RingInv
    <2>6. (numbered \in ends /\ executed + Span(hwRd, hwWr) \in ends)'
      BY <1>1, <2>1 DEF RingInv
    <2> QED
      BY <1>1, <1>3, <2>1, <2>3, <2>4, <2>5, <2>6 DEF RingInv
  <1> QED
    BY <1>4, <1>5

\* The handler's call for an entry or its first part.
LEMMA EntryRing ==
  ASSUME FlowInv, RingInv, IrqEntry, ~raced'
  PROVE  RingInv'
  <1>1. /\ handler = "loop" /\ handler' = "write" /\ pc["write"] = "idle" /\ pc["irq"] = "idle"
        /\ UNCHANGED executed
    BY DEF IrqEntry, FlowInv, HandlerInv
  <1>2. /\ Copied = Span(hwRd, wrptr) /\ executed + Copied = numbered
        /\ wrptr = hwWr /\ Front(pc, ptr, wrptr) = wrptr
    BY <1>1, NothingMissing
  <1>3. PICK e, r, n : e = Head(queue) /\ r = (qrd + 1) % QSize
                       /\ n = IF r + e < QSize THEN e ELSE QSize - r
    OBVIOUS
  <1>4. /\ e \in 1..Size - 1 /\ n \in 1..e
        /\ part2' = (IF r + e < QSize THEN None ELSE e - n)
        /\ Call("irq", n, numbered + 1, r + e < QSize)
        /\ numbered' = numbered + e /\ ends' = ends \cup {numbered + e}
    BY <1>3, EntryFacts
  <1>5. n \in Nat \ {0} /\ e \in Nat /\ numbered + 1 = executed + Copied + 1 /\ "irq" \in Callers
    BY <1>2, <1>4, RingTypes DEF Callers
  <1>6. /\ pc'["irq"] = "room" /\ \A b \in Callers : b # "irq" => pc'[b] = "idle"
        /\ next'["irq"] = numbered + 1 /\ UNCHANGED <<wrptr, cmdBuf, hwRd, hwWr>>
        /\ Front(pc', ptr', wrptr') = wrptr /\ len' \in [Callers -> Nat] /\ len'["irq"] = n
        /\ Copied' = Copied /\ CallInv("write")' /\ CallInv("irq")'
    BY <1>1, <1>4, <1>5, CallRing
  <1>7. part2' \in -1..Size - 1 /\ n + Rest(part2') = e
    <2>1. CASE r + e < QSize
      <3>1. n = e /\ part2' = None /\ Rest(part2') = 0
        BY <1>3, <1>4, <2>1 DEF Rest
      <3> QED
        BY <1>5, <3>1, SEAssumption DEF None
    <2>2. CASE ~(r + e < QSize)
      <3>1. part2' = e - n /\ e - n \in 0..Size - 1
        BY <1>4, <2>2, SEAssumption
      <3>2. Rest(part2') = e - n
        BY <3>1, SEAssumption DEF Rest, None
      <3> QED
        BY <1>5, <3>1, <3>2
    <2> QED
      BY <2>1, <2>2
  <1>8. Missing(pc', len', part2') = n + Rest(part2')
    BY <1>5, <1>6, <1>7, OneCall
  <1>9. executed' + Copied' + Missing(pc', len', part2') = numbered'
    <2>1. executed + Copied + e = numbered + e
      BY <1>2, RingTypes
    <2> QED
      BY <1>1, <1>4, <1>6, <1>7, <1>8, <2>1
  <1>10. (Span(hwRd, hwWr) <= Span(hwRd, wrptr) /\ Span(hwRd, wrptr) <= Copied)'
    BY <1>6 DEF RingInv
  <1>11. Holds(cmdBuf, hwRd, Front(pc, ptr, wrptr), executed)'
    BY <1>1, <1>2, <1>6 DEF RingInv
  <1>12. (numbered \in ends /\ executed + Span(hwRd, hwWr) \in ends)'
    BY <1>1, <1>4, <1>6 DEF RingInv
  <1>13. pc'["write"] = "idle" /\ wrptr' = hwWr' /\ next'["irq"] = executed' + Copied' + 1
    BY <1>1, <1>2, <1>5, <1>6 DEF Callers
  <1> QED
    BY <1>6, <1>9, <1>10, <1>11, <1>12, <1>13 DEF RingInv

\* The handler's call for the second part, which may be empty.
LEMMA SecondRing ==
  ASSUME FlowInv, RingInv, IrqSecond
  PROVE  RingInv'
  <1>1. /\ handler = "write" /\ pc["write"] = "idle" /\ pc["irq"] = "idle"
        /\ part2 # None /\ part2' = None
        /\ Call("irq", part2, next["irq"], TRUE)
        /\ UNCHANGED <<handler, numbered, executed, ends>>
    BY DEF IrqSecond, RingInv, histVars
  <1>2. PICK n \in Nat : n = part2 /\ Rest(part2) = n
    BY <1>1, RingTypes DEF Rest, None
  <1>3. /\ Copied = Span(hwRd, wrptr) /\ executed + Copied + n = numbered
        /\ Front(pc, ptr, wrptr) = wrptr
    BY <1>1, <1>2, NothingMissing
  <1>4. Rest(part2') = 0 /\ part2' \in -1..Size - 1
    BY <1>1, SEAssumption DEF Rest, None
  <1>5. CASE n = 0
    <2>1. UNCHANGED <<cmdVars, wrptr, cmdBuf, hwRd>> /\ hwWr' = wrptr
      BY <1>1, <1>2, <1>5 DEF Call
    <2>2. executed + Copied = numbered
      BY <1>3, <1>5, RingTypes
    <2>3. pc' = pc /\ ptr' = ptr /\ Copied' = Copied
      BY <2>1 DEF Copied, cmdVars
    <2>4. Missing(pc', len', part2') = 0
      BY <1>1, <1>4, <2>3 DEF Missing
    <2>5. executed' + Copied' + Missing(pc', len', part2') = numbered'
      BY <1>1, <2>2, <2>3, <2>4, RingTypes
    <2>6. (Span(hwRd, hwWr) <= Span(hwRd, wrptr) /\ Span(hwRd, wrptr) <= Copied)'
      BY <1>3, <2>1, <2>3, RingTypes
    <2>7. (numbered \in ends /\ executed + Span(hwRd, hwWr) \in ends)'
      BY <1>1, <1>3, <2>1, <2>2 DEF RingInv
    <2>8. CallInv("write")' /\ CallInv("irq")'
      BY <1>1, <2>3 DEF CallInv
    <2>9. Holds(cmdBuf, hwRd, Front(pc, ptr, wrptr), executed)'
      BY <1>1, <2>1, <2>3 DEF RingInv
    <2> QED
      BY <1>1, <2>1, <2>3, <2>5, <2>6, <2>7, <2>8, <2>9 DEF RingInv
  <1>6. CASE n # 0
    <2>0. n \in Nat \ {0} /\ next["irq"] = executed + Copied + 1 /\ "irq" \in Callers
      BY <1>1, <1>6 DEF RingInv, Callers
    <2>1. /\ pc'["irq"] = "room" /\ \A b \in Callers : b # "irq" => pc'[b] = "idle"
          /\ UNCHANGED <<wrptr, cmdBuf, hwRd, hwWr>>
          /\ Front(pc', ptr', wrptr') = wrptr /\ len' \in [Callers -> Nat] /\ len'["irq"] = n
          /\ Copied' = Copied /\ CallInv("write")' /\ CallInv("irq")'
      BY ZenonT(30), <1>1, <1>2, <2>0, CallRing
    <2>2. Missing(pc', len', part2') = n + Rest(part2')
      BY <1>4, <2>0, <2>1, OneCall
    <2>3. executed' + Copied' + Missing(pc', len', part2') = numbered'
      <3>1. Missing(pc', len', part2') = n
        BY <1>4, <2>0, <2>2
      <3> QED
        BY <1>1, <1>3, <2>1, <3>1
    <2>4. (Span(hwRd, hwWr) <= Span(hwRd, wrptr) /\ Span(hwRd, wrptr) <= Copied)'
      BY <2>1 DEF RingInv
    <2>5. Holds(cmdBuf, hwRd, Front(pc, ptr, wrptr), executed)'
      BY <1>1, <1>3, <2>1 DEF RingInv
    <2>6. (numbered \in ends /\ executed + Span(hwRd, hwWr) \in ends)'
      BY <1>1, <2>1 DEF RingInv
    <2>7. pc'["write"] = "idle"
      BY <2>1 DEF Callers
    <2> QED
      BY <1>1, <2>1, <2>3, <2>4, <2>5, <2>6, <2>7 DEF RingInv
  <1> QED
    BY <1>5, <1>6

-----------------------------------------------------------------------------
(* The invariant. *)

\* The invariant holds when the driver is loaded.
LEMMA InitIInv == Init => IInv
  <1> SUFFICES ASSUME Init PROVE IInv
    OBVIOUS
  <1>1. Size \in Nat \ {0} /\ QSize \in Nat \ {0} /\ 0 \in Idx
    BY SEAssumption DEF Idx
  <1>2. TypeOK /\ HandlerInv
    BY <1>1 DEF Init, TypeOK, HandlerInv, Callers, None, Idx
  <1>3. QueueInv
    <2>1. Ahead(QSize, 0, 0) = 0
      BY <1>1, AheadZero
    <2>2. Layout(<< >>, [i \in 1..1 |-> 0], 0) /\ [i \in 1..1 |-> 0] \in [1..1 -> Nat]
      BY DEF Layout
    <2>3. Takes(<< >>, 0)
      BY <2>2 DEF Takes
    <2>4. << >> \in Seq(Payloads \cup {0})
      OBVIOUS
    <2> QED
      BY <2>1, <2>3, <2>4 DEF Init, QueueInv
  <1>4. RingInv
    <2>1. Span(0, 0) = 0
      BY <1>1, SpanFacts
    <2>2. pc["write"] = "idle" /\ pc["irq"] = "idle" /\ part2 = None
      BY DEF Init, Callers
    <2>3. Front(pc, ptr, wrptr) = 0 /\ Missing(pc, len, part2) = 0 /\ Copied = 0
      BY <2>1, <2>2 DEF Init, Front, Missing, Rest, Copied
    <2>4. Holds(cmdBuf, 0, 0, 0)
      BY <2>1 DEF Holds
    <2>5. CallInv("write") /\ CallInv("irq")
      BY <2>2 DEF CallInv
    <2> QED
      BY <2>1, <2>2, <2>3, <2>4, <2>5 DEF Init, RingInv
  <1> QED
    BY <1>2, <1>3, <1>4 DEF IInv

\* Every step keeps the invariant.
LEMMA NextIInv == IInv /\ [Next]_vars => IInv'
  <1> SUFFICES ASSUME IInv, [Next]_vars PROVE IInv'
    OBVIOUS
  <1>0. FlowInv /\ (~raced /\ ~overrun => RingInv)
    BY DEF IInv, FlowInv
  <1>1. SUFFICES FlowInv' /\ (~raced' /\ ~overrun' => RingInv')
    BY DEF IInv, FlowInv
  <1>2. CASE \E e \in Payloads \cup {0} : Enqueue(e)
    <2>1. /\ UNCHANGED <<cmdVars, ringVars, part2, numbered, executed, ends, raced, overrun>>
          /\ handler' = handler
      BY <1>2 DEF Enqueue, irqVars, histVars
    <2> QED
      BY <1>0, <1>2, <2>1, ThreadFlow, RingFrame
  <1>3. CASE Kick
    <2>1. /\ UNCHANGED <<cmdVars, ringVars, part2, numbered, executed, ends, raced, overrun>>
          /\ handler' = handler
      BY <1>3 DEF Kick, irqVars, histVars
    <2> QED
      BY <1>0, <1>3, <2>1, ThreadFlow, RingFrame
  <1>4. CASE Vsync
    <2>1. /\ UNCHANGED <<cmdVars, ringVars, part2, numbered, executed, ends, raced, overrun>>
          /\ handler' = handler
      BY <1>4 DEF Vsync, irqVars, histVars
    <2> QED
      BY <1>0, <1>4, <2>1, ThreadFlow, RingFrame
  <1>5. CASE Execute
    <2>1. UNCHANGED <<raced, overrun>>
      BY <1>5 DEF Execute
    <2> QED
      BY <1>0, <1>5, <2>1, ThreadFlow, ExecuteRing
  <1>6. CASE \E n \in Counts : Write(n)
    <2>1. UNCHANGED <<raced, overrun>>
      BY <1>6 DEF Write
    <2> QED
      BY <1>0, <1>6, <2>1, ThreadFlow, WriteRing
  <1>7. ASSUME NEW a \in Callers, WriteCmd(a)
        PROVE  FlowInv' /\ (~raced' /\ ~overrun' => RingInv')
    <2>1. raced' = raced /\ (~overrun' => ~overrun)
      <3>1. CASE Room(a)
        BY <3>1 DEF Room
      <3>2. CASE CopyWord(a) \/ Finish(a)
        BY <3>2 DEF CopyWord, Finish, histVars
      <3> QED
        BY <1>7, <3>1, <3>2 DEF WriteCmd
    <2> QED
      BY <1>0, <1>7, <2>1, WriteCmdFlow, RoomRing, CopyRing, FinishRing DEF WriteCmd
  <1>8. CASE IrqEntry
    <2>1. overrun' = overrun /\ (~raced' => ~raced)
      BY <1>8 DEF IrqEntry
    <2> QED
      BY <1>0, <1>8, <2>1, HandlerFlow, EntryRing
  <1>9. CASE IrqSecond
    <2>1. UNCHANGED <<raced, overrun>>
      BY <1>9 DEF IrqSecond, histVars
    <2> QED
      BY <1>0, <1>9, <2>1, HandlerFlow, SecondRing
  <1>10. CASE IrqEnter \/ IrqMarker \/ IrqWritten \/ IrqEmpty \/ IrqFinish
    <2>1. UNCHANGED <<cmdVars, ringVars, part2, numbered, executed, ends, raced, overrun>>
      BY <1>10 DEF IrqEnter, IrqMarker, IrqWritten, IrqEmpty, IrqFinish, histVars
    <2>2. handler' # "write"
      BY <1>10 DEF IrqEnter, IrqMarker, IrqWritten, IrqEmpty, IrqFinish
    <2>3. handler # "write" \/ (pc["irq"] = "idle" /\ part2 = None)
      BY <1>10 DEF IrqEnter, IrqMarker, IrqWritten, IrqEmpty, IrqFinish
    <2>4. RingInv => wrptr = hwWr
      BY <2>3 DEF RingInv
    <2> QED
      BY <1>0, <1>10, <2>1, <2>2, <2>4, HandlerFlow, RingFrame
  <1>11. CASE UNCHANGED vars
    <2>1. UNCHANGED <<cmdVars, ringVars, part2, handler, numbered, executed, ends, raced, overrun>>
      BY <1>11 DEF vars, irqVars, histVars
    <2>2. FlowInv'
      BY <1>0, <1>11
      DEF FlowInv, TypeOK, QueueInv, HandlerInv,
          vars, queueVars, irqVars, cmdVars, ringVars, histVars
    <2> QED
      BY <1>0, <2>1, <2>2, RingFrame
  <1> QED
    BY <1>2, <1>3, <1>4, <1>5, <1>6, <1>7, <1>8, <1>9, <1>10, <1>11
    DEF Next, Handler, Client, Callers

\* The invariant holds always.
LEMMA Invariant == Spec => []IInv
  BY InitIInv, NextIInv, PTL DEF Spec

-----------------------------------------------------------------------------
(* The theorems. *)

\* Every pointer stays inside its ring, and the queue is empty exactly when its
\* pointers meet, also where a WriteCmd breaks into another one.
THEOREM TypeCorrect == Spec => []TypeOK
  <1>1. IInv => TypeOK
    BY DEF IInv
  <1> QED
    BY <1>1, Invariant, PTL

\* WriteCmd never overwrites a command before the engine executed it, unless the
\* handler broke into a WriteCmd or a second part was let in without room.
THEOREM CommandsKept == Spec => []CommandsIntact
  <1>1. IInv => CommandsIntact
    <2> SUFFICES ASSUME IInv, ~raced, ~overrun,
                        NEW i \in 0..Span(hwRd, hwWr) - 1
                 PROVE  cmdBuf[(hwRd + i) % Size] = executed + 1 + i
      BY DEF CommandsIntact
    <2>1. FlowInv /\ RingInv
      BY DEF IInv, FlowInv
    <2>2. Span(hwRd, hwWr) <= Copied
      BY <2>1, RingTypes DEF RingInv
    <2>3. i \in 0..Copied - 1
      BY <2>1, <2>2, RingTypes
    <2> QED
      BY <2>1, <2>3 DEF RingInv, Holds, Copied
  <1> QED
    BY <1>1, Invariant, PTL

\* The engine is told to go only behind the last command of an entry or a write,
\* also when the entry was written in two parts.
THEOREM EntriesPublishedWhole == Spec => []EntriesWhole
  <1>1. IInv => EntriesWhole
    BY DEF IInv, RingInv, EntriesWhole
  <1> QED
    BY <1>1, Invariant, PTL
=============================================================================
