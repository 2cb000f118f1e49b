--------------------------- MODULE VenusIR_proofs ---------------------------
(***************************************************************************)
(* Proofs about the infrared receiver with one reader that opens and       *)
(* configures the device between its reads: the fifo never overflows, a    *)
(* read finds every word it measured, pairs are torn only by a full fifo,  *)
(* and the unlocked kfifo is a first-in first-out queue, for every depth,  *)
(* every range of the counters and every number of frames.                 *)
(***************************************************************************)
EXTENDS VenusIR, Circular, TLAPS

\* The discipline the unlocked kfifo functions ask of their callers.
LoneReader == Exclusive /\ \E r : Readers = {r}

\* The words of the fifo are numbers, and the frame at hand is a new one.
FrameInv ==
  /\ buffer \in [0..Depth - 1 -> Nat] /\ DOMAIN word = Readers
  /\ frame \in [code : 0..frames, repeat : BOOLEAN]
  /\ frame.code = 0 => frame = NoFrame
  /\ frame.code \notin stored
  /\ stored \subseteq 1..frames

\* What the reader measured is still there: only it takes words out, and the
\* handler does not touch the word under its hand.
ReaderInv ==
  \A r \in Readers :
    /\ pc[r] = "get" => left[r] <= KLen
    /\ pc[r] = "advance" => left[r] \in 1..KLen /\ word[r] = buffer[out % Depth]
    /\ pc[r] = "copied" => left[r] \in 1..KLen + 1
    /\ newMode # NoMode => pc[r] = "idle"

\* A change of mode starts from an empty fifo; then the words alternate and the
\* next one put will be a code.
PairInv ==
  /\ phase \in 0..1
  /\ ~mixed /\ newMode # NoMode => KLen = 0 /\ phase = 0
  /\ ~mixed /\ ~split /\ newMode = NoMode /\ mode = "DOUBLE"
       => Alternate /\ (phase + KLen) % 2 = 0

\* The inductive invariant.
IInv == TypeOK /\ FrameInv /\ ReaderInv /\ PairInv

-----------------------------------------------------------------------------
(* The fifo's arithmetic. *)

\* __kfifo_len is the distance between the counters.
LEMMA LenIsAhead ==
  ASSUME TypeOK
  PROVE  KLen = Ahead(Modulus, out, in) /\ KLen \in Nat /\ KLen <= Depth
  BY IRAssumption DEF TypeOK, KLen, Ahead

\* The words of a frame.
LEMMA WordsFacts ==
  ASSUME FrameInv, frames \in Nat
  PROVE  /\ WordsOf(frame) \in Seq(Nat)
         /\ Len(WordsOf(frame)) \in 1..2
         /\ mode = "DOUBLE" => Len(WordsOf(frame)) = 2
         /\ \A k \in 1..Len(WordsOf(frame)) : WordsOf(frame)[k] = 2 * frame.code + (k - 1)
  BY DEF FrameInv, WordsOf

\* What the fifo takes of some words is a first part of them that fits.
LEMMA FittingFacts ==
  ASSUME TypeOK, NEW words \in Seq(Nat)
  PROVE  /\ Fitting(words) \in Seq(Nat)
         /\ Len(Fitting(words)) \in 0..Len(words)
         /\ Len(Fitting(words)) + KLen <= Depth
         /\ \A k \in 1..Len(Fitting(words)) : Fitting(words)[k] = words[k]
  <1>1. PICK n \in Int : n = IF Len(words) <= KFree THEN Len(words) ELSE KFree
    BY LenIsAhead, IRAssumption DEF KFree
  <1>2. n \in 0..Len(words) /\ n + KLen <= Depth
    BY <1>1, LenIsAhead, IRAssumption DEF KFree
  <1>3. Fitting(words) = SubSeq(words, 1, n)
    BY <1>1 DEF Fitting
  <1>4. \A i \in 1..n : words[i] \in Nat
    BY <1>2
  <1>5. /\ SubSeq(words, 1, n) \in Seq(Nat) /\ Len(SubSeq(words, 1, n)) = n
        /\ \A i \in 1..n : SubSeq(words, 1, n)[i] = words[i]
    BY <1>2, <1>4, SubSeqProperties
  <1> QED
    BY <1>2, <1>3, <1>5

\* A put adds words behind those the fifo holds and leaves these alone.
LEMMA PutFacts ==
  ASSUME TypeOK, FrameInv, NEW words \in Seq(Nat), Put(words)
  PROVE  /\ in' \in 0..Modulus - 1 /\ out' = out
         /\ KLen' = KLen + Len(Fitting(words)) /\ KLen' \in 0..Depth
         /\ buffer' \in [0..Depth - 1 -> Nat]
         /\ \A i \in 1..KLen : buffer'[(out + i - 1) % Depth] = buffer[(out + i - 1) % Depth]
         /\ \A k \in 1..Len(Fitting(words)) :
              buffer'[(out + (KLen + k) - 1) % Depth] = words[k]
  <1>0. Depth \in Nat \ {0} /\ Modulus \in Nat \ {0} /\ Modulus > Depth /\ Modulus % Depth = 0
    BY IRAssumption
  <1>1. PICK L \in Nat : L = KLen
    BY LenIsAhead
  <1>2. PICK ws \in Seq(Nat) : ws = Fitting(words)
    BY FittingFacts
  <1>3. Len(ws) + L <= Depth /\ Len(ws) \in Nat /\ \A k \in 1..Len(ws) : ws[k] = words[k]
    <2>1. /\ Len(Fitting(words)) \in 0..Len(words) /\ Len(Fitting(words)) + KLen <= Depth
          /\ \A k \in 1..Len(Fitting(words)) : Fitting(words)[k] = words[k]
      BY FittingFacts
    <2> QED
      BY <1>1, <1>2, <2>1
  <1>4. in \in 0..Modulus - 1 /\ out \in 0..Modulus - 1
    BY DEF TypeOK
  <1>5. in' = (in + Len(ws)) % Modulus /\ out' = out
    BY <1>2 DEF Put
  <1>6. in' \in 0..Modulus - 1
    <2>1. in + Len(ws) \in Int
      BY <1>4
    <2> QED
      BY <1>0, <1>5, <2>1, ModRange
  <1>7. KLen' = L + Len(ws)
    <2>1. L = Ahead(Modulus, out, in)
      BY <1>1, LenIsAhead
    <2>2. Ahead(Modulus, out, in) + Len(ws) < Modulus
      BY <1>0, <1>3, <2>1
    <2>3. Ahead(Modulus, out, (in + Len(ws)) % Modulus) = Ahead(Modulus, out, in) + Len(ws)
      BY <1>0, <1>3, <1>4, <2>2, AheadGrows
    <2>4. KLen' = Ahead(Modulus, out, (in + Len(ws)) % Modulus)
      BY <1>5 DEF KLen, Ahead
    <2> QED
      BY <2>1, <2>3, <2>4
  <1>8. (out + L) % Modulus = in
    BY <1>0, <1>1, <1>4, LenIsAhead, AheadPlace
  \* Word k of the put goes to the place L + k of the fifo.
  <1>9. \A k \in Int : (in + k) % Depth = (out + (L + k)) % Depth
    <2> TAKE k \in Int
    <2>1. (((out + L) % Modulus) + k) % Depth = ((out + L) + k) % Depth
      <3>1. out + L \in Int
        BY <1>4
      <3> QED
        BY <1>0, <3>1, WrapKeepsPlace
    <2> QED
      BY <1>4, <1>8, <2>1
  <1>10. buffer' = [i \in 0..Depth - 1 |->
                      IF \E k \in 1..Len(ws) : (in + k - 1) % Depth = i
                      THEN ws[CHOOSE k \in 1..Len(ws) : (in + k - 1) % Depth = i]
                      ELSE buffer[i]]
    BY <1>2 DEF Put
  <1>11. buffer \in [0..Depth - 1 -> Nat]
    BY DEF FrameInv
  <1>12. buffer' \in [0..Depth - 1 -> Nat]
    <2>1. ASSUME NEW i \in 0..Depth - 1, \E k \in 1..Len(ws) : (in + k - 1) % Depth = i
          PROVE  ws[CHOOSE k \in 1..Len(ws) : (in + k - 1) % Depth = i] \in Nat
      <3>1. (CHOOSE k \in 1..Len(ws) : (in + k - 1) % Depth = i) \in 1..Len(ws)
        BY <2>1
      <3> QED
        BY <3>1
    <2> QED
      BY <1>10, <1>11, <2>1
  <1>m. \A x \in Int : x % Depth \in 0..Depth - 1
    BY <1>0, ModRange
  <1>13. ASSUME NEW i \in 1..L
         PROVE  buffer'[(out + i - 1) % Depth] = buffer[(out + i - 1) % Depth]
    <2>0. out + i - 1 \in Int
      BY <1>4
    <2>1. PICK p \in 0..Depth - 1 : p = (out + i - 1) % Depth
      BY <1>m, <2>0
    <2>2. ASSUME NEW k \in 1..Len(ws)
          PROVE  (in + k - 1) % Depth # p
      <3>1. (in + (k - 1)) % Depth = (out + (L + (k - 1))) % Depth
        BY <1>9
      <3>2. (out + (i - 1)) % Depth = p
        BY <1>4, <2>1
      <3>3. i - 1 \in 0..Depth - 1 /\ L + (k - 1) \in 0..Depth - 1 /\ i - 1 # L + (k - 1)
        BY <1>0, <1>3
      <3>4. (out + (L + (k - 1))) % Depth # (out + (i - 1)) % Depth
        <4>1. out \in Int /\ L + (k - 1) \in 0..Depth - 1 /\ i - 1 \in 0..Depth - 1
          BY <1>4, <3>3
        <4> QED
          BY <1>0, <3>3, <4>1, CountsDiffer
      <3>5. in + (k - 1) = in + k - 1
        BY <1>4
      <3> QED
        BY <3>1, <3>2, <3>4, <3>5
    <2>3. buffer'[p] = buffer[p]
      BY <1>10, <2>2
    <2> QED
      BY <2>1, <2>3
  <1>14. ASSUME NEW k \in 1..Len(ws)
         PROVE  buffer'[(out + (L + k) - 1) % Depth] = ws[k]
    <2>0. in + k - 1 \in Int
      BY <1>4
    <2>1. PICK p \in 0..Depth - 1 : p = (in + k - 1) % Depth
      BY <1>m, <2>0
    <2>2. (in + (k - 1)) % Depth = (out + (L + (k - 1))) % Depth
      BY <1>9
    <2>3. in + (k - 1) = in + k - 1 /\ out + (L + (k - 1)) = out + (L + k) - 1
      BY <1>1, <1>4
    <2>4. p = (out + (L + k) - 1) % Depth
      BY <2>1, <2>2, <2>3
    <2>5. ASSUME NEW j \in 1..Len(ws), (in + j - 1) % Depth = p
          PROVE  j = k
      <3>1. in + (j - 1) = in + j - 1
        BY <1>4
      <3>2. (in + (j - 1)) % Depth = (in + (k - 1)) % Depth
        BY <2>1, <2>3, <2>5, <3>1
      <3>3. j - 1 \in 0..Depth - 1 /\ k - 1 \in 0..Depth - 1
        BY <1>0, <1>3
      <3>4. j - 1 = k - 1
        <4>1. in \in Int
          BY <1>4
        <4> QED
          BY <1>0, <3>2, <3>3, <4>1, CountsDiffer
      <3> QED
        BY <3>4
    <2>6. (CHOOSE j \in 1..Len(ws) : (in + j - 1) % Depth = p) = k
      BY <2>1, <2>5
    <2>7. buffer'[p] = ws[k]
      BY <1>10, <2>1, <2>6
    <2> QED
      BY <2>4, <2>7
  <1> QED
    BY <1>1, <1>2, <1>3, <1>5, <1>6, <1>7, <1>12, <1>13, <1>14

\* A get takes the oldest word: the others move up by one.
LEMMA AdvanceFacts ==
  ASSUME TypeOK, KLen >= 1, out' = (out + 1) % Modulus, in' = in, buffer' = buffer
  PROVE  /\ out' \in 0..Modulus - 1 /\ KLen' = KLen - 1
         /\ \A i \in 1..KLen - 1 :
              buffer'[(out' + i - 1) % Depth] = buffer[(out + (i + 1) - 1) % Depth]
  <1>0. Depth \in Nat \ {0} /\ Modulus \in Nat \ {0} /\ Modulus > Depth /\ Modulus % Depth = 0
    BY IRAssumption
  <1>1. in \in 0..Modulus - 1 /\ out \in 0..Modulus - 1
    BY DEF TypeOK
  <1>2. out + 1 \in Int
    BY <1>1
  <1>3. (out + 1) % Modulus \in 0..Modulus - 1
    BY <1>0, <1>2, ModRange
  <1>4. KLen' = KLen - 1
    <2>1. 1 <= Ahead(Modulus, out, in)
      BY LenIsAhead
    <2>2. Ahead(Modulus, (out + 1) % Modulus, in) = Ahead(Modulus, out, in) - 1
      BY <1>0, <1>1, <2>1, AheadShrinks
    <2>3. KLen' = Ahead(Modulus, (out + 1) % Modulus, in)
      BY DEF KLen, Ahead
    <2> QED
      BY <2>2, <2>3, LenIsAhead
  <1>5. ASSUME NEW i \in 1..KLen - 1
        PROVE  (out' + i - 1) % Depth = (out + (i + 1) - 1) % Depth
    <2>1. PICK j \in Int : j = i - 1
      BY LenIsAhead
    <2>2. (((out + 1) % Modulus) + j) % Depth = ((out + 1) + j) % Depth
      BY <1>0, <1>2, WrapKeepsPlace, ZenonT(40)
    <2>3. (out + 1) + j = out + (i + 1) - 1
      BY <1>1, <2>1, LenIsAhead
    <2>4. ((out + 1) % Modulus) + j = out' + i - 1
      BY <1>3, <2>1, LenIsAhead
    <2> QED
      BY <2>2, <2>3, <2>4
  <1> QED
    BY <1>3, <1>4, <1>5

\* Alternation, place by place.
LEMMA AlternatePlaces ==
  Alternate <=> \A i \in 1..KLen : buffer[(out + i - 1) % Depth] % 2 = (phase + i - 1) % 2
  BY DEF Alternate, Contents

\* Steps that leave the fifo alone.
LEMMA FifoSame ==
  ASSUME UNCHANGED fifoVars
  PROVE  KLen' = KLen /\ (phase' = phase => (Alternate <=> Alternate'))
  BY DEF fifoVars, KLen, Alternate, Contents

\* The fifo after kfifo_reset.
LEMMA ResetFacts ==
  ASSUME KReset
  PROVE  KLen' = 0 /\ in' = 0 /\ out' = 0 /\ phase' = 0 /\ Alternate'
  <1>1. KLen' = 0
    BY IRAssumption DEF KReset, KLen
  <1> QED
    BY <1>1 DEF KReset, Alternate

-----------------------------------------------------------------------------
(* Steps. *)

\* The handler puts a frame.
LEMMA PutStep ==
  ASSUME IInv, frame # NoFrame, Put(WordsOf(frame)), Handled
  PROVE  FrameInv' /\ ReaderInv' /\ PairInv' /\ in' \in 0..Modulus - 1
         /\ out' \in 0..Modulus - 1 /\ KLen' \in 0..Depth /\ DOMAIN buffer' = 0..Depth - 1
  <1>0. frames \in Nat /\ MaxFrames \in Nat
    BY IRAssumption DEF IInv, TypeOK
  <1>1. PICK words \in Seq(Nat) : words = WordsOf(frame)
    BY <1>0, WordsFacts DEF IInv
  <1>2. /\ Len(words) \in 1..2 /\ (mode = "DOUBLE" => Len(words) = 2)
        /\ \A k \in 1..Len(words) : words[k] = 2 * frame.code + (k - 1)
    BY <1>0, <1>1, WordsFacts DEF IInv
  <1>3. PICK ws \in Seq(Nat) : ws = Fitting(words)
    BY FittingFacts DEF IInv
  <1>4. /\ Len(ws) \in 0..Len(words) /\ \A k \in 1..Len(ws) : ws[k] = words[k]
    BY <1>3, FittingFacts DEF IInv
  <1>5. Put(words)
    BY <1>1
  <1>6. /\ in' \in 0..Modulus - 1 /\ out' = out
        /\ KLen' = KLen + Len(ws) /\ KLen' \in 0..Depth
        /\ buffer' \in [0..Depth - 1 -> Nat]
        /\ \A i \in 1..KLen : buffer'[(out + i - 1) % Depth] = buffer[(out + i - 1) % Depth]
        /\ \A k \in 1..Len(ws) : buffer'[(out + (KLen + k) - 1) % Depth] = words[k]
    BY <1>3, <1>5, PutFacts DEF IInv
  <1>7. PICK c \in Nat : c = frame.code /\ c \in 1..frames
    BY <1>0 DEF IInv, FrameInv
  <1>8. FrameInv'
    <2>1. ASSUME NEW k \in 1..Len(ws)
          PROVE  ws[k] \div 2 = c
      <3>1. k \in 1..2 /\ ws[k] = 2 * c + (k - 1)
        <4>0. PICK a \in 1..2 : a = Len(words)
          BY <1>2
        <4>1. PICK b \in 0..a : b = Len(ws)
          BY <1>4, <4>0
        <4>2. k \in 1..b
          BY <4>1
        <4>3. k \in 1..2 /\ k \in 1..a
          BY <4>2
        <4> QED
          BY <1>2, <1>4, <1>7, <4>0, <4>3
      <3>2. CASE k = 1
        BY <3>1, <3>2
      <3>3. CASE k = 2
        BY <3>1, <3>3
      <3> QED
        BY <3>1, <3>2, <3>3
    <2>2. stored' \subseteq stored \cup {c}
      BY <1>3, <1>5, <2>1 DEF Put
    <2>3. stored \subseteq 1..frames /\ 0 \notin stored' /\ frames' = frames /\ frame' = NoFrame
      BY <1>0, <1>7, <2>2 DEF IInv, FrameInv, Handled
    <2> QED
      BY <1>0, <1>6, <1>7, <2>2, <2>3 DEF IInv, FrameInv, NoFrame, Handled
  <1>9. ReaderInv'
    <2> SUFFICES ASSUME NEW r \in Readers
                 PROVE  (/\ pc[r] = "get" => left[r] <= KLen
                         /\ pc[r] = "advance" => left[r] \in 1..KLen /\ word[r] = buffer[out % Depth]
                         /\ pc[r] = "copied" => left[r] \in 1..KLen + 1
                         /\ newMode # NoMode => pc[r] = "idle")'
      BY DEF ReaderInv
    <2>1. KLen' \in Nat /\ KLen \in Nat /\ KLen' >= KLen /\ left[r] \in Nat
      BY <1>4, <1>6, LenIsAhead DEF IInv, TypeOK
    <2>2. KLen >= 1 => buffer'[out % Depth] = buffer[out % Depth]
      <3>1. KLen >= 1 => 1 \in 1..KLen
        BY <2>1
      <3>a. KLen >= 1 => buffer'[(out + 1 - 1) % Depth] = buffer[(out + 1 - 1) % Depth]
        BY <1>6, <3>1
      <3>2. out + 1 - 1 = out
        BY DEF IInv, TypeOK
      <3> QED
        BY <3>a, <3>2
    <2>3. pc' = pc /\ left' = left /\ word' = word /\ newMode' = newMode
      BY DEF Handled, cfgVars
    <2> QED
      BY <1>6, <2>1, <2>2, <2>3 DEF IInv, ReaderInv
  <1>10. PairInv'
    <2>1. /\ phase' = phase /\ phase \in 0..1 /\ mode' = mode /\ newMode' = newMode
          /\ (~mixed' => ~mixed /\ newMode = NoMode)
          /\ (~split' => ~split /\ Len(ws) \in {0, Len(words)})
      BY <1>3, <1>5 DEF IInv, PairInv, Handled, cfgVars, Put
    <2>2. SUFFICES ASSUME ~mixed', ~split', newMode' = NoMode, mode' = "DOUBLE"
                   PROVE  Alternate' /\ ((phase + KLen) % 2 = 0)'
      BY <2>1 DEF PairInv
    <2>3. PICK L \in Nat : L = KLen
      BY LenIsAhead DEF IInv
    <2>4. Alternate /\ (phase + L) % 2 = 0 /\ Len(ws) \in {0, 2}
      BY <1>2, <2>1, <2>2, <2>3 DEF IInv, PairInv
    <2>5. KLen' = L + Len(ws)
      BY <1>6, <2>3
    <2>6. ASSUME NEW i \in 1..KLen'
          PROVE  buffer'[(out' + i - 1) % Depth] % 2 = (phase' + i - 1) % 2
      <3>1. CASE i <= L
        <4>1. buffer'[(out + i - 1) % Depth] = buffer[(out + i - 1) % Depth]
          BY <1>6, <2>3, <3>1
        <4>2. buffer[(out + i - 1) % Depth] % 2 = (phase + i - 1) % 2
          BY <2>3, <2>4, <3>1, AlternatePlaces
        <4> QED
          BY <1>6, <2>1, <4>1, <4>2
      <3>2. CASE i > L
        <4>0. i \in 1..L + Len(ws)
          BY <2>5
        <4>1. PICK k \in 1..2 : k = i - L /\ k <= Len(ws)
          <5>1. Len(ws) = 2
            BY <2>4, <3>2, <4>0
          <5>2. i - L \in 1..2 /\ i - L <= Len(ws)
            BY <3>2, <4>0, <5>1
          <5> QED
            BY <5>2
        <4>a. k \in 1..Len(ws) /\ k \in 1..Len(words)
          BY <1>4, <4>1
        <4>b. buffer'[(out + (L + k) - 1) % Depth] = words[k]
          BY <1>6, <2>3, <4>a
        <4>2. buffer'[(out + (L + k) - 1) % Depth] = 2 * c + (k - 1)
          BY <1>2, <1>7, <4>a, <4>b
        <4>3. (2 * c + (k - 1)) % 2 = (phase + (L + k) - 1) % 2
          BY <2>1, <2>4
        <4>4. L + k = i
          BY <4>1
        <4> QED
          BY <1>6, <2>1, <4>2, <4>3, <4>4
      <3> QED
        BY <2>3, <2>5, <3>1, <3>2
    <2>7. Alternate'
      BY <2>6 DEF Alternate, Contents
    <2>8. (phase + (L + Len(ws))) % 2 = 0
      <3>1. CASE Len(ws) = 0
        BY <2>4, <3>1
      <3>2. CASE Len(ws) = 2
        BY <2>1, <2>4, <3>2
      <3> QED
        BY <2>4, <3>1, <3>2
    <2> QED
      BY <2>1, <2>5, <2>7, <2>8
  <1> QED
    BY <1>6, <1>8, <1>9, <1>10 DEF IInv, TypeOK

\* The reader releases the word it copied.
LEMMA AdvanceStep ==
  ASSUME LoneReader, IInv, NEW r \in Readers, GetAdvance(r)
  PROVE  FrameInv' /\ ReaderInv' /\ PairInv' /\ out' \in 0..Modulus - 1 /\ KLen' \in 0..Depth
  <1>1. KLen >= 1 /\ left[r] \in 1..KLen /\ KLen \in Nat /\ KLen <= Depth
    BY LenIsAhead DEF IInv, ReaderInv, GetAdvance
  <1>2. out' = (out + 1) % Modulus /\ in' = in /\ buffer' = buffer
    BY DEF GetAdvance
  <1>3. /\ out' \in 0..Modulus - 1 /\ KLen' = KLen - 1
        /\ \A i \in 1..KLen - 1 :
             buffer'[(out' + i - 1) % Depth] = buffer[(out + (i + 1) - 1) % Depth]
    BY <1>1, <1>2, AdvanceFacts DEF IInv
  <1>4. FrameInv'
    BY <1>2 DEF IInv, FrameInv, GetAdvance, ReadFrame, hwVars
  <1>5. Readers = {r}
    BY DEF LoneReader
  <1>6. ReaderInv'
    <2>1. pc'[r] = "copied" /\ left' = left /\ newMode' = newMode /\ newMode = NoMode
      BY DEF IInv, TypeOK, ReaderInv, GetAdvance, Goto, ReadFrame, cfgVars
    <2> QED
      BY <1>1, <1>3, <1>5, <2>1 DEF ReaderInv
  <1>7. PairInv'
    <2>1. /\ phase \in 0..1 /\ phase' = (phase + 1) % 2 /\ mode' = mode /\ newMode' = newMode
          /\ mixed' = mixed /\ split' = split /\ newMode = NoMode
      BY DEF IInv, PairInv, ReaderInv, GetAdvance, ReadFrame, cfgVars
    <2>2. phase' \in 0..1
      BY <2>1
    <2>3. SUFFICES ASSUME ~mixed, ~split, mode = "DOUBLE"
                   PROVE  Alternate' /\ ((phase + KLen) % 2 = 0)'
      BY <2>1, <2>2 DEF PairInv
    <2>4. Alternate /\ (phase + KLen) % 2 = 0
      BY <2>1, <2>3 DEF IInv, PairInv
    <2>5. ASSUME NEW i \in 1..KLen'
          PROVE  buffer'[(out' + i - 1) % Depth] % 2 = (phase' + i - 1) % 2
      <3>1. i \in 1..KLen - 1 /\ i + 1 \in 1..KLen
        BY <1>1, <1>3
      <3>2. buffer'[(out' + i - 1) % Depth] = buffer[(out + (i + 1) - 1) % Depth]
        BY <1>3, <3>1
      <3>3. buffer[(out + (i + 1) - 1) % Depth] % 2 = (phase + (i + 1) - 1) % 2
        BY <2>4, <3>1, AlternatePlaces
      <3>4. (phase' + i - 1) % 2 = (phase + (i + 1) - 1) % 2
        BY <2>1, <3>1
      <3> QED
        BY <3>2, <3>3, <3>4
    <2>6. Alternate'
      BY <2>5 DEF Alternate, Contents
    <2>7. (phase' + (KLen - 1)) % 2 = 0
      BY <1>1, <2>1, <2>4
    <2> QED
      BY <1>3, <2>6, <2>7
  <1> QED
    BY <1>1, <1>3, <1>4, <1>6, <1>7, IRAssumption

\* The other steps of a read leave the fifo alone.
LEMMA ReadStep ==
  ASSUME LoneReader, IInv, NEW r \in Readers,
         \/ Read(r) /\ ~GetAdvance(r)
         \/ ReadInterrupted(r)
         \/ \E n \in ReadWords : ReadCall(r, n)
  PROVE  UNCHANGED fifoVars /\ FrameInv' /\ ReaderInv' /\ PairInv'
  <1>1. UNCHANGED <<fifoVars, ReadFrame, phase>>
    BY DEF Read, ReadInterrupted, ReadCall, ReadPeek, ReadPrepare, ReadTest, ReadResume,
           ReadClip, ReadCut, GetCopy, ReadCopied, ReadReturn
  <1>2. KLen' = KLen /\ (Alternate <=> Alternate') /\ KLen \in Nat
    BY <1>1, FifoSame, LenIsAhead DEF IInv
  <1>3. FrameInv'
    <2>1. DOMAIN word' = DOMAIN word
      BY DEF Read, ReadInterrupted, ReadCall, ReadPeek, ReadPrepare, ReadTest, ReadResume,
             ReadClip, ReadCut, GetCopy, ReadCopied, ReadReturn
    <2> QED
      BY <1>1, <2>1 DEF IInv, FrameInv, ReadFrame, fifoVars, hwVars
  <1>4. PairInv'
    BY <1>1, <1>2 DEF IInv, PairInv, ReadFrame, cfgVars
  <1>5. Readers = {r} /\ Exclusive
    BY DEF LoneReader
  <1>6. pc \in [Readers -> Labels] /\ left \in [Readers -> Nat]
    BY DEF IInv, TypeOK
  <1>7. /\ newMode' = newMode /\ out' = out /\ buffer' = buffer
        /\ (newMode # NoMode => pc[r] = "idle")
        /\ (pc[r] = "get" => left[r] <= KLen)
        /\ (pc[r] = "copied" => left[r] \in 1..KLen + 1)
    BY <1>1 DEF IInv, ReaderInv, ReadFrame, cfgVars, fifoVars
  <1>8. /\ pc'[r] = "get" => left'[r] <= KLen
        /\ pc'[r] = "advance" => left'[r] \in 1..KLen /\ word'[r] = buffer[out % Depth]
        /\ pc'[r] = "copied" => left'[r] \in 1..KLen + 1
        /\ newMode # NoMode => pc'[r] = "idle"
    <2>1. CASE ReadPeek(r) \/ ReadPrepare(r) \/ ReadTest(r) \/ ReadResume(r) \/ ReadReturn(r)
      BY <1>5, <1>6, <1>7, <2>1
      DEF ReadPeek, ReadPrepare, ReadTest, ReadResume, ReadReturn, Goto
    <2>2. CASE ReadClip(r)
      BY <1>2, <1>6, <1>7, <2>2 DEF ReadClip, Goto
    <2>3. CASE ReadCut(r)
      BY <1>2, <1>6, <1>7, <2>3 DEF ReadCut, Goto
    <2>4. CASE GetCopy(r)
      <3>1. DOMAIN word = Readers
        BY DEF IInv, FrameInv
      <3>2. CASE KLen > 0
        <4>1. word' = [word EXCEPT ![r] = buffer[out % Depth]] /\ pc'[r] = "advance"
          BY <1>6, <2>4, <3>2 DEF GetCopy, Goto
        <4>2. pc[r] = "get" /\ left[r] > 0 /\ left' = left
          BY <2>4 DEF GetCopy
        <4> QED
          BY <1>2, <1>6, <1>7, <3>1, <4>1, <4>2
      <3>3. CASE ~(KLen > 0)
        BY <1>2, <1>6, <1>7, <2>4, <3>3 DEF GetCopy
      <3> QED
        BY <3>2, <3>3
    <2>5. CASE ReadCopied(r)
      BY <1>2, <1>6, <1>7, <2>5 DEF ReadCopied, Goto
    <2>6. CASE ReadInterrupted(r)
      BY <1>6, <1>7, <2>6 DEF ReadInterrupted, Goto
    <2>7. CASE \E n \in ReadWords : ReadCall(r, n)
      BY <1>5, <1>6, <1>7, <2>7 DEF ReadCall, Goto
    <2> QED
      BY <2>1, <2>2, <2>3, <2>4, <2>5, <2>6, <2>7 DEF Read
  <1>9. ReaderInv'
    BY <1>2, <1>5, <1>7, <1>8 DEF ReaderInv
  <1> QED
    BY <1>1, <1>3, <1>4, <1>9

\* No frame at hand, or still the same one.
LEMMA SameFrame ==
  ASSUME FrameInv, frames \in Nat, UNCHANGED <<buffer, word, stored, frames>>,
         frame' \in {frame, NoFrame}
  PROVE  FrameInv'
  <1>1. CASE frame' = frame
    BY <1>1 DEF FrameInv
  <1>2. CASE frame' = NoFrame
    <2>1. 0 \notin stored
      BY DEF FrameInv
    <2>2. frame' \in [code : 0..frames, repeat : BOOLEAN] /\ frame'.code = 0
      BY <1>2 DEF NoFrame
    <2> QED
      BY <1>2, <2>1, <2>2 DEF FrameInv
  <1> QED
    BY <1>1, <1>2

\* kfifo_reset, between reads.
LEMMA ResetStep ==
  ASSUME LoneReader, IInv, Serial, KReset, UNCHANGED <<frames, readVars>>,
         frame' \in {frame, NoFrame},
         \/ UNCHANGED <<mode, newMode>>
         \/ UNCHANGED mode /\ newMode' # NoMode
  PROVE  FrameInv' /\ ReaderInv' /\ PairInv'
  <1>1. KLen' = 0 /\ in' = 0 /\ out' = 0 /\ phase' = 0 /\ Alternate'
    BY ResetFacts
  <1>2. FrameInv'
    <2>1. frames \in Nat /\ UNCHANGED <<buffer, word, stored, frames>>
      BY IRAssumption DEF IInv, TypeOK, KReset, readVars
    <2> QED
      BY <2>1, SameFrame DEF IInv
  <1>3. ReaderInv'
    <2>1. \A r \in Readers : pc'[r] = "idle"
      BY DEF LoneReader, Serial, readVars
    <2> QED
      BY <2>1 DEF ReaderInv
  <1>4. PairInv'
    <2>1. (phase + KLen)' = 0 /\ 0 % 2 = 0
      BY <1>1
    <2> QED
      BY <1>1, <2>1 DEF PairInv
  <1> QED
    BY <1>2, <1>3, <1>4

\* Steps that touch neither the fifo nor the reader nor what is known of them.
LEMMA QuietStep ==
  ASSUME IInv, UNCHANGED <<fifoVars, pc, left, word, mode, newMode, stored, split, mixed, phase>>,
         \/ UNCHANGED frames /\ frame' \in {frame, NoFrame}
         \/ frames' = frames + 1 /\ frame'.code = frames'
            /\ frame' \in [code : 0..frames', repeat : BOOLEAN]
  PROVE  FrameInv' /\ ReaderInv' /\ PairInv'
  <1>1. KLen' = KLen /\ (Alternate <=> Alternate')
    BY FifoSame
  <1>2. frames \in Nat
    BY IRAssumption DEF IInv, TypeOK
  <1>3. FrameInv'
    <2>1. buffer' = buffer /\ word' = word /\ stored' = stored
      BY DEF fifoVars
    <2>2. CASE UNCHANGED frames /\ frame' \in {frame, NoFrame}
      BY <1>2, <2>1, <2>2, SameFrame DEF IInv
    <2>3. CASE frames' = frames + 1 /\ frame'.code = frames'
               /\ frame' \in [code : 0..frames', repeat : BOOLEAN]
      <3>1. stored \subseteq 1..frames' /\ frame'.code \notin stored /\ frame'.code # 0
        BY <1>2, <2>3 DEF IInv, FrameInv
      <3> QED
        BY <2>1, <2>3, <3>1 DEF IInv, FrameInv
    <2> QED
      BY <2>2, <2>3
  <1>4. ReaderInv'
    BY <1>1 DEF IInv, ReaderInv, fifoVars
  <1>5. PairInv'
    BY <1>1 DEF IInv, PairInv
  <1> QED
    BY <1>3, <1>4, <1>5

\* The initial states.
LEMMA InitIInv == Init => IInv
  <1> SUFFICES ASSUME Init PROVE IInv
    OBVIOUS
  <1>1. KLen = 0
    BY IRAssumption DEF Init, KLen
  <1>2. TypeOK
    <2>1. DOMAIN buffer = 0..Depth - 1 /\ frames \in 0..MaxFrames
      BY IRAssumption DEF Init
    <2>2. in \in 0..Modulus - 1 /\ out \in 0..Modulus - 1 /\ KLen \in 0..Depth
      BY <1>1, IRAssumption DEF Init
    <2>3. pc \in [Readers -> Labels] /\ left \in [Readers -> Nat]
      BY DEF Init, Labels
    <2> QED
      BY <2>1, <2>2, <2>3 DEF Init, TypeOK
  <1>3. FrameInv
    BY DEF Init, FrameInv, NoFrame
  <1>4. ReaderInv
    BY DEF Init, ReaderInv
  <1>5. PairInv
    BY DEF Init, PairInv
  <1> QED
    BY <1>2, <1>3, <1>4, <1>5 DEF IInv

\* Every step keeps the invariant.
LEMMA NextIInv == LoneReader /\ IInv /\ [Next]_vars => IInv'
  <1> SUFFICES ASSUME LoneReader, IInv, [Next]_vars PROVE IInv'
    OBVIOUS
  <1>t. /\ TypeOK /\ KLen \in 0..Depth /\ in \in 0..Modulus - 1 /\ out \in 0..Modulus - 1
        /\ DOMAIN buffer = 0..Depth - 1 /\ frames \in 0..MaxFrames
        /\ pc \in [Readers -> Labels] /\ left \in [Readers -> Nat] /\ asleep \subseteq Readers
    BY DEF IInv, TypeOK
  <1>k. KLen \in Nat /\ KLen <= Depth
    BY LenIsAhead DEF IInv
  <1>1. CASE IsrIgnore
    <2>1. FrameInv' /\ ReaderInv' /\ PairInv'
      BY <1>1, QuietStep DEF IsrIgnore, Handled, cfgVars
    <2>2. KLen' = KLen
      BY <1>1, FifoSame DEF IsrIgnore
    <2> QED
      BY <1>1, <2>1, <2>2 DEF IInv, TypeOK, IsrIgnore, Handled, cfgVars, fifoVars
  <1>2. CASE IsrReceive
    <2>1. FrameInv' /\ ReaderInv' /\ PairInv' /\ in' \in 0..Modulus - 1
         /\ out' \in 0..Modulus - 1 /\ KLen' \in 0..Depth /\ DOMAIN buffer' = 0..Depth - 1
      BY <1>2, PutStep DEF IsrReceive
    <2> QED
      BY <1>2, <2>1 DEF IInv, TypeOK, IsrReceive, Handled, Wake, cfgVars
  <1>3. CASE IsrRaw
    <2>1. CASE frame # NoFrame /\ Put(WordsOf(frame))
      <3>1. FrameInv' /\ ReaderInv' /\ PairInv' /\ in' \in 0..Modulus - 1
           /\ out' \in 0..Modulus - 1 /\ KLen' \in 0..Depth /\ DOMAIN buffer' = 0..Depth - 1
        BY <1>3, <2>1, PutStep DEF IsrRaw
      <3> QED
        BY <1>3, <3>1 DEF IInv, TypeOK, IsrRaw, Handled, cfgVars
    <2>2. CASE UNCHANGED <<fifoVars, stored, split, mixed, silent>>
      <3>1. FrameInv' /\ ReaderInv' /\ PairInv'
        BY <1>3, <2>2, QuietStep DEF IsrRaw, Handled, cfgVars
      <3>2. KLen' = KLen
        BY <2>2, FifoSame
      <3> QED
        BY <1>3, <2>2, <3>1, <3>2 DEF IInv, TypeOK, IsrRaw, Handled, cfgVars, fifoVars
    <2> QED
      BY <1>3, <2>1, <2>2 DEF IsrRaw
  <1>4. ASSUME NEW repeat \in BOOLEAN, Frame(repeat)
        PROVE  IInv'
    <2>1. frames' \in 0..MaxFrames /\ frames' = frames + 1 /\ frames \in Nat
      BY <1>4, <1>t, IRAssumption DEF Frame
    <2>2. frame'.code = frames' /\ frame' \in [code : 0..frames', repeat : BOOLEAN]
      BY <1>4, <2>1 DEF Frame
    <2>3. FrameInv' /\ ReaderInv' /\ PairInv'
      BY <1>4, <2>1, <2>2, QuietStep DEF Frame, cfgVars, readVars, histVars
    <2>4. KLen' = KLen
      BY <1>4, FifoSame DEF Frame
    <2> QED
      BY <1>4, <2>1, <2>3, <2>4 DEF IInv, TypeOK, Frame, cfgVars, readVars, fifoVars
  <1>5. CASE Tick
    <2>1. FrameInv' /\ ReaderInv' /\ PairInv'
      BY <1>5, QuietStep DEF Tick, cfgVars, readVars, histVars, hwVars
    <2>2. KLen' = KLen
      BY <1>5, FifoSame DEF Tick
    <2> QED
      BY <1>5, <2>1, <2>2 DEF IInv, TypeOK, Tick, cfgVars, readVars, hwVars, fifoVars
  <1>6. ASSUME NEW r \in Readers, GetAdvance(r)
        PROVE  IInv'
    <2>1. FrameInv' /\ ReaderInv' /\ PairInv' /\ out' \in 0..Modulus - 1 /\ KLen' \in 0..Depth
      BY <1>6, AdvanceStep
    <2>2. pc' \in [Readers -> Labels]
      BY <1>6, <1>t DEF GetAdvance, Goto, Labels
    <2> QED
      BY <1>6, <2>1, <2>2 DEF IInv, TypeOK, GetAdvance, ReadFrame, cfgVars, hwVars
  <1>7. ASSUME NEW r \in Readers,
               \/ Read(r) /\ ~GetAdvance(r)
               \/ ReadInterrupted(r)
               \/ \E n \in ReadWords : ReadCall(r, n)
        PROVE  IInv'
    <2>1. UNCHANGED fifoVars /\ FrameInv' /\ ReaderInv' /\ PairInv'
      BY <1>7, ReadStep
    <2>2. KLen' = KLen
      BY <2>1, FifoSame
    <2>3. pc' \in [Readers -> Labels] /\ asleep' \subseteq Readers
      BY <1>7, <1>t DEF Read, ReadInterrupted, ReadCall, ReadPeek, ReadPrepare, ReadTest,
         ReadResume, ReadClip, ReadCut, GetCopy, ReadCopied, ReadReturn, Goto, Labels
    <2>4. left' \in [Readers -> Nat]
      <3>1. CASE ReadCopied(r)
        <4>1. left[r] \in Nat /\ left[r] >= 1
          BY <3>1, <1>t, <1>k DEF ReadCopied, IInv, ReaderInv
        <4> QED
          BY <3>1, <4>1, <1>t DEF ReadCopied
      <3>2. CASE ReadCut(r)
        BY <3>2, <1>t, <1>k DEF ReadCut
      <3>3. CASE \E n \in ReadWords : ReadCall(r, n)
        BY <3>3, <1>t, IRAssumption DEF ReadCall
      <3>4. CASE ReadInterrupted(r)
        BY <3>4, <1>t DEF ReadInterrupted
      <3>5. CASE ReadPeek(r) \/ ReadPrepare(r) \/ ReadTest(r) \/ ReadResume(r) \/ ReadClip(r)
                 \/ GetCopy(r) \/ ReadReturn(r)
        BY <3>5, <1>t DEF ReadPeek, ReadPrepare, ReadTest, ReadResume, ReadClip, GetCopy,
           ReadReturn
      <3> QED
        BY <1>7, <3>1, <3>2, <3>3, <3>4, <3>5 DEF Read
    <2>5. UNCHANGED <<cfgVars, hwVars>>
      BY <1>7 DEF Read, ReadInterrupted, ReadCall, ReadPeek, ReadPrepare, ReadTest,
         ReadResume, ReadClip, ReadCut, GetCopy, ReadCopied, ReadReturn, ReadFrame
    <2> QED
      BY <2>1, <2>2, <2>3, <2>4, <2>5 DEF IInv, TypeOK, fifoVars, cfgVars, hwVars
  <1>m. Modulus \in Nat /\ Modulus > 0 /\ Depth \in Nat
    BY IRAssumption
  <1>r. ASSUME KReset
        PROVE  in' \in 0..Modulus - 1 /\ out' \in 0..Modulus - 1 /\ KLen' \in 0..Depth
               /\ DOMAIN buffer' = 0..Depth - 1
    <2>1. in' = 0 /\ out' = 0 /\ KLen' = 0
      BY <1>r, ResetFacts
    <2>2. buffer' = buffer
      BY <1>r DEF KReset
    <2> QED
      BY <1>m, <1>t, <2>1, <2>2
  <1>8. CASE Open
    <2>1. FrameInv' /\ ReaderInv' /\ PairInv'
      BY <1>8, ResetStep DEF Open, cfgVars, hwVars
    <2> QED
      BY <1>8, <1>r, <2>1 DEF IInv, TypeOK, Open, cfgVars, hwVars, readVars
  <1>9. ASSUME NEW p \in Protocols, SetProtocol(p)
        PROVE  IInv'
    <2>1. FrameInv' /\ ReaderInv' /\ PairInv'
      BY <1>9, ResetStep DEF SetProtocol
    <2>2. protocol' \in {"NEC", "RAW_NEC"}
      BY <1>9, IRAssumption DEF SetProtocol
    <2>3. KReset
      BY <1>9 DEF SetProtocol
    <2> QED
      BY <1>9, <1>r, <2>1, <2>2, <2>3 DEF IInv, TypeOK, SetProtocol, readVars
  <1>10. ASSUME NEW p \in Protocols, SetProtocolRefused(p)
         PROVE  IInv'
    <2>1. FrameInv' /\ ReaderInv' /\ PairInv'
      BY <1>10, QuietStep DEF SetProtocolRefused, readVars, hwVars, histVars
    <2>2. KLen' = KLen
      BY <1>10, FifoSame DEF SetProtocolRefused
    <2>3. protocol' \in {"NEC", "RAW_NEC"}
      BY <1>10, IRAssumption DEF SetProtocolRefused
    <2> QED
      BY <1>10, <2>1, <2>2, <2>3 DEF IInv, TypeOK, SetProtocolRefused, readVars, hwVars, fifoVars
  <1>11. ASSUME NEW m \in Modes, SetModeReset(m)
         PROVE  IInv'
    <2>0. m # NoMode
      BY IRAssumption DEF NoMode
    <2>1. FrameInv' /\ ReaderInv' /\ PairInv'
      BY <1>11, <2>0, ResetStep DEF SetModeReset, hwVars
    <2>2. KReset
      BY <1>11 DEF SetModeReset
    <2> QED
      BY <1>11, <1>r, <2>1, <2>2 DEF IInv, TypeOK, SetModeReset, hwVars, readVars
  <1>12. CASE SetModeStore
    <2>1. KLen' = KLen /\ (Alternate <=> Alternate')
      BY <1>12, FifoSame DEF SetModeStore, histVars
    <2>2. FrameInv' /\ ReaderInv'
      BY <1>12, <2>1 DEF IInv, FrameInv, ReaderInv, SetModeStore, fifoVars, readVars, hwVars, histVars
    <2>3. PairInv'
      <3>1. phase' = phase /\ mixed' = mixed /\ newMode # NoMode /\ newMode' = NoMode
        BY <1>12 DEF SetModeStore, histVars
      <3>2. ~mixed => KLen = 0 /\ phase = 0
        BY <3>1 DEF IInv, PairInv
      <3>3. KLen = 0 => Alternate
        BY DEF Alternate
      <3>4. (0 + 0) % 2 = 0
        OBVIOUS
      <3> QED
        BY <2>1, <3>1, <3>2, <3>3, <3>4 DEF IInv, PairInv
    <2>4. mode' \in {"SINGLE", "DOUBLE"} /\ newMode' \in Modes \cup {NoMode}
      BY <1>12, IRAssumption DEF SetModeStore, IInv, TypeOK, NoMode
    <2> QED
      BY <1>12, <2>1, <2>2, <2>3, <2>4 DEF IInv, TypeOK, SetModeStore, readVars, hwVars, fifoVars
  <1>13. CASE Suspend \/ Resume
    <2>0. frame' \in {frame, NoFrame}
      BY <1>13 DEF Suspend, Resume, Flushed
    <2>1. FrameInv' /\ ReaderInv' /\ PairInv'
      BY <1>13, <2>0, QuietStep DEF Suspend, Resume, cfgVars, readVars, histVars
    <2>2. KLen' = KLen
      BY <1>13, FifoSame DEF Suspend, Resume
    <2> QED
      BY <1>13, <2>1, <2>2 DEF IInv, TypeOK, Suspend, Resume, cfgVars, readVars, fifoVars
  <1>14. CASE UNCHANGED vars
    <2>1. FrameInv' /\ ReaderInv' /\ PairInv'
      BY <1>14, QuietStep DEF vars, cfgVars, readVars, histVars, hwVars
    <2>2. KLen' = KLen
      BY <1>14, FifoSame DEF vars
    <2> QED
      BY <1>14, <2>1, <2>2 DEF IInv, TypeOK, vars, cfgVars, readVars, hwVars, fifoVars
  <1>15. ASSUME NEW d \in Debounces, SetDebounce(d)
         PROVE  IInv'
    <2>1. FrameInv' /\ ReaderInv' /\ PairInv'
      BY <1>15, QuietStep DEF SetDebounce, readVars, hwVars, histVars
    <2>2. KLen' = KLen
      BY <1>15, FifoSame DEF SetDebounce
    <2> QED
      BY <1>15, <2>1, <2>2 DEF IInv, TypeOK, SetDebounce, readVars, hwVars, fifoVars
  <1> QED
    BY <1>1, <1>2, <1>3, <1>4, <1>5, <1>6, <1>7, <1>8, <1>9, <1>10, <1>11, <1>12, <1>13, <1>14,
       <1>15
    DEF Next, Interrupt, Configure

\* The invariant holds throughout.
LEMMA Invariance ==
  ASSUME LoneReader
  PROVE  Spec => []IInv
  <1>1. Init => IInv
    BY InitIInv
  <1>2. IInv /\ [Next]_vars => IInv'
    BY NextIInv
  <1> QED
    BY <1>1, <1>2, PTL DEF Spec

-----------------------------------------------------------------------------
(* Theorems. *)

\* Types, and the kfifo never holds more words than its buffer, although the
\* counters wrap (kfifo.c: __kfifo_put, __kfifo_get).
THEOREM TypeCorrect ==
  ASSUME LoneReader
  PROVE  Spec => []TypeOK
  <1>1. IInv => TypeOK
    BY DEF IInv
  <1> QED
    BY <1>1, Invariance, PTL

\* venus_ir_read finds a word each time it asks __kfifo_get for one, whatever
\* the handler puts between the measuring and the getting.
THEOREM ReadFindsWords ==
  ASSUME LoneReader
  PROVE  Spec => []GetFindsWord
  <1>1. IInv => GetFindsWord
    <2> SUFFICES ASSUME IInv, NEW r \in Readers, pc[r] = "get", left[r] > 0
                 PROVE  KLen > 0
      BY DEF GetFindsWord
    <2>1. left[r] \in Nat /\ left[r] <= KLen /\ KLen \in Nat
      BY LenIsAhead DEF IInv, TypeOK, ReaderInv
    <2> QED
      BY <2>1
  <1> QED
    BY <1>1, Invariance, PTL

\* In the double-word mode codes and repeat flags alternate, unless a put found
\* room for one word only or a frame came within a change of mode.
THEOREM PairsKept ==
  ASSUME LoneReader
  PROVE  Spec => []PairsTornOnlyWhenFull
  <1>1. IInv => PairsTornOnlyWhenFull
    BY DEF IInv, PairInv, PairsTornOnlyWhenFull
  <1> QED
    BY <1>1, Invariance, PTL

-----------------------------------------------------------------------------
(* The kfifo implements the abstract queue. *)

\* n words of a buffer from the counter o on, as parts of frames.
Cells(b, o, n) == [i \in 1..n |-> Cell(b[(o + i - 1) % Depth])]

Pairs == Int \X Int

\* What was read are parts of frames.
ReadInv == delivered \in Seq(Pairs)

\* The queue before and after a step.
LEMMA QueueIsCells ==
  /\ Queue = Cells(buffer, out, KLen)
  /\ Queue' = Cells(buffer', out', KLen')
  BY DEF Queue, Contents, Cells

\* Numbers are split into pairs.
LEMMA CellIsPair ==
  ASSUME NEW w \in Nat
  PROVE  Cell(w) \in Pairs
  BY DEF Cell, Pairs

\* The queue is a sequence.
LEMMA CellsIsSeq ==
  ASSUME NEW b \in [0..Depth - 1 -> Nat], NEW o \in Nat, NEW n \in Nat
  PROVE  /\ Cells(b, o, n) \in [1..n -> Pairs]
         /\ Cells(b, o, n) \in Seq(Pairs) /\ Len(Cells(b, o, n)) = n
         /\ \A i \in 1..n : Cells(b, o, n)[i] = Cell(b[(o + i - 1) % Depth])
  <1>1. ASSUME NEW i \in 1..n PROVE Cell(b[(o + i - 1) % Depth]) \in Pairs
    <2>1. o + i - 1 \in Int
      OBVIOUS
    <2>2. (o + i - 1) % Depth \in 0..Depth - 1
      BY <2>1, ModRange, IRAssumption
    <2> QED
      BY <2>2, CellIsPair
  <1>2. /\ Cells(b, o, n) \in [1..n -> Pairs]
        /\ \A i \in 1..n : Cells(b, o, n)[i] = Cell(b[(o + i - 1) % Depth])
    BY <1>1 DEF Cells
  <1> QED
    BY <1>2, FunctionIsSeq

\* The handler adds the words of one frame, those that fit, or nothing.
LEMMA PutRefines ==
  ASSUME IInv, frame # NoFrame, Put(WordsOf(frame)), Handled
  PROVE  [Fifo!FifoNext]_Fifo!fifoVars
  <1>0. frames \in 0..MaxFrames /\ MaxFrames \in Nat /\ Depth \in Nat /\ out \in Nat
        /\ buffer \in [0..Depth - 1 -> Nat]
    BY IRAssumption DEF IInv, TypeOK, FrameInv
  <1>1. PICK words \in Seq(Nat) : words = WordsOf(frame)
    BY <1>0, WordsFacts DEF IInv
  <1>2. /\ Len(words) \in 1..2
        /\ \A k \in 1..Len(words) : words[k] = 2 * frame.code + (k - 1)
    BY <1>0, <1>1, WordsFacts DEF IInv
  <1>3. PICK ws \in Seq(Nat) : ws = Fitting(words)
    BY FittingFacts DEF IInv
  <1>4. /\ Len(ws) \in 0..Len(words) /\ \A k \in 1..Len(ws) : ws[k] = words[k]
    BY <1>3, FittingFacts DEF IInv
  <1>5. Put(words)
    BY <1>1
  <1>6. PICK L \in Nat : L = KLen
    BY LenIsAhead DEF IInv
  <1>7. PICK a \in 1..2 : a = Len(words)
    BY <1>2
  <1>8. PICK n \in 0..a : n = Len(ws)
    BY <1>4, <1>7
  <1>9. /\ out' = out /\ KLen' = L + n /\ L + n <= Depth
        /\ buffer' \in [0..Depth - 1 -> Nat]
        /\ \A i \in 1..L : buffer'[(out + i - 1) % Depth] = buffer[(out + i - 1) % Depth]
        /\ \A k \in 1..n : buffer'[(out + (L + k) - 1) % Depth] = words[k]
    <2>1. /\ out' = out /\ KLen' = KLen + Len(Fitting(words)) /\ KLen' \in 0..Depth
          /\ buffer' \in [0..Depth - 1 -> Nat]
          /\ \A i \in 1..KLen : buffer'[(out + i - 1) % Depth] = buffer[(out + i - 1) % Depth]
          /\ \A k \in 1..Len(Fitting(words)) :
               buffer'[(out + (KLen + k) - 1) % Depth] = words[k]
      BY <1>5, PutFacts DEF IInv
    <2> QED
      BY <1>0, <1>3, <1>6, <1>8, <2>1
  <1>10. PICK c \in Nat : c = frame.code /\ c \in 1..MaxFrames /\ c \notin stored
    BY <1>0 DEF IInv, FrameInv
  <1>11. ASSUME NEW k \in 1..n
         PROVE  /\ ws[k] \div 2 = c /\ words[k] = 2 * c + (k - 1) /\ k \in 1..2
                /\ Cell(words[k]) = <<c, k - 1>>
    <2>1. k \in 1..2 /\ k \in 1..a
      OBVIOUS
    <2>2. words[k] = 2 * c + (k - 1) /\ ws[k] = words[k]
      BY <1>2, <1>4, <1>7, <1>8, <1>10, <2>1
    <2>3. CASE k = 1
      BY <2>2, <2>3 DEF Cell
    <2>4. CASE k = 2
      BY <2>2, <2>4 DEF Cell
    <2> QED
      BY <2>1, <2>2, <2>3, <2>4
  <1>12. UNCHANGED delivered
    BY DEF Handled
  <1>13. PICK q \in Seq(Pairs) :
           q = Queue /\ Len(q) = L /\ \A i \in 1..L : q[i] = Cell(buffer[(out + i - 1) % Depth])
    <2>1. Queue = Cells(buffer, out, L)
      BY <1>6, QueueIsCells
    <2>2. /\ Cells(buffer, out, L) \in Seq(Pairs) /\ Len(Cells(buffer, out, L)) = L
          /\ \A i \in 1..L : Cells(buffer, out, L)[i] = Cell(buffer[(out + i - 1) % Depth])
      BY <1>0, CellsIsSeq
    <2> QED
      BY <2>1, <2>2
  <1>14. Len(q) = L /\ \A i \in 1..L : q[i] = Cell(buffer[(out + i - 1) % Depth])
    BY <1>13
  <1>15. Queue' = Cells(buffer', out, L + n)
    BY <1>9, QueueIsCells
  <1>16. PICK f \in Seq(Pairs) : f = Queue'
    <2>1. L + n \in Nat
      OBVIOUS
    <2> QED
      BY <1>0, <1>9, <1>15, <2>1, CellsIsSeq
  <1>17. Len(f) = L + n /\ \A i \in 1..L + n : f[i] = Cell(buffer'[(out + i - 1) % Depth])
    <2>1. L + n \in Nat
      OBVIOUS
    <2> QED
      BY ZenonT(30), <1>0, <1>9, <1>15, <1>16, <2>1, CellsIsSeq
  <1>18. PICK g \in Seq(Pairs) : g = Fifo!Words(c, n) /\ Len(g) = n
                                  /\ \A k \in 1..n : g[k] = <<c, k - 1>>
    <2>1. /\ Fifo!Words(c, n) \in [1..n -> Pairs]
          /\ \A k \in 1..n : Fifo!Words(c, n)[k] = <<c, k - 1>>
      BY DEF Fifo!Words, Pairs
    <2> QED
      BY <2>1, FunctionIsSeq
  <1>19. f = q \o g
    <2>1. /\ q \o g \in Seq(Pairs) /\ Len(q \o g) = L + n
          /\ \A i \in 1..L + n : (q \o g)[i] = IF i <= L THEN q[i] ELSE g[i - L]
      <3>1. /\ q \o g \in Seq(Pairs) /\ Len(q \o g) = Len(q) + Len(g)
            /\ \A i \in 1..Len(q) + Len(g) :
                 (q \o g)[i] = IF i <= Len(q) THEN q[i] ELSE g[i - Len(q)]
        BY ConcatProperties
      <3> QED
        BY <1>14, <1>18, <3>1
    <2>2. ASSUME NEW i \in 1..L + n PROVE f[i] = (q \o g)[i]
      <3>1. f[i] = Cell(buffer'[(out + i - 1) % Depth])
        BY <1>17
      <3>2. CASE i <= L
        <4>1. i \in 1..L
          BY <3>2
        <4>2. f[i] = q[i]
          BY <1>9, <1>14, <3>1, <4>1
        <4> QED
          BY <2>1, <3>2, <4>2
      <3>3. CASE ~(i <= L)
        <4>1. PICK k \in 1..n : k = i - L
          BY <3>3
        <4>2. i = L + k
          BY <4>1
        <4>3. f[i] = Cell(words[k])
          BY <1>9, <3>1, <4>2
        <4>4. f[i] = g[k]
          BY <1>11, <1>18, <4>3
        <4> QED
          BY <2>1, <3>3, <4>1, <4>4
      <3> QED
        BY <3>2, <3>3
    <2> QED
      BY <1>17, <2>1, <2>2, SeqEqual
  <1>20. stored' = stored \cup {ws[k] \div 2 : k \in 1..n}
    BY <1>3, <1>5, <1>8 DEF Put
  <1>21. CASE n = 0
    <2>1. stored' = stored
      BY <1>20, <1>21
    <2>2. f = q
      <3>1. Len(f) = L /\ \A i \in 1..L : f[i] = Cell(buffer'[(out + i - 1) % Depth])
        BY <1>17, <1>21
      <3>2. \A i \in 1..L : f[i] = q[i]
        BY <1>9, <1>14, <3>1
      <3>3. Len(f) = Len(q) /\ \A i \in 1..Len(f) : f[i] = q[i]
        BY <1>14, <3>1, <3>2, Zenon
      <3> QED
        BY <3>3, SeqEqual, Zenon
    <2> QED
      BY <1>12, <1>13, <1>16, <2>1, <2>2 DEF Fifo!fifoVars
  <1>22. CASE n # 0
    <2>1. 1 \in 1..n
      BY <1>22
    <2>2. stored' = stored \cup {c}
      BY <1>11, <1>20, <2>1
    <2>3. Len(q) + n < Depth + 1 /\ n \in 0..Depth + 1
      BY <1>0, <1>9, <1>14
    <2>4. Fifo!Write(c, n)
      BY <1>10, <1>12, <1>13, <1>16, <1>18, <1>19, <2>2, <2>3 DEF Fifo!Write
    <2> QED
      BY <1>10, <2>3, <2>4 DEF Fifo!FifoNext
  <1> QED
    BY <1>21, <1>22

\* A get takes the head of the queue.
LEMMA GetRefines ==
  ASSUME IInv, ReadInv, NEW r \in Readers, GetAdvance(r)
  PROVE  Fifo!FifoNext /\ ReadInv'
  <1>0. /\ buffer \in [0..Depth - 1 -> Nat] /\ out \in Nat /\ Depth \in Nat \ {0}
        /\ delivered \in Seq(Pairs)
    BY IRAssumption DEF IInv, TypeOK, FrameInv, ReadInv
  <1>1. KLen >= 1 /\ KLen \in Nat /\ word[r] = buffer[out % Depth]
    BY LenIsAhead DEF IInv, ReaderInv, GetAdvance
  <1>2. /\ out' = (out + 1) % Modulus /\ in' = in /\ buffer' = buffer
        /\ delivered' = Append(delivered, Cell(word[r])) /\ UNCHANGED stored
    BY DEF GetAdvance, ReadFrame
  <1>3. /\ out' \in Nat /\ KLen' = KLen - 1
        /\ \A i \in 1..KLen - 1 :
             buffer'[(out' + i - 1) % Depth] = buffer[(out + (i + 1) - 1) % Depth]
    BY <1>1, <1>2, AdvanceFacts DEF IInv
  <1>4. PICK n \in Nat : KLen = n + 1
    BY <1>1
  <1>5. PICK q \in [1..n + 1 -> Pairs] : q = Queue
    BY <1>0, <1>1, <1>4, QueueIsCells, CellsIsSeq
  <1>6. \A i \in 1..n + 1 : q[i] = Cell(buffer[(out + i - 1) % Depth])
    BY <1>4, <1>5, QueueIsCells DEF Cells
  <1>7. Queue' = Cells(buffer', out', n)
    BY <1>3, <1>4, QueueIsCells
  <1>8. PICK f \in [1..n -> Pairs] : f = Queue'
    BY <1>0, <1>2, <1>3, <1>7, CellsIsSeq
  <1>9. \A i \in 1..n : f[i] = Cell(buffer'[(out' + i - 1) % Depth])
    BY <1>7, <1>8 DEF Cells
  <1>10. ASSUME NEW i \in 1..n PROVE f[i] = q[1 + i]
    <2>1. i \in 1..KLen - 1 /\ i + 1 \in 1..n + 1 /\ i + 1 = 1 + i
      BY <1>4
    <2>2. f[i] = Cell(buffer[(out + (i + 1) - 1) % Depth])
      BY <1>3, <1>9, <2>1
    <2>3. q[i + 1] = Cell(buffer[(out + (i + 1) - 1) % Depth])
      BY <1>6, <2>1
    <2> QED
      BY <2>1, <2>2, <2>3
  <1>11. q \in Seq(Pairs) /\ Len(q) = n + 1
    BY FunctionIsSeq
  <1>12. f = SubSeq(q, 1 + 1, Len(q))
    <2>1. 1 + n <= n + 1 /\ n + 1 \in Nat /\ 1 + n = n + 1
      OBVIOUS
    <2>2. f = SubSeq(q, 1 + 1, 1 + n)
      BY <1>10, <2>1, SubSeqByElements
    <2> QED
      BY <1>11, <2>1, <2>2
  <1>13. Cell(word[r]) \in Pairs /\ q[1] = Cell(word[r])
    <2>1. out + 1 - 1 = out
      BY <1>0
    <2>2. 1 \in 1..n + 1
      OBVIOUS
    <2>3. q[1] = Cell(buffer[(out + 1 - 1) % Depth])
      BY <1>6, <2>2
    <2>4. q[1] \in Pairs
      BY <2>2
    <2> QED
      BY <1>1, <2>1, <2>3, <2>4
  <1>14. delivered' = delivered \o SubSeq(q, 1, 1)
    <2>1. SubSeq(q, 1, 1) = <<q[1]>>
      <3>1. \A i \in 1..1 : q[i] \in Pairs
        OBVIOUS
      <3>2. /\ SubSeq(q, 1, 1) \in Seq(Pairs) /\ Len(SubSeq(q, 1, 1)) = 1
            /\ \A i \in 1..1 : SubSeq(q, 1, 1)[i] = q[1 + i - 1]
        BY <3>1, SubSeqProperties
      <3>3. SubSeq(q, 1, 1)[1] = q[1]
        BY <3>2
      <3>4. /\ <<q[1]>> \in Seq(Pairs) /\ Len(<<q[1]>>) = 1 /\ <<q[1]>>[1] = q[1]
        BY <1>13
      <3>5. \A i \in 1..1 : SubSeq(q, 1, 1)[i] = <<q[1]>>[i]
        BY <3>3, <3>4
      <3> QED
        BY <3>2, <3>4, <3>5, SeqEqual
    <2>2. Append(delivered, q[1]) = delivered \o <<q[1]>>
      BY <1>0, <1>13
    <2> QED
      BY <1>2, <1>13, <2>1, <2>2
  <1>15. Fifo!Read(1)
    BY <1>2, <1>5, <1>8, <1>12, <1>14 DEF Fifo!Read
  <1>16. 1 \in 0..Len(Queue)
    BY <1>5, <1>11
  <1>17. ReadInv'
    BY <1>0, <1>2, <1>13 DEF ReadInv
  <1> QED
    BY <1>15, <1>16, <1>17 DEF Fifo!FifoNext

\* Every other step leaves the queue alone or empties it.
LEMMA OthersRefine ==
  ASSUME IInv, [Next]_vars, \A r \in Readers : ~GetAdvance(r),
         ~(frame # NoFrame /\ Put(WordsOf(frame)) /\ Handled)
  PROVE  [Fifo!FifoNext]_Fifo!fifoVars /\ UNCHANGED delivered
  <1>1. ASSUME KReset PROVE Fifo!Reset /\ UNCHANGED delivered
    <2>1. KLen' = 0
      BY <1>1, ResetFacts
    <2>2. Queue' = << >>
      BY <2>1 DEF Queue
    <2> QED
      BY <1>1, <2>2 DEF KReset, Fifo!Reset
  <1>2. ASSUME UNCHANGED <<fifoVars, delivered, stored>>
        PROVE  UNCHANGED <<Queue, delivered, stored>>
    <2>1. Queue' = Queue
      BY <1>2 DEF Queue, Contents, KLen, fifoVars
    <2> QED
      BY <1>2, <2>1
  <1>3. CASE IsrIgnore \/ IsrRaw \/ IsrReceive
    <2>1. UNCHANGED <<fifoVars, delivered, stored>>
      BY <1>3 DEF IsrIgnore, IsrRaw, IsrReceive, Handled
    <2> QED
      BY <1>2, <2>1 DEF Fifo!fifoVars
  <1>4. CASE \E repeat \in BOOLEAN : Frame(repeat)
    BY <1>2, <1>4 DEF Frame, histVars, Fifo!fifoVars
  <1>5. CASE Tick
    BY <1>2, <1>5 DEF Tick, histVars, Fifo!fifoVars
  <1>6. ASSUME NEW r \in Readers,
               Read(r) \/ ReadInterrupted(r) \/ \E n \in ReadWords : ReadCall(r, n)
        PROVE  UNCHANGED <<Queue, delivered, stored>>
    <2>1. UNCHANGED <<fifoVars, delivered, stored>>
      BY <1>6 DEF Read, ReadInterrupted, ReadCall, ReadPeek, ReadPrepare, ReadTest,
         ReadResume, ReadClip, ReadCut, GetCopy, ReadCopied, ReadReturn, ReadFrame
    <2> QED
      BY <1>2, <2>1
  <1>7. CASE Open \/ (\E p \in Protocols : SetProtocol(p)) \/ \E m \in Modes : SetModeReset(m)
    BY <1>1, <1>7 DEF Open, SetProtocol, SetModeReset, Fifo!FifoNext
  <1>8. CASE \/ \E p \in Protocols : SetProtocolRefused(p)
             \/ (\E d \in Debounces : SetDebounce(d)) \/ SetModeStore \/ Suspend \/ Resume
    BY <1>2, <1>8 DEF SetProtocolRefused, SetDebounce, SetModeStore, Suspend, Resume, histVars, Fifo!fifoVars
  <1>9. CASE UNCHANGED vars
    BY <1>2, <1>9 DEF vars, histVars, Fifo!fifoVars
  <1> QED
    BY <1>3, <1>4, <1>5, <1>6, <1>7, <1>8, <1>9 DEF Next, Interrupt, Configure, Fifo!fifoVars

\* The kfifo, used without its lock, is a first-in first-out queue of frames:
\* each word put comes out once and in order, although the handler puts between
\* any two steps of a read and the counters wrap.
THEOREM KfifoImplementsFifo ==
  ASSUME LoneReader
  PROVE  Spec => ImplementsFifo
  <1>1. Init => Fifo!FifoInit /\ ReadInv
    <2> SUFFICES ASSUME Init PROVE Fifo!FifoInit /\ ReadInv
      OBVIOUS
    <2>1. KLen = 0
      BY IRAssumption DEF Init, KLen
    <2>2. Queue = << >>
      BY <2>1 DEF Queue
    <2> QED
      BY <2>2 DEF Init, Fifo!FifoInit, ReadInv
  <1>2. IInv /\ ReadInv /\ [Next]_vars => [Fifo!FifoNext]_Fifo!fifoVars /\ ReadInv'
    <2> SUFFICES ASSUME IInv, ReadInv, [Next]_vars
                 PROVE  [Fifo!FifoNext]_Fifo!fifoVars /\ ReadInv'
      OBVIOUS
    <2>1. CASE \E r \in Readers : GetAdvance(r)
      BY <2>1, GetRefines
    <2>2. CASE frame # NoFrame /\ Put(WordsOf(frame)) /\ Handled
      BY <2>2, PutRefines DEF Handled, ReadInv
    <2>3. CASE /\ \A r \in Readers : ~GetAdvance(r)
               /\ ~(frame # NoFrame /\ Put(WordsOf(frame)) /\ Handled)
      BY <2>3, OthersRefine DEF ReadInv
    <2> QED
      BY <2>1, <2>2, <2>3
  <1> QED
    BY <1>1, <1>2, Invariance, PTL DEF Spec, ImplementsFifo, Fifo!FifoSpec
=============================================================================
