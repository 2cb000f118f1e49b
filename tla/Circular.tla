------------------------------ MODULE Circular ------------------------------
(***************************************************************************)
(* Positions on a circle of n places: the arithmetic behind the pointers   *)
(* of the streaming engine's ring and queue and the counters of a kfifo,   *)
(* for every n; and what lies on such places, read as a sequence.          *)
(***************************************************************************)
EXTENDS Integers, Sequences, SequenceTheorems, TLAPS

\* Places from r on to w.
Ahead(n, r, w) == (w - r + n) % n

\* Remainders of small numbers.
LEMMA ModSmall ==
  ASSUME NEW n \in Nat \ {0}, NEW x \in 0..n - 1
  PROVE  x % n = x
  OBVIOUS

\* One turn is taken off.
LEMMA ModOnce ==
  ASSUME NEW n \in Nat \ {0}, NEW x \in n..2 * n - 1
  PROVE  x % n = x - n
  OBVIOUS

\* A remainder is a place of the circle.
LEMMA ModRange ==
  ASSUME NEW n \in Nat \ {0}, NEW x \in Int
  PROVE  x % n \in 0..n - 1
  OBVIOUS

\* Advancing from a place by at most a turn.
LEMMA MovedPlace ==
  ASSUME NEW n \in Nat \ {0}, NEW r \in 0..n - 1, NEW d \in 0..n
  PROVE  /\ (r + d) % n \in 0..n - 1
         /\ (r + d) % n = IF r + d < n THEN r + d ELSE r + d - n
  <1>1. CASE r + d < n
    BY <1>1, ModSmall
  <1>2. CASE ~(r + d < n)
    <2>1. r + d \in n..2 * n - 1
      BY <1>2
    <2> QED
      BY <1>2, <2>1, ModOnce
  <1> QED
    BY <1>1, <1>2

\* The distance without the remainder.
LEMMA AheadValue ==
  ASSUME NEW n \in Nat \ {0}, NEW r \in 0..n - 1, NEW w \in 0..n - 1
  PROVE  /\ Ahead(n, r, w) \in 0..n - 1
         /\ Ahead(n, r, w) = IF w >= r THEN w - r ELSE w - r + n
  <1>1. CASE w >= r
    <2>1. w - r + n \in n..2 * n - 1
      BY <1>1
    <2> QED
      BY <1>1, <2>1, ModOnce DEF Ahead
  <1>2. CASE ~(w >= r)
    <2>1. w - r + n \in 0..n - 1
      BY <1>2
    <2> QED
      BY <1>2, <2>1, ModSmall DEF Ahead
  <1> QED
    BY <1>1, <1>2

\* Two places are the same exactly when they are no distance apart.
LEMMA AheadZero ==
  ASSUME NEW n \in Nat \ {0}, NEW r \in 0..n - 1, NEW w \in 0..n - 1
  PROVE  Ahead(n, r, w) = 0 <=> r = w
  <1>1. Ahead(n, r, w) = IF w >= r THEN w - r ELSE w - r + n
    BY AheadValue
  <1> QED
    BY <1>1

\* The pointer ahead moves on: the distance grows, unless it comes round.
LEMMA AheadGrows ==
  ASSUME NEW n \in Nat \ {0}, NEW r \in 0..n - 1, NEW w \in 0..n - 1, NEW d \in Nat,
         Ahead(n, r, w) + d < n
  PROVE  Ahead(n, r, (w + d) % n) = Ahead(n, r, w) + d
  <1>a. Ahead(n, r, w) \in 0..n - 1 /\ Ahead(n, r, w) = IF w >= r THEN w - r ELSE w - r + n
    BY AheadValue
  <1>0. d \in 0..n
    BY <1>a
  <1>1. (w + d) % n \in 0..n - 1 /\ (w + d) % n = IF w + d < n THEN w + d ELSE w + d - n
    BY <1>0, MovedPlace
  <1>2. Ahead(n, r, (w + d) % n)
          = IF ((w + d) % n) >= r THEN ((w + d) % n) - r ELSE ((w + d) % n) - r + n
    BY <1>1, AheadValue
  <1> QED
    BY <1>a, <1>0, <1>1, <1>2

\* The pointer behind follows: the distance shrinks.
LEMMA AheadShrinks ==
  ASSUME NEW n \in Nat \ {0}, NEW r \in 0..n - 1, NEW w \in 0..n - 1, NEW d \in Nat,
         d <= Ahead(n, r, w)
  PROVE  Ahead(n, (r + d) % n, w) = Ahead(n, r, w) - d
  <1>a. Ahead(n, r, w) \in 0..n - 1 /\ Ahead(n, r, w) = IF w >= r THEN w - r ELSE w - r + n
    BY AheadValue
  <1>0. d \in 0..n
    BY <1>a
  <1>1. (r + d) % n \in 0..n - 1 /\ (r + d) % n = IF r + d < n THEN r + d ELSE r + d - n
    BY <1>0, MovedPlace
  <1>2. Ahead(n, (r + d) % n, w)
          = IF w >= ((r + d) % n) THEN w - ((r + d) % n) ELSE w - ((r + d) % n) + n
    BY <1>1, AheadValue
  <1> QED
    BY <1>a, <1>0, <1>1, <1>2

\* The place a distance away from r is w.
LEMMA AheadPlace ==
  ASSUME NEW n \in Nat \ {0}, NEW r \in 0..n - 1, NEW w \in 0..n - 1
  PROVE  (r + Ahead(n, r, w)) % n = w
  <1>1. Ahead(n, r, w) \in 0..n - 1 /\ Ahead(n, r, w) = IF w >= r THEN w - r ELSE w - r + n
    BY AheadValue
  <1>2. PICK d \in 0..n : d = Ahead(n, r, w)
    BY <1>1
  <1>3. (r + d) % n = IF r + d < n THEN r + d ELSE r + d - n
    BY MovedPlace
  <1> QED
    BY <1>1, <1>2, <1>3

\* Places less than a turn away are different places.
LEMMA PlacesDiffer ==
  ASSUME NEW n \in Nat \ {0}, NEW r \in 0..n - 1, NEW i \in 0..n - 1, NEW j \in 0..n - 1,
         (r + i) % n = (r + j) % n
  PROVE  i = j
  <1>1. i \in 0..n /\ j \in 0..n
    OBVIOUS
  <1>2. (r + i) % n = IF r + i < n THEN r + i ELSE r + i - n
    BY <1>1, MovedPlace
  <1>3. (r + j) % n = IF r + j < n THEN r + j ELSE r + j - n
    BY <1>1, MovedPlace
  <1> QED
    BY <1>2, <1>3

\* Counting from a place further on.
LEMMA PlaceShift ==
  ASSUME NEW n \in Nat \ {0}, NEW r \in 0..n - 1, NEW i \in Nat, NEW d \in Nat, i + d < n
  PROVE  (((r + d) % n) + i) % n = (r + (i + d)) % n
  <1>1. i \in 0..n /\ d \in 0..n /\ i + d \in 0..n
    OBVIOUS
  <1>2. (r + d) % n \in 0..n - 1 /\ (r + d) % n = IF r + d < n THEN r + d ELSE r + d - n
    BY <1>1, MovedPlace
  <1>3. (r + (i + d)) % n = IF r + (i + d) < n THEN r + (i + d) ELSE r + (i + d) - n
    BY <1>1, MovedPlace
  <1>4. (((r + d) % n) + i) % n = IF ((r + d) % n) + i < n THEN ((r + d) % n) + i
                                                       ELSE ((r + d) % n) + i - n
    BY <1>1, <1>2, MovedPlace
  <1> QED
    BY <1>1, <1>2, <1>3, <1>4

-----------------------------------------------------------------------------
(* Counters that run freely modulo a multiple of the number of places.     *)

\* A multiple of n between -n and n is zero.
LEMMA SmallMultiple ==
  ASSUME NEW n \in Nat \ {0}, NEW t \in Int, n * t > -n, n * t < n
  PROVE  t = 0
  <1>1. CASE t >= 1
    <2>1. n * t >= n * 1
      BY <1>1
    <2> QED
      BY <2>1
  <1>2. CASE t <= -1
    <2>1. n * t <= n * (-1)
      BY <1>2
    <2> QED
      BY <2>1
  <1> QED
    BY <1>1, <1>2

\* Quotient and remainder.
LEMMA Division ==
  ASSUME NEW n \in Nat \ {0}, NEW x \in Int
  PROVE  x = n * (x \div n) + (x % n) /\ x \div n \in Int /\ x % n \in 0..n - 1
  OBVIOUS

\* There is one remainder.
LEMMA ModUnique ==
  ASSUME NEW n \in Nat \ {0}, NEW x \in Int, NEW q \in Int, NEW r \in 0..n - 1, x = n * q + r
  PROVE  x % n = r
  <1>1. PICK d \in Int : d = x \div n
    BY Division
  <1>2. PICK m \in 0..n - 1 : m = x % n
    BY Division
  <1>3. n * d + m = n * q + r
    BY <1>1, <1>2, Division
  <1>4. PICK t \in Int : t = d - q
    OBVIOUS
  <1>5. n * t = n * d - n * q
    BY <1>4
  <1>6. n * t = r - m
    BY <1>3, <1>5
  <1>7. n * t > -n /\ n * t < n
    BY <1>6
  <1>8. t = 0
    BY <1>7, SmallMultiple
  <1>9. n * t = 0
    BY <1>8
  <1> QED
    BY <1>2, <1>6, <1>9

\* The place a counter names is the same before and after the counter wraps.
LEMMA WrapKeepsPlace ==
  ASSUME NEW n \in Nat \ {0}, NEW m \in Nat \ {0}, m % n = 0, NEW x \in Int, NEW j \in Int
  PROVE  ((x % m) + j) % n = (x + j) % n
  <1>1. PICK q \in Int : q = m \div n
    BY Division
  <1>2. m = n * q
    BY <1>1, Division
  <1>3. PICK d \in Int : d = x \div m
    BY Division
  <1>4. PICK y \in 0..m - 1 : y = x % m
    BY Division
  <1>5. x = m * d + y
    BY <1>3, <1>4, Division
  <1>6. PICK e \in Int : e = (x + j) \div n
    BY Division
  <1>7. PICK f \in 0..n - 1 : f = (x + j) % n
    BY Division
  <1>8. x + j = n * e + f
    BY <1>6, <1>7, Division
  <1>9. PICK g \in Int : g = q * d
    OBVIOUS
  <1>10. m * d = n * g
    BY <1>2, <1>9
  <1>11. n * (e - g) = n * e - n * g
    OBVIOUS
  <1>12. y + j = n * (e - g) + f
    BY <1>5, <1>8, <1>10, <1>11
  <1>13. y + j \in Int /\ e - g \in Int
    OBVIOUS
  <1>14. (y + j) % n = f
    BY <1>12, <1>13, ModUnique
  <1> QED
    BY <1>4, <1>7, <1>14

\* Less than a turn apart, a counter names different places.
LEMMA CountsDiffer ==
  ASSUME NEW n \in Nat \ {0}, NEW x \in Int, NEW i \in 0..n - 1, NEW j \in 0..n - 1,
         (x + i) % n = (x + j) % n
  PROVE  i = j
  <1>1. n % n = 0
    <2>1. n \in n..2 * n - 1
      OBVIOUS
    <2> QED
      BY <2>1, ModOnce
  <1>2. PICK r \in 0..n - 1 : r = x % n
    BY Division
  <1>3. \A k \in Int : (r + k) % n = (x + k) % n
    <2> TAKE k \in Int
    <2>1. ((x % n) + k) % n = (x + k) % n
      BY <1>1, WrapKeepsPlace
    <2> QED
      BY <1>2, <2>1
  <1> QED
    BY <1>3, PlacesDiffer

-----------------------------------------------------------------------------
(* Sequences given by their elements. *)

\* A function on 1..n is a sequence of n elements.
LEMMA FunctionIsSeq ==
  ASSUME NEW S, NEW n \in Nat, NEW f \in [1..n -> S]
  PROVE  f \in Seq(S) /\ Len(f) = n
  OBVIOUS

\* The n words behind the first m.
LEMMA SubSeqByElements ==
  ASSUME NEW S, NEW m \in Nat, NEW n \in Nat, NEW k \in Nat, m + n <= k, NEW f \in [1..k -> S],
         NEW h \in [1..n -> S], \A i \in 1..n : h[i] = f[m + i]
  PROVE  h = SubSeq(f, m + 1, m + n)
  <1>1. h \in Seq(S) /\ Len(h) = n
    BY FunctionIsSeq
  <1>2. \A i \in m + 1..m + n : f[i] \in S
    OBVIOUS
  <1>3. /\ SubSeq(f, m + 1, m + n) \in Seq(S) /\ Len(SubSeq(f, m + 1, m + n)) = n
        /\ \A i \in 1..n : SubSeq(f, m + 1, m + n)[i] = f[m + i]
    BY <1>2, SubSeqProperties
  <1> QED
    BY <1>1, <1>3, SeqEqual
=============================================================================
