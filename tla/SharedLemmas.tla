---------------------------- MODULE SharedLemmas -----------------------------
(***************************************************************************)
(* What the proofs need to know about data, without reference to a program: *)
(* sequences, finite sets and numbers, beyond the theorems of the library,  *)
(* the digits of a byte, sorted sequences, references counted and search    *)
(* trees.                                                                   *)
(***************************************************************************)
EXTENDS Integers, Sequences, FiniteSets, SequenceTheorems, FiniteSetTheorems,
        WellFoundedInduction, TLAPS

-----------------------------------------------------------------------------
(* Sequences. *)

\* Moving the head of the queue to the end of what has been taken does not
\* change their concatenation.
LEMMA MoveHead ==
    ASSUME NEW S, NEW s \in Seq(S), NEW t \in Seq(S), t # <<>>
    PROVE  Append(s, Head(t)) \o Tail(t) = s \o t
<1> DEFINE l == Append(s, Head(t)) \o Tail(t)
           r == s \o t
<1>1. /\ Head(t) \in S /\ Tail(t) \in Seq(S) /\ Len(Tail(t)) = Len(t) - 1
      /\ \A i \in 1 .. Len(Tail(t)) : Tail(t)[i] = t[i + 1]
      /\ Head(t) = t[1] /\ Len(t) \in Nat \ {0}
  BY HeadTailProperties, EmptySeq
<1>2. /\ Append(s, Head(t)) \in Seq(S) /\ Len(Append(s, Head(t))) = Len(s) + 1
      /\ \A i \in 1 .. Len(s) : Append(s, Head(t))[i] = s[i]
      /\ Append(s, Head(t))[Len(s) + 1] = Head(t)
  BY <1>1, AppendProperties
<1>3. /\ l \in Seq(S) /\ Len(l) = Len(s) + Len(t)
      /\ \A i \in 1 .. Len(s) + Len(t) : l[i] =
            IF i <= Len(s) + 1 THEN Append(s, Head(t))[i] ELSE Tail(t)[i - (Len(s) + 1)]
  BY <1>1, <1>2, ConcatProperties, LenProperties
<1>4. /\ r \in Seq(S) /\ Len(r) = Len(s) + Len(t)
      /\ \A i \in 1 .. Len(s) + Len(t) : r[i] =
            IF i <= Len(s) THEN s[i] ELSE t[i - Len(s)]
  BY ConcatProperties
<1>5. ASSUME NEW i \in 1 .. Len(s) + Len(t) PROVE l[i] = r[i]
  <2> Len(s) \in Nat /\ Len(t) \in Nat
    OBVIOUS
  <2>1. CASE i <= Len(s)
    BY <2>1, <1>2, <1>3, <1>4
  <2>2. CASE i = Len(s) + 1
    BY <2>2, <1>1, <1>2, <1>3, <1>4
  <2>3. CASE i > Len(s) + 1
    <3>1. i - (Len(s) + 1) \in 1 .. Len(Tail(t))
      BY <2>3, <1>1
    <3>2. Tail(t)[i - (Len(s) + 1)] = t[i - Len(s)]
      BY <3>1, <1>1
    <3> QED BY <2>3, <3>2, <1>3, <1>4
  <2> QED BY <2>1, <2>2, <2>3
<1> QED BY <1>3, <1>4, <1>5, SeqEqual

\* Appending to the second part of a concatenation appends to the whole.
LEMMA AppendToSecond ==
    ASSUME NEW S, NEW s \in Seq(S), NEW t \in Seq(S), NEW x \in S
    PROVE  s \o Append(t, x) = Append(s \o t, x)
<1> USE AppendProperties, ConcatProperties
<1> DEFINE l == s \o Append(t, x)
           r == Append(s \o t, x)
<1>1. /\ l \in Seq(S) /\ r \in Seq(S) /\ Len(l) = Len(s) + Len(t) + 1 /\ Len(r) = Len(l)
      /\ Len(s) \in Nat /\ Len(t) \in Nat
  BY LenProperties
<1>2. \A k \in 1 .. Len(s) + Len(t) + 1 : l[k] = r[k]
  BY <1>1
<1> QED BY <1>1, <1>2, SeqEqual

\* A sequence is its first n elements and the rest.
LEMMA CutInTwo ==
    ASSUME NEW S, NEW s \in Seq(S), NEW n \in 0 .. Len(s)
    PROVE  /\ SubSeq(s, 1, n) \in Seq(S) /\ Len(SubSeq(s, 1, n)) = n
           /\ \A k \in 1 .. n : SubSeq(s, 1, n)[k] = s[k]
           /\ SubSeq(s, n + 1, Len(s)) \in Seq(S) /\ Len(SubSeq(s, n + 1, Len(s))) = Len(s) - n
           /\ SubSeq(s, 1, n) \o SubSeq(s, n + 1, Len(s)) = s
<1>1. Len(s) \in Nat /\ n \in Nat /\ \A k \in 1 .. Len(s) : s[k] \in S
  OBVIOUS
<1>2. \A k \in 1 .. n : s[k] \in S
  BY <1>1
<1>3. \A k \in n + 1 .. Len(s) : s[k] \in S
  BY <1>1
<1>4. SubSeq(s, 1, n) \in Seq(S) /\ Len(SubSeq(s, 1, n)) = (IF 1 <= n THEN n - 1 + 1 ELSE 0)
      /\ \A k \in 1 .. n - 1 + 1 : SubSeq(s, 1, n)[k] = s[1 + k - 1]
  BY <1>1, <1>2, SubSeqProperties
<1>5. SubSeq(s, n + 1, Len(s)) \in Seq(S)
      /\ Len(SubSeq(s, n + 1, Len(s))) = (IF n + 1 <= Len(s) THEN Len(s) - (n + 1) + 1 ELSE 0)
  BY <1>1, <1>3, SubSeqProperties
<1>6. SubSeq(s, 1, n) \o SubSeq(s, n + 1, Len(s)) = SubSeq(s, 1, Len(s))
  <2>1. 1 \in 1 .. Len(s) + 1 /\ n \in 1 - 1 .. Len(s) /\ Len(s) \in n .. Len(s)
    BY <1>1
  <2> QED BY <2>1, ConcatAdjacentSubSeq
<1>7. SubSeq(s, 1, Len(s)) = s
  BY SubSeqFull
<1> DEFINE a == SubSeq(s, 1, n)
           b == SubSeq(s, n + 1, Len(s))
<1> HIDE DEF a, b
<1>8. Len(a) = n /\ \A k \in 1 .. n : a[k] = s[k]
  BY <1>1, <1>4 DEF a
<1>9. Len(b) = Len(s) - n
  BY <1>1, <1>5 DEF b
<1>10. a \in Seq(S) /\ b \in Seq(S) /\ a \o b = s
  BY <1>4, <1>5, <1>6, <1>7 DEF a, b
<1> QED BY <1>8, <1>9, <1>10 DEF a, b

\* What a report appended to the list adds to what was reported.
LEMMA AppendRange ==
    ASSUME NEW S, NEW s \in Seq(S), NEW x \in S
    PROVE  {Append(s, x)[k] : k \in 1 .. Len(Append(s, x))} = {s[k] : k \in 1 .. Len(s)} \cup {x}
<1>1. Len(Append(s, x)) = Len(s) + 1 /\ Len(s) \in Nat
  OBVIOUS
<1>2. \A k \in 1 .. Len(s) : Append(s, x)[k] = s[k]
  OBVIOUS
<1>3. Append(s, x)[Len(s) + 1] = x
  OBVIOUS
<1>4. 1 .. Len(s) + 1 = 1 .. Len(s) \cup {Len(s) + 1}
  BY <1>1
<1> QED BY <1>1, <1>2, <1>3, <1>4

-----------------------------------------------------------------------------
(* Finite sets and numbers. *)

\* Counting: one more, one less.
LEMMA OneMore ==
    ASSUME NEW S, NEW T, NEW x, IsFiniteSet(S), x \notin S, T = S \cup {x}
    PROVE  IsFiniteSet(T) /\ Cardinality(S) \in Nat /\ Cardinality(T) = Cardinality(S) + 1
BY FS_AddElement, FS_CardinalityType

\* How often T's members have done something at most N times, counted by pairs: once more
\* is one pair more.
LEMMA OncePerPair ==
    ASSUME NEW T, IsFiniteSet(T), NEW N \in Nat, NEW f \in [T -> Nat], NEW g \in [T -> Nat],
           NEW t \in T, f[t] < N, g = [f EXCEPT ![t] = f[t] + 1],
           NEW F, F = {x \in T \X (1 .. N) : x[2] <= f[x[1]]},
           NEW G, G = {x \in T \X (1 .. N) : x[2] <= g[x[1]]}
    PROVE  Cardinality(F) \in Nat /\ Cardinality(G) = Cardinality(F) + 1
<1>1. IsFiniteSet(T \X (1 .. N))
  <2>1. IsFiniteSet(1 .. N)
    BY ONLY FS_Interval, N \in Nat
  <2> QED BY ONLY <2>1, IsFiniteSet(T), FS_Product
<1>2. IsFiniteSet(F)
  <2>1. F \in SUBSET (T \X (1 .. N))
    OBVIOUS
  <2> QED BY <1>1, <2>1, FS_Subset
<1> DEFINE p == <<t, f[t] + 1>>
<1>3. p \in T \X (1 .. N) /\ p[1] = t /\ p[2] = f[t] + 1
  OBVIOUS
<1>4. p \notin F
  BY <1>3
<1>5. G = F \cup {p}
  <2>1. ASSUME NEW x \in T \X (1 .. N) PROVE x \in G <=> x \in F \/ x = p
    <3>1. x[1] \in T /\ x[2] \in Nat /\ x = <<x[1], x[2]>>
      OBVIOUS
    <3>2. CASE x[1] = t
      <4>1. g[x[1]] = f[t] + 1 /\ f[t] \in Nat
        BY <3>2
      <4>2. x = p <=> x[2] = f[t] + 1
        BY <3>1, <3>2
      <4> QED BY <3>1, <3>2, <4>1, <4>2
    <3>3. CASE x[1] # t
      <4>1. g[x[1]] = f[x[1]]
        BY <3>1, <3>3
      <4>2. x # p
        BY <1>3, <3>3
      <4> QED BY <4>1, <4>2
    <3> QED BY <3>2, <3>3
  <2> QED BY <2>1, <1>3
<1> HIDE DEF p
<1> QED BY ONLY <1>2, <1>4, <1>5, OneMore

\* A set of numbers that is not empty has a least element.
LEMMA Least == ASSUME NEW T \in SUBSET Nat, T # {} PROVE \E x \in T : \A y \in T : x <= y
<1> DEFINE R == OpToRel(<, Nat)
<1>1. IsWellFoundedOn(R, Nat)
  BY NatLessThanWellFounded
<1> HIDE DEF R
<1>2. PICK x \in T : \A y \in T : <<y, x>> \notin R
  BY <1>1, WFMin
<1>3. \A y \in T : ~(y < x)
  BY <1>2 DEF R, OpToRel
<1> QED BY <1>3

\* Division leaves a rest below the divisor.
LEMMA DivMod ==
    ASSUME NEW N \in Nat \ {0}, NEW n \in Nat
    PROVE  n = N * (n \div N) + (n % N) /\ n % N \in 0 .. N - 1 /\ n \div N \in Int
OBVIOUS

\* Quotient and rest are unique.
LEMMA ModUnique ==
    ASSUME NEW N \in Nat \ {0}, NEW d \in Int, NEW r \in 0 .. N - 1, NEW n \in Nat,
           n = N * d + r
    PROVE  n % N = r
<1> DEFINE p == n \div N
           s == n % N
<1>1. n = N * p + s /\ s \in 0 .. N - 1 /\ p \in Int
  BY DivMod
<1> HIDE DEF p, s
<1>2. \A k \in Int : k >= 1 => N * k >= N
  OBVIOUS
<1>3. N * (p - d) = r - s /\ N * (d - p) = s - r
  BY <1>1
<1>4. ~(p - d >= 1)
  <2> SUFFICES ASSUME p - d >= 1 PROVE FALSE
    OBVIOUS
  <2>1. N * (p - d) >= N
    BY <1>1, <1>2
  <2> QED BY <1>1, <1>3, <2>1
<1>5. ~(d - p >= 1)
  <2> SUFFICES ASSUME d - p >= 1 PROVE FALSE
    OBVIOUS
  <2>1. N * (d - p) >= N
    BY <1>1, <1>2
  <2> QED BY <1>1, <1>3, <2>1
<1> QED BY <1>1, <1>3, <1>4, <1>5 DEF s

\* Multiples of a number are ordered as their factors.
LEMMA TimesMono ==
    ASSUME NEW N \in Nat \ {0}, NEW x \in Int, NEW y \in Int
    PROVE  x * N \in Int /\ (x <= y <=> x * N <= y * N) /\ (x + 1) * N = x * N + N
<1>1. x * N \in Int /\ y * N \in Int /\ (x + 1) * N = x * N + N
  OBVIOUS
<1>2. x <= y => x * N <= y * N
  OBVIOUS
<1>3. y < x => y * N < x * N
  OBVIOUS
<1> QED BY <1>1, <1>2, <1>3

\* Rounding a number down to a multiple of N.
LEMMA RoundDown ==
    ASSUME NEW N \in Nat \ {0}, NEW n \in Nat
    PROVE  /\ n \div N \in Nat /\ (n \div N) * N \in Nat
           /\ (n \div N) * N <= n /\ n < (n \div N) * N + N
           /\ n % N \in 0 .. N - 1 /\ (n \div N) * N + (n % N) = n
<1> DEFINE d == n \div N
           m == n % N
<1>1. n = N * d + m /\ m \in 0 .. N - 1 /\ d \in Int
  BY DivMod
<1> HIDE DEF d, m
<1>2. N * d = d * N /\ d * N \in Int
  BY <1>1
<1>3. n = d * N + m /\ d * N <= n /\ n < d * N + N
  BY <1>1, <1>2
<1>4. d >= 0
  <2> SUFFICES ASSUME d + 1 <= 0 PROVE FALSE
    BY <1>1
  <2>1. (d + 1) * N <= 0 * N /\ (d + 1) * N = d * N + N
    BY <1>1, TimesMono
  <2> QED BY <1>2, <1>3, <2>1
<1>5. d * N \in Nat
  <2>1. 0 * N <= d * N
    BY <1>1, <1>4, TimesMono
  <2> QED BY <1>2, <2>1
<1> QED BY <1>1, <1>3, <1>4, <1>5 DEF d, m

\* The quotient is the number of whole multiples.
LEMMA RoundsTo ==
    ASSUME NEW N \in Nat \ {0}, NEW n \in Nat, NEW d \in Nat
    PROVE  d * N <= n <=> d <= n \div N
<1> DEFINE q == n \div N
<1>1. q \in Nat /\ q * N \in Nat /\ q * N <= n /\ n < q * N + N
  BY RoundDown
<1> HIDE DEF q
<1>2. d * N \in Int /\ (d <= q <=> d * N <= q * N)
  BY <1>1, TimesMono
<1>3. (q + 1 <= d <=> (q + 1) * N <= d * N) /\ (q + 1) * N = q * N + N
  BY <1>1, TimesMono
<1>4. d * N <= n <=> d <= q
  BY <1>1, <1>2, <1>3
<1> QED BY <1>4 DEF q

\* Rounding keeps the order.
LEMMA RoundMono ==
    ASSUME NEW N \in Nat \ {0}, NEW a \in Nat, NEW b \in Nat, a <= b
    PROVE  a \div N <= b \div N /\ (a \div N) * N <= (b \div N) * N
<1> DEFINE q == a \div N
           p == b \div N
<1>1. q \in Nat /\ p \in Nat /\ q * N \in Nat /\ q * N <= a
  BY RoundDown
<1>2. q * N <= b <=> q <= p
  BY <1>1, RoundsTo
<1> HIDE DEF q, p
<1>3. q <= p
  BY <1>1, <1>2
<1>4. q * N <= p * N
  BY <1>1, <1>3, TimesMono
<1> QED BY <1>3, <1>4 DEF q, p

\* A number is rounded to the multiple it was made from.
LEMMA RoundSplit ==
    ASSUME NEW N \in Nat \ {0}, NEW d \in Nat, NEW r \in 0 .. N - 1
    PROVE  d * N + r \in Nat /\ (d * N + r) \div N = d
<1>1. d * N \in Nat
  BY TimesMono
<1> DEFINE n == d * N + r
           q == n \div N
<1>2. n \in Nat /\ d * N <= n /\ n < d * N + N
  BY <1>1
<1>3. q \in Nat /\ q * N \in Nat /\ q * N <= n
  BY <1>2, RoundDown
<1>4. d <= q
  BY <1>2, RoundsTo
<1> HIDE DEF n, q
<1>5. (d + 1) * N = d * N + N /\ (d + 1 <= q <=> (d + 1) * N <= q * N)
  BY <1>3, TimesMono
<1>6. q = d
  BY <1>1, <1>2, <1>3, <1>4, <1>5
<1> QED BY <1>2, <1>6 DEF n, q

-----------------------------------------------------------------------------
(* The digits of a byte. *)

\* The bits of a byte by their weights.
Weights == {1, 2, 4, 8, 16, 32, 64, 128}
Digit(b, p) == (b \div p) % 2

\* A byte from its eight digits.
Binary(d1, d2, d3, d4, d5, d6, d7, d8) ==
    128 * d1 + 64 * d2 + 32 * d3 + 16 * d4 + 8 * d5 + 4 * d6 + 2 * d7 + d8

\* A byte is the sum of its digits.
LEMMA DigitsOf ==
    ASSUME NEW b \in 0 .. 255
    PROVE  /\ b = Binary(Digit(b, 128), Digit(b, 64), Digit(b, 32), Digit(b, 16),
                         Digit(b, 8), Digit(b, 4), Digit(b, 2), Digit(b, 1))
           /\ Digit(b, 128) \in 0 .. 1 /\ Digit(b, 64) \in 0 .. 1 /\ Digit(b, 32) \in 0 .. 1
           /\ Digit(b, 16) \in 0 .. 1 /\ Digit(b, 8) \in 0 .. 1 /\ Digit(b, 4) \in 0 .. 1
           /\ Digit(b, 2) \in 0 .. 1 /\ Digit(b, 1) \in 0 .. 1
BY DEF Digit, Binary

\* Adding the weight of a digit that is 0 sets it and no other; taking away the weight of
\* one that is 1 clears it and no other.
LEMMA DigitPlus ==
    ASSUME NEW b \in 0 .. 255, NEW p \in Weights, NEW r \in Weights, Digit(b, p) # 1
    PROVE  b + p \in 0 .. 255 /\ Digit(b + p, r) = IF r = p THEN 1 ELSE Digit(b, r)
<1> DEFINE d1 == Digit(b, 128)
           d2 == Digit(b, 64)
           d3 == Digit(b, 32)
           d4 == Digit(b, 16)
           d5 == Digit(b, 8)
           d6 == Digit(b, 4)
           d7 == Digit(b, 2)
           d8 == Digit(b, 1)
<1>0. /\ d1 \in 0 .. 1 /\ d2 \in 0 .. 1 /\ d3 \in 0 .. 1 /\ d4 \in 0 .. 1
      /\ d5 \in 0 .. 1 /\ d6 \in 0 .. 1 /\ d7 \in 0 .. 1 /\ d8 \in 0 .. 1
      /\ b = Binary(d1, d2, d3, d4, d5, d6, d7, d8)
  BY DigitsOf
<1> HIDE DEF d1, d2, d3, d4, d5, d6, d7, d8
<1>1. CASE p = 128
  <2>1. d1 = 0
    BY <1>0, <1>1 DEF d1
  <2>2. b + 128 = Binary(1, d2, d3, d4, d5, d6, d7, d8)
    BY <1>0, <2>1 DEF Binary
  <2>3. /\ b + 128 \in 0 .. 255
        /\ Digit(b + 128, 128) = 1 /\ Digit(b + 128, 64) = d2 /\ Digit(b + 128, 32) = d3 /\ Digit(b + 128, 16) = d4
        /\ Digit(b + 128, 8) = d5 /\ Digit(b + 128, 4) = d6 /\ Digit(b + 128, 2) = d7 /\ Digit(b + 128, 1) = d8
    BY <1>0, <2>2 DEF Binary, Digit
  <2> QED BY <1>1, <2>3 DEF Weights, d1, d2, d3, d4, d5, d6, d7, d8
<1>2. CASE p = 64
  <2>1. d2 = 0
    BY <1>0, <1>2 DEF d2
  <2>2. b + 64 = Binary(d1, 1, d3, d4, d5, d6, d7, d8)
    BY <1>0, <2>1 DEF Binary
  <2>3. /\ b + 64 \in 0 .. 255
        /\ Digit(b + 64, 128) = d1 /\ Digit(b + 64, 64) = 1 /\ Digit(b + 64, 32) = d3 /\ Digit(b + 64, 16) = d4
        /\ Digit(b + 64, 8) = d5 /\ Digit(b + 64, 4) = d6 /\ Digit(b + 64, 2) = d7 /\ Digit(b + 64, 1) = d8
    BY <1>0, <2>2 DEF Binary, Digit
  <2> QED BY <1>2, <2>3 DEF Weights, d1, d2, d3, d4, d5, d6, d7, d8
<1>3. CASE p = 32
  <2>1. d3 = 0
    BY <1>0, <1>3 DEF d3
  <2>2. b + 32 = Binary(d1, d2, 1, d4, d5, d6, d7, d8)
    BY <1>0, <2>1 DEF Binary
  <2>3. /\ b + 32 \in 0 .. 255
        /\ Digit(b + 32, 128) = d1 /\ Digit(b + 32, 64) = d2 /\ Digit(b + 32, 32) = 1 /\ Digit(b + 32, 16) = d4
        /\ Digit(b + 32, 8) = d5 /\ Digit(b + 32, 4) = d6 /\ Digit(b + 32, 2) = d7 /\ Digit(b + 32, 1) = d8
    BY <1>0, <2>2 DEF Binary, Digit
  <2> QED BY <1>3, <2>3 DEF Weights, d1, d2, d3, d4, d5, d6, d7, d8
<1>4. CASE p = 16
  <2>1. d4 = 0
    BY <1>0, <1>4 DEF d4
  <2>2. b + 16 = Binary(d1, d2, d3, 1, d5, d6, d7, d8)
    BY <1>0, <2>1 DEF Binary
  <2>3. /\ b + 16 \in 0 .. 255
        /\ Digit(b + 16, 128) = d1 /\ Digit(b + 16, 64) = d2 /\ Digit(b + 16, 32) = d3 /\ Digit(b + 16, 16) = 1
        /\ Digit(b + 16, 8) = d5 /\ Digit(b + 16, 4) = d6 /\ Digit(b + 16, 2) = d7 /\ Digit(b + 16, 1) = d8
    BY <1>0, <2>2 DEF Binary, Digit
  <2> QED BY <1>4, <2>3 DEF Weights, d1, d2, d3, d4, d5, d6, d7, d8
<1>5. CASE p = 8
  <2>1. d5 = 0
    BY <1>0, <1>5 DEF d5
  <2>2. b + 8 = Binary(d1, d2, d3, d4, 1, d6, d7, d8)
    BY <1>0, <2>1 DEF Binary
  <2>3. /\ b + 8 \in 0 .. 255
        /\ Digit(b + 8, 128) = d1 /\ Digit(b + 8, 64) = d2 /\ Digit(b + 8, 32) = d3 /\ Digit(b + 8, 16) = d4
        /\ Digit(b + 8, 8) = 1 /\ Digit(b + 8, 4) = d6 /\ Digit(b + 8, 2) = d7 /\ Digit(b + 8, 1) = d8
    BY <1>0, <2>2 DEF Binary, Digit
  <2> QED BY <1>5, <2>3 DEF Weights, d1, d2, d3, d4, d5, d6, d7, d8
<1>6. CASE p = 4
  <2>1. d6 = 0
    BY <1>0, <1>6 DEF d6
  <2>2. b + 4 = Binary(d1, d2, d3, d4, d5, 1, d7, d8)
    BY <1>0, <2>1 DEF Binary
  <2>3. /\ b + 4 \in 0 .. 255
        /\ Digit(b + 4, 128) = d1 /\ Digit(b + 4, 64) = d2 /\ Digit(b + 4, 32) = d3 /\ Digit(b + 4, 16) = d4
        /\ Digit(b + 4, 8) = d5 /\ Digit(b + 4, 4) = 1 /\ Digit(b + 4, 2) = d7 /\ Digit(b + 4, 1) = d8
    BY <1>0, <2>2 DEF Binary, Digit
  <2> QED BY <1>6, <2>3 DEF Weights, d1, d2, d3, d4, d5, d6, d7, d8
<1>7. CASE p = 2
  <2>1. d7 = 0
    BY <1>0, <1>7 DEF d7
  <2>2. b + 2 = Binary(d1, d2, d3, d4, d5, d6, 1, d8)
    BY <1>0, <2>1 DEF Binary
  <2>3. /\ b + 2 \in 0 .. 255
        /\ Digit(b + 2, 128) = d1 /\ Digit(b + 2, 64) = d2 /\ Digit(b + 2, 32) = d3 /\ Digit(b + 2, 16) = d4
        /\ Digit(b + 2, 8) = d5 /\ Digit(b + 2, 4) = d6 /\ Digit(b + 2, 2) = 1 /\ Digit(b + 2, 1) = d8
    BY <1>0, <2>2 DEF Binary, Digit
  <2> QED BY <1>7, <2>3 DEF Weights, d1, d2, d3, d4, d5, d6, d7, d8
<1>8. CASE p = 1
  <2>1. d8 = 0
    BY <1>0, <1>8 DEF d8
  <2>2. b + 1 = Binary(d1, d2, d3, d4, d5, d6, d7, 1)
    BY <1>0, <2>1 DEF Binary
  <2>3. /\ b + 1 \in 0 .. 255
        /\ Digit(b + 1, 128) = d1 /\ Digit(b + 1, 64) = d2 /\ Digit(b + 1, 32) = d3 /\ Digit(b + 1, 16) = d4
        /\ Digit(b + 1, 8) = d5 /\ Digit(b + 1, 4) = d6 /\ Digit(b + 1, 2) = d7 /\ Digit(b + 1, 1) = 1
    BY <1>0, <2>2 DEF Binary, Digit
  <2> QED BY <1>8, <2>3 DEF Weights, d1, d2, d3, d4, d5, d6, d7, d8
<1> QED BY <1>1, <1>2, <1>3, <1>4, <1>5, <1>6, <1>7, <1>8 DEF Weights

\* Taking the weight of a digit that is set away clears that digit alone.
LEMMA DigitMinus ==
    ASSUME NEW b \in 0 .. 255, NEW p \in Weights, NEW r \in Weights, Digit(b, p) = 1
    PROVE  b - p \in 0 .. 255 /\ Digit(b - p, r) = IF r = p THEN 0 ELSE Digit(b, r)
<1> DEFINE d1 == Digit(b, 128)
           d2 == Digit(b, 64)
           d3 == Digit(b, 32)
           d4 == Digit(b, 16)
           d5 == Digit(b, 8)
           d6 == Digit(b, 4)
           d7 == Digit(b, 2)
           d8 == Digit(b, 1)
<1>0. /\ d1 \in 0 .. 1 /\ d2 \in 0 .. 1 /\ d3 \in 0 .. 1 /\ d4 \in 0 .. 1
      /\ d5 \in 0 .. 1 /\ d6 \in 0 .. 1 /\ d7 \in 0 .. 1 /\ d8 \in 0 .. 1
      /\ b = Binary(d1, d2, d3, d4, d5, d6, d7, d8)
  BY DigitsOf
<1> HIDE DEF d1, d2, d3, d4, d5, d6, d7, d8
<1>1. CASE p = 128
  <2>1. d1 = 1
    BY <1>0, <1>1 DEF d1
  <2>2. b - 128 = Binary(0, d2, d3, d4, d5, d6, d7, d8)
    BY <1>0, <2>1 DEF Binary
  <2>3. /\ b - 128 \in 0 .. 255
        /\ Digit(b - 128, 128) = 0 /\ Digit(b - 128, 64) = d2 /\ Digit(b - 128, 32) = d3 /\ Digit(b - 128, 16) = d4
        /\ Digit(b - 128, 8) = d5 /\ Digit(b - 128, 4) = d6 /\ Digit(b - 128, 2) = d7 /\ Digit(b - 128, 1) = d8
    BY <1>0, <2>2 DEF Binary, Digit
  <2> QED BY <1>1, <2>3 DEF Weights, d1, d2, d3, d4, d5, d6, d7, d8
<1>2. CASE p = 64
  <2>1. d2 = 1
    BY <1>0, <1>2 DEF d2
  <2>2. b - 64 = Binary(d1, 0, d3, d4, d5, d6, d7, d8)
    BY <1>0, <2>1 DEF Binary
  <2>3. /\ b - 64 \in 0 .. 255
        /\ Digit(b - 64, 128) = d1 /\ Digit(b - 64, 64) = 0 /\ Digit(b - 64, 32) = d3 /\ Digit(b - 64, 16) = d4
        /\ Digit(b - 64, 8) = d5 /\ Digit(b - 64, 4) = d6 /\ Digit(b - 64, 2) = d7 /\ Digit(b - 64, 1) = d8
    BY <1>0, <2>2 DEF Binary, Digit
  <2> QED BY <1>2, <2>3 DEF Weights, d1, d2, d3, d4, d5, d6, d7, d8
<1>3. CASE p = 32
  <2>1. d3 = 1
    BY <1>0, <1>3 DEF d3
  <2>2. b - 32 = Binary(d1, d2, 0, d4, d5, d6, d7, d8)
    BY <1>0, <2>1 DEF Binary
  <2>3. /\ b - 32 \in 0 .. 255
        /\ Digit(b - 32, 128) = d1 /\ Digit(b - 32, 64) = d2 /\ Digit(b - 32, 32) = 0 /\ Digit(b - 32, 16) = d4
        /\ Digit(b - 32, 8) = d5 /\ Digit(b - 32, 4) = d6 /\ Digit(b - 32, 2) = d7 /\ Digit(b - 32, 1) = d8
    BY <1>0, <2>2 DEF Binary, Digit
  <2> QED BY <1>3, <2>3 DEF Weights, d1, d2, d3, d4, d5, d6, d7, d8
<1>4. CASE p = 16
  <2>1. d4 = 1
    BY <1>0, <1>4 DEF d4
  <2>2. b - 16 = Binary(d1, d2, d3, 0, d5, d6, d7, d8)
    BY <1>0, <2>1 DEF Binary
  <2>3. /\ b - 16 \in 0 .. 255
        /\ Digit(b - 16, 128) = d1 /\ Digit(b - 16, 64) = d2 /\ Digit(b - 16, 32) = d3 /\ Digit(b - 16, 16) = 0
        /\ Digit(b - 16, 8) = d5 /\ Digit(b - 16, 4) = d6 /\ Digit(b - 16, 2) = d7 /\ Digit(b - 16, 1) = d8
    BY <1>0, <2>2 DEF Binary, Digit
  <2> QED BY <1>4, <2>3 DEF Weights, d1, d2, d3, d4, d5, d6, d7, d8
<1>5. CASE p = 8
  <2>1. d5 = 1
    BY <1>0, <1>5 DEF d5
  <2>2. b - 8 = Binary(d1, d2, d3, d4, 0, d6, d7, d8)
    BY <1>0, <2>1 DEF Binary
  <2>3. /\ b - 8 \in 0 .. 255
        /\ Digit(b - 8, 128) = d1 /\ Digit(b - 8, 64) = d2 /\ Digit(b - 8, 32) = d3 /\ Digit(b - 8, 16) = d4
        /\ Digit(b - 8, 8) = 0 /\ Digit(b - 8, 4) = d6 /\ Digit(b - 8, 2) = d7 /\ Digit(b - 8, 1) = d8
    BY <1>0, <2>2 DEF Binary, Digit
  <2> QED BY <1>5, <2>3 DEF Weights, d1, d2, d3, d4, d5, d6, d7, d8
<1>6. CASE p = 4
  <2>1. d6 = 1
    BY <1>0, <1>6 DEF d6
  <2>2. b - 4 = Binary(d1, d2, d3, d4, d5, 0, d7, d8)
    BY <1>0, <2>1 DEF Binary
  <2>3. /\ b - 4 \in 0 .. 255
        /\ Digit(b - 4, 128) = d1 /\ Digit(b - 4, 64) = d2 /\ Digit(b - 4, 32) = d3 /\ Digit(b - 4, 16) = d4
        /\ Digit(b - 4, 8) = d5 /\ Digit(b - 4, 4) = 0 /\ Digit(b - 4, 2) = d7 /\ Digit(b - 4, 1) = d8
    BY <1>0, <2>2 DEF Binary, Digit
  <2> QED BY <1>6, <2>3 DEF Weights, d1, d2, d3, d4, d5, d6, d7, d8
<1>7. CASE p = 2
  <2>1. d7 = 1
    BY <1>0, <1>7 DEF d7
  <2>2. b - 2 = Binary(d1, d2, d3, d4, d5, d6, 0, d8)
    BY <1>0, <2>1 DEF Binary
  <2>3. /\ b - 2 \in 0 .. 255
        /\ Digit(b - 2, 128) = d1 /\ Digit(b - 2, 64) = d2 /\ Digit(b - 2, 32) = d3 /\ Digit(b - 2, 16) = d4
        /\ Digit(b - 2, 8) = d5 /\ Digit(b - 2, 4) = d6 /\ Digit(b - 2, 2) = 0 /\ Digit(b - 2, 1) = d8
    BY <1>0, <2>2 DEF Binary, Digit
  <2> QED BY <1>7, <2>3 DEF Weights, d1, d2, d3, d4, d5, d6, d7, d8
<1>8. CASE p = 1
  <2>1. d8 = 1
    BY <1>0, <1>8 DEF d8
  <2>2. b - 1 = Binary(d1, d2, d3, d4, d5, d6, d7, 0)
    BY <1>0, <2>1 DEF Binary
  <2>3. /\ b - 1 \in 0 .. 255
        /\ Digit(b - 1, 128) = d1 /\ Digit(b - 1, 64) = d2 /\ Digit(b - 1, 32) = d3 /\ Digit(b - 1, 16) = d4
        /\ Digit(b - 1, 8) = d5 /\ Digit(b - 1, 4) = d6 /\ Digit(b - 1, 2) = d7 /\ Digit(b - 1, 1) = 0
    BY <1>0, <2>2 DEF Binary, Digit
  <2> QED BY <1>8, <2>3 DEF Weights, d1, d2, d3, d4, d5, d6, d7, d8
<1> QED BY <1>1, <1>2, <1>3, <1>4, <1>5, <1>6, <1>7, <1>8 DEF Weights

-----------------------------------------------------------------------------
(* Sorted sequences. *)

\* A sequence in order.
Sorted(s) == \A i, j \in 1 .. Len(s) : i <= j => s[i] <= s[j]
\* k elements of s come before x.
Comes(s, x, k) == /\ k \in 0 .. Len(s)
                  /\ \A i \in 1 .. k : s[i] <= x
                  /\ \A i \in k + 1 .. Len(s) : x < s[i]
\* r is s with x behind the first k elements.
Inserted(s, x, k, r) ==
    /\ r \in Seq(Int) /\ Len(r) = Len(s) + 1
    /\ \A i \in 1 .. k : r[i] = s[i]
    /\ r[k + 1] = x
    /\ \A i \in k + 1 .. Len(s) : r[i + 1] = s[i]

\* In a sorted sequence a number has a place.
LEMMA ComesSomewhere ==
    ASSUME NEW s \in Seq(Int), Sorted(s), NEW x \in Int
    PROVE  \E k : Comes(s, x, k)
<1> DEFINE n == Len(s)
           T == {m \in 1 .. n + 1 : m = n + 1 \/ x < s[m]}
<1>1. n \in Nat /\ \A i \in 1 .. n : s[i] \in Int
  OBVIOUS
<1>2. T \in SUBSET Nat /\ n + 1 \in T
  BY <1>1
<1>3. PICK m \in T : \A y \in T : m <= y
  BY <1>2, Least
<1>4. m \in 1 .. n + 1 /\ (m = n + 1 \/ x < s[m])
  BY <1>3
<1>5. \A i \in 1 .. m - 1 : i \in 1 .. n /\ s[i] <= x
  <2> SUFFICES ASSUME NEW i \in 1 .. m - 1 PROVE i \in 1 .. n /\ s[i] <= x
    OBVIOUS
  <2>1. i \in 1 .. n /\ i \in 1 .. n + 1 /\ ~ (m <= i)
    BY <1>1, <1>4
  <2>2. i \notin T
    BY <1>3, <2>1
  <2>3. ~ (x < s[i])
    BY <2>1, <2>2
  <2> QED BY <1>1, <2>1, <2>3
<1>6. \A i \in m .. n : x < s[i]
  <2> SUFFICES ASSUME NEW i \in m .. n PROVE x < s[i]
    OBVIOUS
  <2>1. i \in 1 .. n /\ m \in 1 .. n /\ m <= i
    BY <1>1, <1>4
  <2>2. s[m] <= s[i] /\ x < s[m]
    BY <1>1, <1>4, <2>1 DEF Sorted
  <2> QED BY <1>1, <2>1, <2>2
<1> HIDE DEF T
<1>7. PICK k \in 0 .. n : k = m - 1
  BY <1>1, <1>4
<1>8. Comes(s, x, k)
  <2>1. k + 1 = m
    BY <1>4, <1>7
  <2> QED BY <1>1, <1>5, <1>6, <1>7, <2>1 DEF Comes
<1> QED BY <1>8

\* The place is determined.
LEMMA ComesOnce ==
    ASSUME NEW s \in Seq(Int), NEW x \in Int, NEW k, NEW l, Comes(s, x, k), Comes(s, x, l)
    PROVE  k = l
<1>1. /\ k \in 0 .. Len(s) /\ l \in 0 .. Len(s) /\ Len(s) \in Nat
      /\ \A i \in 1 .. Len(s) : s[i] \in Int
  BY DEF Comes
<1>2. ASSUME k < l PROVE FALSE
  <2>1. l \in 1 .. l /\ l \in k + 1 .. Len(s) /\ l \in 1 .. Len(s)
    BY <1>1, <1>2
  <2>2. s[l] <= x /\ x < s[l]
    BY <2>1 DEF Comes
  <2> QED BY <1>1, <2>1, <2>2
<1>3. ASSUME l < k PROVE FALSE
  <2>1. k \in 1 .. k /\ k \in l + 1 .. Len(s) /\ k \in 1 .. Len(s)
    BY <1>1, <1>3
  <2>2. s[k] <= x /\ x < s[k]
    BY <2>1 DEF Comes
  <2> QED BY <1>1, <2>1, <2>2
<1> QED BY <1>1, <1>2, <1>3

\* The sequence stays in order.
LEMMA InsertedSorted ==
    ASSUME NEW s \in Seq(Int), Sorted(s), NEW x \in Int, NEW k, Comes(s, x, k),
           NEW r, Inserted(s, x, k, r)
    PROVE  Sorted(r)
<1> DEFINE n == Len(s)
<1>1. n \in Nat /\ k \in 0 .. n /\ \A i \in 1 .. n : s[i] \in Int
  BY DEF Comes
<1>2. ASSUME NEW i \in 1 .. n + 1, NEW j \in 1 .. n + 1, i < j PROVE r[i] <= r[j]
  <2>1. CASE j <= k
    <3>1. i \in 1 .. k /\ j \in 1 .. k /\ i \in 1 .. n /\ j \in 1 .. n
      BY <1>1, <1>2, <2>1
    <3> QED BY <1>2, <3>1 DEF Inserted, Sorted
  <2>2. CASE j = k + 1
    <3>1. i \in 1 .. k
      BY <1>1, <1>2, <2>2
    <3> QED BY <2>2, <3>1 DEF Inserted, Comes
  <2>3. CASE j > k + 1
    <3>1. j - 1 \in k + 1 .. n /\ j - 1 \in 1 .. n
      BY <1>1, <2>3
    <3>2. r[j] = s[j - 1] /\ x < s[j - 1]
      <4>1. (j - 1) + 1 = j
        OBVIOUS
      <4> QED BY <3>1, <4>1 DEF Inserted, Comes
    <3>3. CASE i <= k
      <4>1. i \in 1 .. k /\ i \in 1 .. n /\ i <= j - 1
        BY <1>1, <3>1, <3>3
      <4> QED BY <3>1, <3>2, <4>1 DEF Inserted, Sorted
    <3>4. CASE i = k + 1
      <4>1. r[i] = x
        BY <3>4 DEF Inserted
      <4> QED BY <1>1, <3>1, <3>2, <4>1
    <3>5. CASE i > k + 1
      <4>1. i - 1 \in k + 1 .. n /\ i - 1 \in 1 .. n /\ i - 1 <= j - 1 /\ (i - 1) + 1 = i
        BY <1>1, <1>2, <3>5
      <4>2. r[i] = s[i - 1]
        BY <4>1 DEF Inserted
      <4> QED BY <3>1, <3>2, <4>1, <4>2 DEF Sorted
    <3> QED BY <1>1, <3>3, <3>4, <3>5
  <2> QED BY <1>1, <2>1, <2>2, <2>3
<1>3. Len(r) = n + 1 /\ \A i \in 1 .. n + 1 : r[i] \in Int
  BY DEF Inserted
<1> QED BY <1>1, <1>2, <1>3 DEF Sorted

\* A is the lower part of s, B the upper one.
Parts(A, B, s) ==
    /\ A \in Seq(Int) /\ B \in Seq(Int) /\ s \in Seq(Int) /\ Len(s) = Len(A) + Len(B)
    /\ \A i \in 1 .. Len(A) : A[i] = s[i]
    /\ \A i \in 1 .. Len(B) : B[i] = s[Len(A) + i]

\* The place of a number in the parts.
LEMMA PartsSorted ==
    ASSUME NEW A, NEW B, NEW s, Parts(A, B, s), Sorted(s)
    PROVE  /\ Sorted(A) /\ Sorted(B)
           /\ \A i \in 1 .. Len(A), j \in 1 .. Len(B) : A[i] <= B[j]
<1> DEFINE a == Len(A)
           b == Len(B)
<1>1. /\ a \in Nat /\ b \in Nat /\ Len(s) = a + b
      /\ \A i \in 1 .. a : A[i] = s[i]
      /\ \A i \in 1 .. b : B[i] = s[a + i]
      /\ \A i, j \in 1 .. a + b : i <= j => s[i] <= s[j]
  BY DEF Parts, Sorted
<1> HIDE DEF a, b
<1>2. \A i \in 1 .. a : i \in 1 .. a + b
  BY <1>1
<1>3. \A i \in 1 .. b : a + i \in 1 .. a + b
  BY <1>1
<1>4. \A i, j \in 1 .. a : i <= j => A[i] <= A[j]
  BY <1>1, <1>2
<1>5. \A i, j \in 1 .. b : i <= j => B[i] <= B[j]
  <2> SUFFICES ASSUME NEW i \in 1 .. b, NEW j \in 1 .. b, i <= j PROVE B[i] <= B[j]
    OBVIOUS
  <2>1. a + i <= a + j
    BY <1>1
  <2> QED BY <1>1, <1>3, <2>1
<1>6. \A i \in 1 .. a, j \in 1 .. b : A[i] <= B[j]
  <2> SUFFICES ASSUME NEW i \in 1 .. a, NEW j \in 1 .. b PROVE A[i] <= B[j]
    OBVIOUS
  <2>1. i <= a + j
    BY <1>1
  <2> QED BY <1>1, <1>2, <1>3, <2>1
<1> QED BY <1>4, <1>5, <1>6 DEF Sorted, a, b

\* The place of a number in the whole gives its places in the parts.
LEMMA ComesInParts ==
    ASSUME NEW A, NEW B, NEW s, Parts(A, B, s), NEW x \in Int, NEW k, Comes(s, x, k)
    PROVE  /\ Comes(A, x, IF k <= Len(A) THEN k ELSE Len(A))
           /\ Comes(B, x, IF k <= Len(A) THEN 0 ELSE k - Len(A))
<1> DEFINE a == Len(A)
           b == Len(B)
<1>1. /\ a \in Nat /\ b \in Nat /\ Len(s) = a + b /\ k \in 0 .. a + b
      /\ \A i \in 1 .. a : A[i] = s[i]
      /\ \A i \in 1 .. b : B[i] = s[a + i]
      /\ \A i \in 1 .. k : s[i] <= x
      /\ \A i \in k + 1 .. a + b : x < s[i]
  BY DEF Parts, Comes
<1> HIDE DEF a, b
<1>2. CASE k <= a
  <2>1. \A i \in 1 .. k : A[i] <= x
    BY <1>1, <1>2
  <2>2. \A i \in k + 1 .. a : x < A[i]
    <3>1. \A i \in k + 1 .. a : i \in k + 1 .. a + b /\ i \in 1 .. a
      BY <1>1, <1>2
    <3> QED BY <1>1, <3>1
  <2>3. \A i \in 1 .. b : x < B[i]
    <3>1. \A i \in 1 .. b : a + i \in k + 1 .. a + b
      BY <1>1, <1>2
    <3> QED BY <1>1, <3>1
  <2>4. Comes(A, x, k)
    BY <1>1, <1>2, <2>1, <2>2 DEF Comes, a
  <2>5. Comes(B, x, 0)
    BY <1>1, <2>3 DEF Comes, b
  <2> QED BY <1>2, <2>4, <2>5 DEF a
<1>3. CASE ~ (k <= a)
  <2>1. \A i \in 1 .. a : A[i] <= x
    <3>1. \A i \in 1 .. a : i \in 1 .. k
      BY <1>1, <1>3
    <3> QED BY <1>1, <3>1
  <2>2. PICK l \in 0 .. b : l = k - a
    BY <1>1, <1>3
  <2>3. \A i \in 1 .. l : B[i] <= x
    <3>1. \A i \in 1 .. l : a + i \in 1 .. k /\ i \in 1 .. b
      BY <1>1, <1>3, <2>2
    <3> QED BY <1>1, <3>1
  <2>4. \A i \in l + 1 .. b : x < B[i]
    <3>1. \A i \in l + 1 .. b : a + i \in k + 1 .. a + b /\ i \in 1 .. b
      BY <1>1, <1>3, <2>2
    <3> QED BY <1>1, <3>1
  <2>5. Comes(A, x, a)
    BY <1>1, <2>1 DEF Comes, a
  <2>6. Comes(B, x, l)
    BY <1>1, <2>2, <2>3, <2>4 DEF Comes, b
  <2> QED BY <1>3, <2>2, <2>5, <2>6 DEF a
<1> QED BY <1>2, <1>3

\* A number that is not above any element can as well be put first.
LEMMA InsertedFirst ==
    ASSUME NEW s \in Seq(Int), NEW x \in Int, NEW k, Comes(s, x, k), NEW r, Inserted(s, x, k, r),
           \A i \in 1 .. Len(s) : x <= s[i]
    PROVE  r[1] = x /\ \A i \in 1 .. Len(s) : r[i + 1] = s[i]
<1> DEFINE n == Len(s)
<1>1. n \in Nat /\ k \in 0 .. n /\ \A i \in 1 .. n : s[i] \in Int
  BY DEF Comes
<1>2. \A i \in 1 .. k : i \in 1 .. n /\ s[i] = x /\ r[i] = x
  <2> SUFFICES ASSUME NEW i \in 1 .. k PROVE i \in 1 .. n /\ s[i] = x /\ r[i] = x
    OBVIOUS
  <2>1. i \in 1 .. n
    BY <1>1
  <2>2. s[i] <= x /\ x <= s[i] /\ s[i] \in Int
    BY <1>1, <2>1 DEF Comes
  <2>3. s[i] = x
    BY <2>2
  <2> QED BY <2>1, <2>3 DEF Inserted
<1>3. r[k + 1] = x
  BY DEF Inserted
<1>4. r[1] = x
  <2>1. CASE k = 0
    BY <1>3, <2>1
  <2>2. CASE k # 0
    <3>1. 1 \in 1 .. k
      BY <1>1, <2>2
    <3> QED BY <1>2, <3>1
  <2> QED BY <2>1, <2>2
<1>5. ASSUME NEW i \in 1 .. n PROVE r[i + 1] = s[i]
  <2>1. CASE i + 1 <= k
    <3>1. i \in 1 .. k /\ i + 1 \in 1 .. k
      BY <1>1, <2>1
    <3> QED BY <1>2, <3>1
  <2>2. CASE i = k
    <3>1. i \in 1 .. k
      BY <1>1, <2>2
    <3> QED BY <1>2, <1>3, <2>2, <3>1
  <2>3. CASE i > k
    <3>1. i \in k + 1 .. n
      BY <1>1, <2>3
    <3> QED BY <3>1 DEF Inserted
  <2> QED BY <1>1, <2>1, <2>2, <2>3
<1> QED BY <1>4, <1>5

-----------------------------------------------------------------------------
(* References counted. *)

\* How many variables of H have the value p.
Referring(H, f, p) == {x \in H : f[x] = p}
Number(H, f, p) == Cardinality(Referring(H, f, p))

\* One variable gets another value.
LEMMA Repoint ==
    ASSUME NEW H, IsFiniteSet(H), NEW f, NEW g, NEW h \in H, NEW o,
           g = [x \in H |-> IF x = h THEN o ELSE f[x]], f[h] # o
    PROVE  /\ \A p : Number(H, f, p) \in Nat /\ Number(H, g, p) \in Nat
           /\ Number(H, g, o) = Number(H, f, o) + 1
           /\ Number(H, f, f[h]) = Number(H, g, f[h]) + 1
           /\ \A p : p # o /\ p # f[h] => Number(H, g, p) = Number(H, f, p)
<1>1. \A p : IsFiniteSet(Referring(H, f, p)) /\ IsFiniteSet(Referring(H, g, p))
  <2>1. \A p : Referring(H, f, p) \subseteq H /\ Referring(H, g, p) \subseteq H
    BY DEF Referring
  <2> QED BY <2>1, FS_Subset
<1>2. \A p : Number(H, f, p) \in Nat /\ Number(H, g, p) \in Nat
  BY <1>1, FS_CardinalityType DEF Number
<1>3. Number(H, g, o) = Number(H, f, o) + 1
  <2>1. Referring(H, g, o) = Referring(H, f, o) \cup {h} /\ h \notin Referring(H, f, o)
    BY DEF Referring
  <2> QED BY <1>1, <2>1, FS_AddElement DEF Number
<1>4. Number(H, f, f[h]) = Number(H, g, f[h]) + 1
  <2>1. Referring(H, f, f[h]) = Referring(H, g, f[h]) \cup {h} /\ h \notin Referring(H, g, f[h])
    BY DEF Referring
  <2> QED BY <1>1, <2>1, FS_AddElement DEF Number
<1>5. ASSUME NEW p, p # o, p # f[h] PROVE Number(H, g, p) = Number(H, f, p)
  <2>1. Referring(H, g, p) = Referring(H, f, p)
    BY <1>5 DEF Referring
  <2> QED BY <2>1 DEF Number
<1> QED BY <1>2, <1>3, <1>4, <1>5

\* No variable has the value exactly when its number is zero.
LEMMA NoneRefers ==
    ASSUME NEW H, IsFiniteSet(H), NEW f, NEW p
    PROVE  Number(H, f, p) \in Nat /\ (Number(H, f, p) = 0 <=> \A x \in H : f[x] # p)
<1>1. IsFiniteSet(Referring(H, f, p))
  <2>1. Referring(H, f, p) \subseteq H
    BY DEF Referring
  <2> QED BY <2>1, FS_Subset
<1>2. Number(H, f, p) \in Nat
  BY <1>1, FS_CardinalityType DEF Number
<1>3. Number(H, f, p) = 0 <=> Referring(H, f, p) = {}
  BY <1>1, FS_EmptySet DEF Number
<1>4. Referring(H, f, p) = {} <=> \A x \in H : f[x] # p
  BY DEF Referring
<1> QED BY <1>2, <1>3, <1>4

-----------------------------------------------------------------------------
(* Search trees. *)

\* Every node x of A lies between lo[x] and hi[x], the nearest nodes above it on its left and
\* its right or the ends; par[x] is the node above it.  Where a link is missing, the values
\* between the node and that end are not in the tree.
TreeNode(N, x, root, lc, rc, A, lo, hi, par) ==
    /\ 0 <= lo[x] /\ lo[x] < x /\ x < hi[x] /\ hi[x] <= N + 1
    /\ lc[x] # 0 => lc[x] \in A /\ par[lc[x]] = x /\ lo[lc[x]] = lo[x] /\ hi[lc[x]] = x
    /\ rc[x] # 0 => rc[x] \in A /\ par[rc[x]] = x /\ lo[rc[x]] = x /\ hi[rc[x]] = hi[x]
    /\ par[x] = 0 => x = root
    /\ par[x] # 0 => par[x] \in A /\ (lc[par[x]] = x \/ rc[par[x]] = x)
    /\ lo[x] # 0 => lo[x] \in A /\ rc[lo[x]] # 0 /\ hi[x] <= hi[lo[x]]
    /\ hi[x] # N + 1 => hi[x] \in A /\ lc[hi[x]] # 0 /\ lo[hi[x]] <= lo[x]
    /\ lc[x] = 0 => \A y \in A : ~ (lo[x] < y /\ y < x)
    /\ rc[x] = 0 => \A y \in A : ~ (x < y /\ y < hi[x])
Values(N) == 1 .. N
SearchTree(N, root, lc, rc, A, lo, hi, par) ==
    /\ A \subseteq Values(N) /\ root \in A \cup {0} /\ (root = 0 => A = {})
    /\ lc \in [Values(N) -> Values(N) \cup {0}] /\ rc \in [Values(N) -> Values(N) \cup {0}]
    /\ lo \in [Values(N) -> Int]
    /\ hi \in [Values(N) -> Int] /\ par \in [Values(N) -> Values(N) \cup {0}]
    /\ root # 0 => lo[root] = 0 /\ hi[root] = N + 1 /\ par[root] = 0
    /\ \A x \in A : TreeNode(N, x, root, lc, rc, A, lo, hi, par)
    /\ \A x \in Values(N) : x \notin A => lc[x] = 0 /\ rc[x] = 0

\* A walk that comes nearer at every step is a function.
LEMMA Descent ==
    ASSUME NEW D, NEW nx, NEW h \in [D -> Nat], NEW M \in Nat,
           \A x \in D : h[x] < M /\ (nx[x] # 0 => nx[x] \in D /\ h[nx[x]] < h[x])
    PROVE  \E f : f = [x \in D |-> IF nx[x] = 0 THEN x ELSE f[nx[x]]]
<1>0. \A x \in D : h[x] \in Nat /\ (nx[x] # 0 => nx[x] \in D /\ h[nx[x]] < h[x] /\ h[nx[x]] \in Nat)
  OBVIOUS
<1> DEFINE Good(g, m) == \A x \in D : h[x] < m => g[x] = IF nx[x] = 0 THEN x ELSE g[nx[x]]
           T == {m \in Nat : ~ \E g : g = [x \in D |-> g[x]] /\ Good(g, m)}
<1>1. T = {}
  <2> SUFFICES ASSUME T # {} PROVE FALSE
    OBVIOUS
  <2>1. PICK m \in T : \A y \in T : m <= y
    <3>1. T \in SUBSET Nat
      OBVIOUS
    <3> HIDE DEF T
    <3> QED BY <3>1, Least
  <2>2. m # 0
    <3>1. PICK g : g = [x \in D |-> x]
      OBVIOUS
    <3>2. g = [x \in D |-> g[x]]
      BY <3>1
    <3>3. Good(g, 0)
      <4>1. \A x \in D : ~ (h[x] < 0)
        OBVIOUS
      <4> QED BY <4>1
    <3> QED BY <2>1, <3>2, <3>3
  <2>3. m \in Nat /\ m - 1 \in Nat /\ m - 1 \notin T
    BY <2>1, <2>2
  <2>4. PICK g : g = [x \in D |-> g[x]] /\ Good(g, m - 1)
    BY <2>3
  <2>5. PICK f : f = [x \in D |-> IF h[x] < m - 1 THEN g[x] ELSE IF nx[x] = 0 THEN x ELSE g[nx[x]]]
    OBVIOUS
  <2>6. f = [x \in D |-> f[x]]
    BY <2>5
  <2>7. ASSUME NEW x \in D, h[x] < m PROVE f[x] = IF nx[x] = 0 THEN x ELSE f[nx[x]]
    <3>1. h[x] \in Nat /\ (nx[x] # 0 => nx[x] \in D /\ h[nx[x]] < h[x] /\ h[nx[x]] \in Nat)
      BY ONLY <1>0, <2>7
    <3>2. nx[x] # 0 => f[nx[x]] = g[nx[x]]
      <4>1. nx[x] # 0 => nx[x] \in D /\ h[nx[x]] < m - 1
        BY <2>3, <2>7, <3>1
      <4> QED BY <2>5, <4>1
    <3>3. f[x] = IF nx[x] = 0 THEN x ELSE g[nx[x]]
      BY <2>4, <2>5
    <3> QED BY <3>2, <3>3
  <2> QED BY <2>1, <2>6, <2>7
<1>2. PICK f : f = [x \in D |-> f[x]] /\ Good(f, M)
  BY <1>1
<1>3. \A x \in D : f[x] = IF nx[x] = 0 THEN x ELSE f[nx[x]]
  BY <1>2
<1>4. PICK g : g = [x \in D |-> IF nx[x] = 0 THEN x ELSE f[nx[x]]]
  OBVIOUS
<1>5. \A x \in D : f[x] = g[x]
  BY <1>3, <1>4
<1>6. g = [x \in D |-> g[x]]
  BY <1>4
<1>7. f = g
  BY ONLY <1>2, <1>5, <1>6
<1> QED BY <1>4, <1>7

\* It ends where there is no next node, and in every set that it does not leave.
LEMMA DescentEnds ==
    ASSUME NEW D, NEW nx, NEW h \in [D -> Nat], NEW G \in SUBSET D, NEW f,
           \A x \in G : nx[x] # 0 => nx[x] \in G /\ h[nx[x]] < h[x],
           \A x \in D : f[x] = IF nx[x] = 0 THEN x ELSE f[nx[x]]
    PROVE  \A x \in G : f[x] \in G /\ nx[f[x]] = 0
<1> DEFINE T == {h[x] : x \in {y \in G : ~ (f[y] \in G /\ nx[f[y]] = 0)}}
<1> SUFFICES ASSUME T # {} PROVE FALSE
  OBVIOUS
<1>1. PICK m \in T : \A y \in T : m <= y
  <2>1. T \in SUBSET Nat
    OBVIOUS
  <2> HIDE DEF T
  <2> QED BY <2>1, Least
<1>2. PICK x \in G : m = h[x] /\ ~ (f[x] \in G /\ nx[f[x]] = 0)
  OBVIOUS
<1>3. nx[x] # 0
  BY <1>2
<1>4. nx[x] \in G /\ h[nx[x]] < h[x] /\ f[x] = f[nx[x]]
  BY <1>2, <1>3
<1>5. h[nx[x]] \in T
  BY <1>2, <1>4
<1>6. h[nx[x]] \in Nat /\ h[x] \in Nat
  BY <1>4
<1>7. m <= h[nx[x]]
  <2> HIDE DEF T
  <2> QED BY <1>1, <1>5
<1> QED BY <1>2, <1>4, <1>6, <1>7

\* What the shape says of one node.
LEMMA NodeOfTree ==
    ASSUME NEW N, NEW root, NEW lc, NEW rc, NEW A, NEW lo, NEW hi, NEW par,
           SearchTree(N, root, lc, rc, A, lo, hi, par), NEW x \in A
    PROVE  /\ x \in Values(N) /\ x # 0 /\ lo[x] \in Int /\ hi[x] \in Int /\ par[x] \in Values(N) \cup {0}
           /\ lc[x] \in Values(N) \cup {0} /\ rc[x] \in Values(N) \cup {0}
           /\ 0 <= lo[x] /\ lo[x] < x /\ x < hi[x] /\ hi[x] <= N + 1
           /\ lc[x] # 0 => lc[x] \in A /\ par[lc[x]] = x /\ lo[lc[x]] = lo[x] /\ hi[lc[x]] = x
           /\ rc[x] # 0 => rc[x] \in A /\ par[rc[x]] = x /\ lo[rc[x]] = x /\ hi[rc[x]] = hi[x]
           /\ par[x] = 0 => x = root
           /\ par[x] # 0 => par[x] \in A /\ (lc[par[x]] = x \/ rc[par[x]] = x)
           /\ lo[x] # 0 => lo[x] \in A /\ rc[lo[x]] # 0 /\ hi[x] <= hi[lo[x]]
           /\ hi[x] # N + 1 => hi[x] \in A /\ lc[hi[x]] # 0 /\ lo[hi[x]] <= lo[x]
           /\ lc[x] = 0 => \A y \in A : ~ (lo[x] < y /\ y < x)
           /\ rc[x] = 0 => \A y \in A : ~ (x < y /\ y < hi[x])
BY SMT DEF SearchTree, TreeNode, Values

\* The first node.
LEMMA GrowsFirst ==
    ASSUME NEW N \in Nat, NEW lc, NEW rc, NEW A, NEW lo, NEW hi, NEW par,
           SearchTree(N, 0, lc, rc, A, lo, hi, par), NEW d \in Values(N)
    PROVE  \E lo2, hi2, par2 : SearchTree(N, d, lc, rc, A \cup {d}, lo2, hi2, par2)
<1>1. PICK lo2, hi2, par2 : /\ lo2 = [x \in Values(N) |-> 0] /\ hi2 = [x \in Values(N) |-> N + 1]
                            /\ par2 = [x \in Values(N) |-> 0]
  OBVIOUS
<1>2. /\ A = {} /\ \A x \in Values(N) : lc[x] = 0 /\ rc[x] = 0
      /\ lc \in [Values(N) -> Values(N) \cup {0}] /\ rc \in [Values(N) -> Values(N) \cup {0}]
  BY DEF SearchTree
<1>3. lo2[d] = 0 /\ hi2[d] = N + 1 /\ par2[d] = 0 /\ d \in Int /\ 0 < d /\ d < N + 1
  BY <1>1 DEF Values
<1>4. lo2 \in [Values(N) -> Int] /\ hi2 \in [Values(N) -> Int] /\ par2 \in [Values(N) -> Values(N) \cup {0}]
  BY <1>1
<1>5. TreeNode(N, d, d, lc, rc, {d}, lo2, hi2, par2)
  <2>1. lc[d] = 0 /\ rc[d] = 0 /\ N + 1 \in Int
    BY <1>2
  <2>2. \A y \in {d} : ~ (y < d) /\ ~ (d < y)
    BY <1>3
  <2> QED BY <1>3, <2>1, <2>2 DEF TreeNode
<1>6. SearchTree(N, d, lc, rc, {d}, lo2, hi2, par2)
  BY <1>2, <1>3, <1>4, <1>5 DEF SearchTree
<1>7. A \cup {d} = {d}
  BY <1>2
<1> QED BY <1>6, <1>7

\* A new leaf on the left.
LEMMA GrowsLeft ==
    ASSUME NEW N \in Nat, NEW root, NEW lc, NEW rc, NEW A, NEW lo, NEW hi, NEW par,
           SearchTree(N, root, lc, rc, A, lo, hi, par),
           NEW d \in Values(N), d \notin A, NEW p \in A, lo[p] < d, d < p, lc[p] = 0
    PROVE  \E lo2, hi2, par2 : SearchTree(N, root, [lc EXCEPT ![p] = d], rc, A \cup {d}, lo2, hi2, par2)
<1>1. PICK l2, lo2, hi2, par2 :
         /\ l2 = [lc EXCEPT ![p] = d] /\ par2 = [par EXCEPT ![d] = p]
         /\ lo2 = [lo EXCEPT ![d] = lo[p]] /\ hi2 = [hi EXCEPT ![d] = p]
  OBVIOUS
<1>2. /\ A \subseteq Values(N) /\ root \in A /\ root # 0
      /\ lc \in [Values(N) -> Values(N) \cup {0}] /\ rc \in [Values(N) -> Values(N) \cup {0}]
      /\ lo \in [Values(N) -> Int]
      /\ hi \in [Values(N) -> Int] /\ par \in [Values(N) -> Values(N) \cup {0}]
      /\ lo[root] = 0 /\ hi[root] = N + 1 /\ par[root] = 0
      /\ \A x \in Values(N) : x \notin A => lc[x] = 0 /\ rc[x] = 0
  BY DEF SearchTree, Values
<1>3. \A x \in Values(N) : x \in Int /\ 1 <= x /\ x <= N
  BY DEF Values
<1>4. /\ l2 \in [Values(N) -> Values(N) \cup {0}] /\ par2 \in [Values(N) -> Values(N) \cup {0}]
      /\ lo2 \in [Values(N) -> Int] /\ hi2 \in [Values(N) -> Int]
      /\ \A x \in Values(N) : /\ l2[x] = (IF x = p THEN d ELSE lc[x])
                           /\ par2[x] = (IF x = d THEN p ELSE par[x])
                           /\ lo2[x] = (IF x = d THEN lo[p] ELSE lo[x])
                           /\ hi2[x] = (IF x = d THEN p ELSE hi[x])
  BY <1>1, <1>2, <1>3
<1>5. /\ lo[p] < d /\ d < hi[p] /\ p \in Values(N) /\ d # p
      /\ lo[p] # 0 => lo[p] \in A /\ rc[lo[p]] # 0 /\ hi[p] <= hi[lo[p]]
      /\ hi[p] # N + 1 => hi[p] \in A /\ lc[hi[p]] # 0 /\ lo[hi[p]] <= lo[p]
      /\ \A y \in A : ~ (lo[p] < y /\ y < p)
      /\ 0 <= lo[p] /\ lo[p] < p /\ p < hi[p] /\ hi[p] <= N + 1 /\ lo[p] \in Int /\ hi[p] \in Int
  BY <1>2, <1>3, NodeOfTree
<1>6. ASSUME NEW x \in A PROVE TreeNode(N, x, root, l2, rc, A \cup {d}, lo2, hi2, par2)
  <2>1. /\ x \in Values(N) /\ x # d /\ lo2[x] = lo[x] /\ hi2[x] = hi[x] /\ par2[x] = par[x]
        /\ lo[x] \in Int /\ hi[x] \in Int /\ x \in Int
    BY <1>2, <1>3, <1>4
  <2>2. 0 <= lo[x] /\ lo[x] < x /\ x < hi[x] /\ hi[x] <= N + 1
    BY NodeOfTree
  <2>3. /\ rc[x] # 0 => rc[x] \in A /\ par[rc[x]] = x /\ lo[rc[x]] = x /\ hi[rc[x]] = hi[x]
        /\ lc[x] # 0 => lc[x] \in A /\ par[lc[x]] = x /\ lo[lc[x]] = lo[x] /\ hi[lc[x]] = x
        /\ par[x] = 0 => x = root
        /\ par[x] # 0 => par[x] \in A /\ (lc[par[x]] = x \/ rc[par[x]] = x)
    BY NodeOfTree
  <2>4. \A c \in A : c \in Values(N) /\ c # d
    BY <1>2
  <2>5. rc[x] # 0 => rc[x] \in A /\ par2[rc[x]] = x /\ lo2[rc[x]] = x /\ hi2[rc[x]] = hi[x]
    BY <1>4, <2>3, <2>4
  <2>6. l2[x] # 0 => l2[x] \in A \cup {d} /\ par2[l2[x]] = x /\ lo2[l2[x]] = lo[x] /\ hi2[l2[x]] = x
    BY <1>4, <2>1, <2>3, <2>4
  <2>7. par[x] # 0 => (l2[par[x]] = x \/ rc[par[x]] = x)
    <3>1. par[x] # p \/ lc[p] # x
      BY <1>3, <2>1
    <3> QED BY <1>4, <2>3, <2>4, <3>1
  <2>8. lo[x] # 0 => lo[x] \in A /\ rc[lo[x]] # 0 /\ hi[x] <= hi2[lo[x]]
    BY <1>3, <1>4, <2>4, NodeOfTree
  <2>9. hi[x] # N + 1 => hi[x] \in A /\ l2[hi[x]] # 0 /\ lo2[hi[x]] <= lo[x]
    BY <1>3, <1>4, <2>4, NodeOfTree
  <2>10. l2[x] = 0 => \A y \in A \cup {d} : ~ (lo[x] < y /\ y < x)
    <3> SUFFICES ASSUME l2[x] = 0, NEW y \in A \cup {d}, lo[x] < y, y < x PROVE FALSE
      OBVIOUS
    <3>1. lc[x] = 0 /\ x # p
      BY <1>3, <1>4, <2>1
    <3>2. y = d /\ \A z \in A : ~ (lo[x] < z /\ z < x)
      BY <3>1, NodeOfTree
    <3>3. ~ (lo[x] < p /\ p < x)
      BY <3>2
    <3>4. x <= p
      BY <1>3, <1>5, <2>1, <3>2, <3>3
    <3>5. ~ (lo[p] < x /\ x < p)
      BY <1>5
    <3>6. x \in Int /\ d \in Int /\ p \in Int /\ lo[p] \in Int /\ hi[p] \in Int /\ lo[p] < d /\ d < hi[p] /\ x # p
      BY <1>3, <1>5, <2>1, <3>1
    <3>7. d < x
      BY <3>2
    <3> QED BY ONLY <3>4, <3>5, <3>6, <3>7
  <2>11. rc[x] = 0 => \A y \in A \cup {d} : ~ (x < y /\ y < hi[x])
    <3> SUFFICES ASSUME rc[x] = 0, NEW y \in A \cup {d}, x < y, y < hi[x] PROVE FALSE
      OBVIOUS
    <3>1. rc[x] = 0
      BY <1>3, <1>4, <2>1
    <3>2. y = d /\ \A z \in A : ~ (x < z /\ z < hi[x])
      BY <3>1, NodeOfTree
    <3>3. ~ (lo[p] < x /\ x < p) /\ ~ (x < p /\ p < hi[x])
      BY <1>5, <3>2
    <3>4. x < p /\ x <= lo[p] /\ hi[x] <= p
      BY <1>3, <1>5, <2>1, <3>2, <3>3
    <3>5. lo[p] = x
      <4> SUFFICES ASSUME x < lo[p] PROVE FALSE
        BY <1>5, <2>1, <3>4
      <4>1. lo[p] \in A /\ lo[p] < hi[x]
        BY <1>3, <1>5, <2>1, <2>2, <3>2
      <4> QED BY <3>2, <4>1
    <3>6. hi[x] = p
      <4> SUFFICES ASSUME hi[x] < p PROVE FALSE
        BY <1>3, <1>5, <2>1, <3>4
      <4>1. hi[x] \in A
        BY <1>3, <1>5, NodeOfTree
      <4> QED BY <1>5, <2>2, <3>5, <4>1
    <3>7. lc[p] # 0
      BY <1>3, <1>5, <3>6, NodeOfTree
    <3> QED BY <3>7
  <2> QED BY <2>1, <2>2, <2>3, <2>5, <2>6, <2>7, <2>8, <2>9, <2>10, <2>11 DEF TreeNode
<1>7. TreeNode(N, d, root, l2, rc, A \cup {d}, lo2, hi2, par2)
  <2>1. /\ lo2[d] = lo[p] /\ hi2[d] = p /\ par2[d] = p
        /\ l2[d] = 0 /\ rc[d] = 0 /\ l2[p] = d
    BY <1>2, <1>4, <1>5
  <2>2. \A y \in A \cup {d} : ~ (lo2[d] < y /\ y < d) /\ ~ (d < y /\ y < hi2[d])
    <3> SUFFICES ASSUME NEW y \in A \cup {d}, (lo2[d] < y /\ y < d) \/ (d < y /\ y < hi2[d]) PROVE FALSE
      OBVIOUS
    <3>1. y \in Int /\ d \in Int /\ p \in Int
      BY <1>2, <1>3, <1>5
    <3>2. y \in A
      BY <3>1
    <3> QED BY <1>5, <2>1, <3>1, <3>2
  <2>3. \A y \in A : lo2[y] = lo[y] /\ hi2[y] = hi[y] /\ (y # p => l2[y] = lc[y])
    BY <1>2, <1>4
  <2>4. lo2[d] # 0 => lo2[d] \in A /\ rc[lo2[d]] # 0 /\ hi2[d] <= hi2[lo2[d]]
    BY <1>2, <1>3, <1>5, <2>1, <2>3
  <2>5. hi2[d] # N + 1 => hi2[d] \in A /\ l2[hi2[d]] # 0 /\ lo2[hi2[d]] <= lo2[d]
    BY <1>2, <1>3, <1>5, <2>1, <2>3
  <2>6. 0 <= lo2[d] /\ lo2[d] < d /\ d < hi2[d] /\ hi2[d] <= N + 1
    BY <1>3, <1>5, <2>1
  <2>7. p # 0
    BY <1>3, <1>5
  <2> QED BY <2>1, <2>2, <2>4, <2>5, <2>6, <2>7 DEF TreeNode
<1>8. /\ A \cup {d} \subseteq Values(N) /\ root \in A \cup {d} \cup {0}
      /\ \A x \in Values(N) : x \notin A \cup {d} => l2[x] = 0 /\ rc[x] = 0
      /\ lo2[root] = 0 /\ hi2[root] = N + 1 /\ par2[root] = 0
  BY <1>2, <1>4
<1>9. \A x \in A \cup {d} : TreeNode(N, x, root, l2, rc, A \cup {d}, lo2, hi2, par2)
  BY <1>6, <1>7
<1>10. SearchTree(N, root, l2, rc, A \cup {d}, lo2, hi2, par2)
  BY <1>2, <1>4, <1>8, <1>9 DEF SearchTree
<1> QED BY <1>1, <1>10

\* A new leaf on the right.
LEMMA GrowsRight ==
    ASSUME NEW N \in Nat, NEW root, NEW lc, NEW rc, NEW A, NEW lo, NEW hi, NEW par,
           SearchTree(N, root, lc, rc, A, lo, hi, par),
           NEW d \in Values(N), d \notin A, NEW p \in A, p < d, d < hi[p], rc[p] = 0
    PROVE  \E lo2, hi2, par2 : SearchTree(N, root, lc, [rc EXCEPT ![p] = d], A \cup {d}, lo2, hi2, par2)
<1>1. PICK l2, lo2, hi2, par2 :
         /\ l2 = [rc EXCEPT ![p] = d] /\ par2 = [par EXCEPT ![d] = p]
         /\ lo2 = [lo EXCEPT ![d] = p] /\ hi2 = [hi EXCEPT ![d] = hi[p]]
  OBVIOUS
<1>2. /\ A \subseteq Values(N) /\ root \in A /\ root # 0
      /\ lc \in [Values(N) -> Values(N) \cup {0}] /\ rc \in [Values(N) -> Values(N) \cup {0}]
      /\ lo \in [Values(N) -> Int]
      /\ hi \in [Values(N) -> Int] /\ par \in [Values(N) -> Values(N) \cup {0}]
      /\ lo[root] = 0 /\ hi[root] = N + 1 /\ par[root] = 0
      /\ \A x \in Values(N) : x \notin A => lc[x] = 0 /\ rc[x] = 0
  BY DEF SearchTree, Values
<1>3. \A x \in Values(N) : x \in Int /\ 1 <= x /\ x <= N
  BY DEF Values
<1>4. /\ l2 \in [Values(N) -> Values(N) \cup {0}] /\ par2 \in [Values(N) -> Values(N) \cup {0}]
      /\ lo2 \in [Values(N) -> Int] /\ hi2 \in [Values(N) -> Int]
      /\ \A x \in Values(N) : /\ l2[x] = (IF x = p THEN d ELSE rc[x])
                           /\ par2[x] = (IF x = d THEN p ELSE par[x])
                           /\ lo2[x] = (IF x = d THEN p ELSE lo[x])
                           /\ hi2[x] = (IF x = d THEN hi[p] ELSE hi[x])
  BY <1>1, <1>2, <1>3
<1>5. /\ lo[p] < d /\ d < hi[p] /\ p \in Values(N) /\ d # p
      /\ lo[p] # 0 => lo[p] \in A /\ rc[lo[p]] # 0 /\ hi[p] <= hi[lo[p]]
      /\ hi[p] # N + 1 => hi[p] \in A /\ lc[hi[p]] # 0 /\ lo[hi[p]] <= lo[p]
      /\ \A y \in A : ~ (p < y /\ y < hi[p])
      /\ 0 <= lo[p] /\ lo[p] < p /\ p < hi[p] /\ hi[p] <= N + 1 /\ lo[p] \in Int /\ hi[p] \in Int
  BY <1>2, <1>3, NodeOfTree
<1>6. ASSUME NEW x \in A PROVE TreeNode(N, x, root, lc, l2, A \cup {d}, lo2, hi2, par2)
  <2>1. /\ x \in Values(N) /\ x # d /\ lo2[x] = lo[x] /\ hi2[x] = hi[x] /\ par2[x] = par[x]
        /\ lo[x] \in Int /\ hi[x] \in Int /\ x \in Int
    BY <1>2, <1>3, <1>4
  <2>2. 0 <= lo[x] /\ lo[x] < x /\ x < hi[x] /\ hi[x] <= N + 1
    BY NodeOfTree
  <2>3. /\ lc[x] # 0 => lc[x] \in A /\ par[lc[x]] = x /\ lo[lc[x]] = lo[x] /\ hi[lc[x]] = x
        /\ rc[x] # 0 => rc[x] \in A /\ par[rc[x]] = x /\ lo[rc[x]] = x /\ hi[rc[x]] = hi[x]
        /\ par[x] = 0 => x = root
        /\ par[x] # 0 => par[x] \in A /\ (lc[par[x]] = x \/ rc[par[x]] = x)
    BY NodeOfTree
  <2>4. \A c \in A : c \in Values(N) /\ c # d
    BY <1>2
  <2>5. lc[x] # 0 => lc[x] \in A /\ par2[lc[x]] = x /\ lo2[lc[x]] = lo[x] /\ hi2[lc[x]] = x
    BY <1>4, <2>3, <2>4
  <2>6. l2[x] # 0 => l2[x] \in A \cup {d} /\ par2[l2[x]] = x /\ lo2[l2[x]] = x /\ hi2[l2[x]] = hi[x]
    BY <1>4, <2>1, <2>3, <2>4
  <2>7. par[x] # 0 => (lc[par[x]] = x \/ l2[par[x]] = x)
    <3>1. par[x] # p \/ rc[p] # x
      BY <1>3, <2>1
    <3> QED BY <1>4, <2>3, <2>4, <3>1
  <2>8. lo[x] # 0 => lo[x] \in A /\ l2[lo[x]] # 0 /\ hi[x] <= hi2[lo[x]]
    BY <1>3, <1>4, <2>4, NodeOfTree
  <2>9. hi[x] # N + 1 => hi[x] \in A /\ lc[hi[x]] # 0 /\ lo2[hi[x]] <= lo[x]
    BY <1>3, <1>4, <2>4, NodeOfTree
  <2>10. lc[x] = 0 => \A y \in A \cup {d} : ~ (lo[x] < y /\ y < x)
    <3> SUFFICES ASSUME lc[x] = 0, NEW y \in A \cup {d}, lo[x] < y, y < x PROVE FALSE
      OBVIOUS
    <3>1. lc[x] = 0
      BY <1>3, <1>4, <2>1
    <3>2. y = d /\ \A z \in A : ~ (lo[x] < z /\ z < x)
      BY <3>1, NodeOfTree
    <3>3. ~ (p < x /\ x < hi[p]) /\ ~ (lo[x] < p /\ p < x)
      BY <1>5, <3>2
    <3>4. p < x /\ hi[p] <= x /\ p <= lo[x]
      BY <1>3, <1>5, <2>1, <3>2, <3>3
    <3>5. hi[p] = x
      <4> SUFFICES ASSUME hi[p] < x PROVE FALSE
        BY <1>5, <2>1, <3>4
      <4>1. hi[p] \in A /\ lo[x] < hi[p]
        BY <1>3, <1>5, <2>1, <2>2, <3>2
      <4> QED BY <3>2, <4>1
    <3>6. lo[x] = p
      <4> SUFFICES ASSUME p < lo[x] PROVE FALSE
        BY <1>3, <1>5, <2>1, <3>4
      <4>1. lo[x] \in A
        BY <1>3, <1>5, NodeOfTree
      <4> QED BY <1>5, <2>2, <3>5, <4>1
    <3>7. rc[p] # 0
      BY <1>3, <1>5, <3>6, NodeOfTree
    <3> QED BY <3>7
  <2>11. l2[x] = 0 => \A y \in A \cup {d} : ~ (x < y /\ y < hi[x])
    <3> SUFFICES ASSUME l2[x] = 0, NEW y \in A \cup {d}, x < y, y < hi[x] PROVE FALSE
      OBVIOUS
    <3>1. rc[x] = 0 /\ x # p
      BY <1>3, <1>4, <2>1
    <3>2. y = d /\ \A z \in A : ~ (x < z /\ z < hi[x])
      BY <3>1, NodeOfTree
    <3>3. ~ (x < p /\ p < hi[x])
      BY <3>2
    <3>4. ~ (p < x /\ x < hi[p])
      BY <1>5
    <3>5. x \in Int /\ hi[x] \in Int /\ d \in Int /\ p \in Int /\ hi[p] \in Int /\ p < d /\ d < hi[p] /\ x # p
      BY <1>3, <1>5, <2>1, <3>1
    <3>6. x < d /\ d < hi[x]
      BY <3>2
    <3> QED BY ONLY <3>3, <3>4, <3>5, <3>6
  <2> QED BY <2>1, <2>2, <2>3, <2>5, <2>6, <2>7, <2>8, <2>9, <2>10, <2>11 DEF TreeNode
<1>7. TreeNode(N, d, root, lc, l2, A \cup {d}, lo2, hi2, par2)
  <2>1. /\ lo2[d] = p /\ hi2[d] = hi[p] /\ par2[d] = p
        /\ l2[d] = 0 /\ lc[d] = 0 /\ l2[p] = d
    BY <1>2, <1>4, <1>5
  <2>2. \A y \in A \cup {d} : ~ (lo2[d] < y /\ y < d) /\ ~ (d < y /\ y < hi2[d])
    <3> SUFFICES ASSUME NEW y \in A \cup {d}, (lo2[d] < y /\ y < d) \/ (d < y /\ y < hi2[d]) PROVE FALSE
      OBVIOUS
    <3>1. y \in Int /\ d \in Int /\ p \in Int
      BY <1>2, <1>3, <1>5
    <3>2. y \in A
      BY <3>1
    <3> QED BY <1>5, <2>1, <3>1, <3>2
  <2>3. \A y \in A : lo2[y] = lo[y] /\ hi2[y] = hi[y] /\ (y # p => l2[y] = rc[y])
    BY <1>2, <1>4
  <2>4. lo2[d] # 0 => lo2[d] \in A /\ l2[lo2[d]] # 0 /\ hi2[d] <= hi2[lo2[d]]
    BY <1>2, <1>3, <1>5, <2>1, <2>3
  <2>5. hi2[d] # N + 1 => hi2[d] \in A /\ lc[hi2[d]] # 0 /\ lo2[hi2[d]] <= lo2[d]
    BY <1>2, <1>3, <1>5, <2>1, <2>3
  <2>6. 0 <= lo2[d] /\ lo2[d] < d /\ d < hi2[d] /\ hi2[d] <= N + 1
    BY <1>3, <1>5, <2>1
  <2>7. p # 0
    BY <1>3, <1>5
  <2> QED BY <2>1, <2>2, <2>4, <2>5, <2>6, <2>7 DEF TreeNode
<1>8. /\ A \cup {d} \subseteq Values(N) /\ root \in A \cup {d} \cup {0}
      /\ \A x \in Values(N) : x \notin A \cup {d} => lc[x] = 0 /\ l2[x] = 0
      /\ lo2[root] = 0 /\ hi2[root] = N + 1 /\ par2[root] = 0
  BY <1>2, <1>4
<1>9. \A x \in A \cup {d} : TreeNode(N, x, root, lc, l2, A \cup {d}, lo2, hi2, par2)
  BY <1>6, <1>7
<1>10. SearchTree(N, root, lc, l2, A \cup {d}, lo2, hi2, par2)
  BY <1>2, <1>4, <1>8, <1>9 DEF SearchTree
<1> QED BY <1>1, <1>10

\* What is known of a node that has a parent.
LEMMA BelowParent ==
    ASSUME NEW N \in Nat, NEW root, NEW lc, NEW rc, NEW A, NEW lo, NEW hi, NEW par,
           SearchTree(N, root, lc, rc, A, lo, hi, par), NEW p \in A, par[p] # 0
    PROVE  /\ par[p] \in A /\ par[p] # p /\ p # root
           /\ lc[par[p]] = p => lo[p] = lo[par[p]] /\ hi[p] = par[p] /\ rc[par[p]] # p
           /\ lc[par[p]] # p => rc[par[p]] = p /\ lo[p] = par[p] /\ hi[p] = hi[par[p]]
           /\ \A y \in A : lc[y] = p \/ rc[y] = p => y = par[p]
<1>1. /\ par[p] \in A /\ (lc[par[p]] = p \/ rc[par[p]] = p)
      /\ p \in Int /\ lo[p] < p /\ p < hi[p] /\ p # 0 /\ lo[p] \in Int /\ hi[p] \in Int
  BY NodeOfTree DEF Values
<1>2. /\ lc[par[p]] = p => lo[p] = lo[par[p]] /\ hi[p] = par[p]
      /\ rc[par[p]] = p => lo[p] = par[p] /\ hi[p] = hi[par[p]]
  BY <1>1, NodeOfTree
<1>3. \A y \in A : lc[y] = p \/ rc[y] = p => y = par[p]
  BY <1>1, NodeOfTree
<1>4. p # root
  BY <1>1 DEF SearchTree
<1> QED BY <1>1, <1>2, <1>3, <1>4

\* deleteNode() of a node without smaller values below it: its right child takes its place.
LEMMA ShrinksRight ==
    ASSUME NEW N \in Nat, NEW root, NEW lc, NEW rc, NEW A, NEW lo, NEW hi, NEW par,
           SearchTree(N, root, lc, rc, A, lo, hi, par),
           NEW p \in A, lc[p] = 0, NEW P, P = par[p], P # 0, NEW temp, temp = rc[p],
           NEW l2 \in [Values(N) -> Values(N) \cup {0}], NEW r2 \in [Values(N) -> Values(N) \cup {0}],
           \A x \in Values(N) :
              /\ l2[x] = IF x = p THEN 0 ELSE IF x = P /\ lc[P] = p THEN temp ELSE lc[x]
              /\ r2[x] = IF x = p THEN 0 ELSE IF x = P /\ lc[P] # p THEN temp ELSE rc[x]
    PROVE  \E lo2, hi2, par2 : SearchTree(N, root, l2, r2, A \ {p}, lo2, hi2, par2)
<1> DEFINE B == A \ {p}
<1>1. PICK lo2, par2 : /\ lo2 = [x \in Values(N) |-> IF lo[x] = p THEN lo[p] ELSE lo[x]]
                       /\ par2 = [x \in Values(N) |-> IF x = temp THEN P ELSE par[x]]
  OBVIOUS
<1>2. /\ A \subseteq Values(N) /\ root \in A /\ root # 0
      /\ lo \in [Values(N) -> Int]
      /\ hi \in [Values(N) -> Int] /\ par \in [Values(N) -> Values(N) \cup {0}]
      /\ lo[root] = 0 /\ hi[root] = N + 1 /\ par[root] = 0
      /\ \A x \in Values(N) : x \notin A => lc[x] = 0 /\ rc[x] = 0
  BY DEF SearchTree
<1>3. \A x \in Values(N) : x \in Int /\ 1 <= x /\ x <= N
  BY DEF Values
<1>4. /\ P \in A /\ P # p /\ p # root /\ p \in Values(N) /\ P \in Values(N)
      /\ lc[P] = p => lo[p] = lo[P] /\ hi[p] = P /\ rc[P] # p
      /\ lc[P] # p => rc[P] = p /\ lo[p] = P /\ hi[p] = hi[P]
      /\ \A y \in A : lc[y] = p \/ rc[y] = p => y = P
  BY <1>2, BelowParent
<1>5. /\ 0 <= lo[p] /\ lo[p] < p /\ p < hi[p] /\ hi[p] <= N + 1 /\ lo[p] \in Int /\ hi[p] \in Int
      /\ temp # 0 => temp \in A /\ par[temp] = p /\ lo[temp] = p /\ hi[temp] = hi[p] /\ temp # p /\ temp # P
      /\ \A y \in A : ~ (lo[p] < y /\ y < p)
      /\ temp = 0 => \A y \in A : ~ (p < y /\ y < hi[p])
      /\ lo[p] # 0 => lo[p] \in A /\ rc[lo[p]] # 0 /\ hi[p] <= hi[lo[p]]
      /\ hi[p] # N + 1 => hi[p] \in A /\ lc[hi[p]] # 0 /\ lo[hi[p]] <= lo[p]
  <2>1. temp # 0 => temp \in A /\ par[temp] = p /\ lo[temp] = p /\ hi[temp] = hi[p]
    BY NodeOfTree
  <2>2. temp # 0 => temp # p /\ temp # P
    BY <1>4, <2>1, NodeOfTree
  <2> QED BY <1>2, <1>4, <2>1, <2>2, NodeOfTree
<1>6. lo2 \in [Values(N) -> Int] /\ par2 \in [Values(N) -> Values(N) \cup {0}]
  BY <1>1, <1>2, <1>4, <1>5
<1>7. ASSUME NEW x \in B PROVE TreeNode(N, x, root, l2, r2, B, lo2, hi, par2)
  <2>1. /\ x \in Values(N) /\ x \in A /\ x # p /\ x \in Int /\ lo[x] \in Int /\ hi[x] \in Int /\ p \in Int
        /\ 0 <= lo[x] /\ lo[x] < x /\ x < hi[x] /\ hi[x] <= N + 1
        /\ lo2[x] = (IF lo[x] = p THEN lo[p] ELSE lo[x])
        /\ par2[x] = (IF x = temp THEN P ELSE par[x])
    BY <1>1, <1>2, <1>3, <1>4, NodeOfTree
  <2>2. 0 <= lo2[x] /\ lo2[x] < x
    BY <1>5, <2>1
  <2>3. \A c \in A : /\ lo2[c] = (IF lo[c] = p THEN lo[p] ELSE lo[c])
                     /\ par2[c] = (IF c = temp THEN P ELSE par[c])
    BY <1>1, <1>2
  <2>4. l2[x] # 0 => l2[x] \in B /\ par2[l2[x]] = x /\ lo2[l2[x]] = lo2[x] /\ hi[l2[x]] = x
    <3>1. CASE x = P /\ lc[P] = p
      <4>1. l2[x] = temp
        BY <2>1, <3>1
      <4> QED BY <1>4, <1>5, <2>1, <2>3, <3>1, <4>1
    <3>2. CASE ~ (x = P /\ lc[P] = p)
      <4>1. l2[x] = lc[x]
        BY <2>1, <3>2
      <4>2. lc[x] # 0 => lc[x] \in A /\ par[lc[x]] = x /\ lo[lc[x]] = lo[x] /\ hi[lc[x]] = x
        BY <2>1, NodeOfTree
      <4>3. lc[x] # p /\ (lc[x] # 0 => lc[x] # temp)
        BY <1>4, <1>5, <2>1, <3>2, <4>2
      <4>4. lc[x] # 0 => lo2[lc[x]] = lo2[x] /\ par2[lc[x]] = x
        <5>1. lc[x] # 0 => par2[lc[x]] = par[lc[x]] /\ lo2[lc[x]] = IF lo[lc[x]] = p THEN lo[p] ELSE lo[lc[x]]
          BY <2>3, <4>2, <4>3
        <5> QED BY <2>1, <4>2, <5>1
      <4> QED BY <4>1, <4>2, <4>3, <4>4
    <3> QED BY <3>1, <3>2
  <2>5. r2[x] # 0 => r2[x] \in B /\ par2[r2[x]] = x /\ lo2[r2[x]] = x /\ hi[r2[x]] = hi[x]
    <3>1. CASE x = P /\ lc[P] # p
      <4>1. r2[x] = temp
        BY <2>1, <3>1
      <4> QED BY <1>4, <1>5, <2>1, <2>3, <3>1, <4>1
    <3>2. CASE ~ (x = P /\ lc[P] # p)
      <4>1. r2[x] = rc[x]
        BY <2>1, <3>2
      <4>2. rc[x] # 0 => rc[x] \in A /\ par[rc[x]] = x /\ lo[rc[x]] = x /\ hi[rc[x]] = hi[x]
        BY <2>1, NodeOfTree
      <4>3. rc[x] # p /\ (rc[x] # 0 => rc[x] # temp)
        BY <1>4, <1>5, <2>1, <3>2, <4>2
      <4>4. rc[x] # 0 => lo2[rc[x]] = x /\ par2[rc[x]] = x
        <5>1. rc[x] # 0 => par2[rc[x]] = par[rc[x]] /\ lo2[rc[x]] = IF lo[rc[x]] = p THEN lo[p] ELSE lo[rc[x]]
          BY <2>3, <4>2, <4>3
        <5> QED BY <2>1, <4>2, <5>1
      <4> QED BY <4>1, <4>2, <4>3, <4>4
    <3> QED BY <3>1, <3>2
  <2>6. par2[x] = 0 => x = root
    BY <1>4, <2>1, NodeOfTree
  <2>7. par2[x] # 0 => par2[x] \in B /\ (l2[par2[x]] = x \/ r2[par2[x]] = x)
    <3>1. CASE x = temp
      BY <1>4, <2>1, <3>1
    <3>2. CASE x # temp /\ par[x] # 0
      <4>1. /\ par2[x] = par[x] /\ par[x] \in A /\ par[x] \in Values(N)
            /\ (lc[par[x]] = x \/ rc[par[x]] = x)
        BY <1>2, <2>1, <3>2, NodeOfTree
      <4>2. par[x] # p
        BY <1>3, <2>1, <3>2, <4>1
      <4>3. l2[par[x]] = x \/ r2[par[x]] = x
        BY <1>4, <2>1, <4>1, <4>2
      <4> QED BY <4>1, <4>2, <4>3
    <3> QED BY <2>1, <3>1, <3>2
  <2>8. lo2[x] # 0 => lo2[x] \in B /\ r2[lo2[x]] # 0 /\ hi[x] <= hi[lo2[x]]
    <3>1. CASE lo[x] = p
      <4>1. rc[p] # 0 /\ hi[x] <= hi[p]
        BY <1>3, <1>4, <2>1, <3>1, NodeOfTree
      <4>2. lo2[x] = lo[p] /\ lo[p] # p
        BY <1>5, <2>1, <3>1
      <4>3. lo[p] # 0 => r2[lo[p]] # 0
        BY <1>2, <1>5, <4>1, <4>2
      <4>4. lo[p] # 0 => hi[lo[p]] \in Int
        BY <1>2, <1>5
      <4> QED BY <1>5, <2>1, <4>1, <4>2, <4>3, <4>4
    <3>2. CASE lo[x] # p
      <4>1. /\ lo2[x] = lo[x]
            /\ lo[x] # 0 => lo[x] \in A /\ lo[x] \in Values(N) /\ rc[lo[x]] # 0 /\ hi[x] <= hi[lo[x]]
        BY <1>2, <2>1, <3>2, NodeOfTree
      <4>2. lo[x] = P /\ lc[P] # p => temp # 0
        <5> SUFFICES ASSUME lo[x] = P, lc[P] # p, temp = 0 PROVE FALSE
          OBVIOUS
        <5>1. hi[x] <= hi[P] /\ hi[p] = hi[P] /\ P = lo[p] /\ P < x
          BY <1>3, <1>4, <2>1, <4>1
        <5>2. ~ (lo[p] < x /\ x < p) /\ ~ (p < x /\ x < hi[p])
          BY <1>5, <2>1
        <5> QED BY <1>5, <2>1, <5>1, <5>2
      <4>3. lo[x] # 0 => r2[lo[x]] # 0
        BY <3>2, <4>1, <4>2
      <4> QED BY <3>2, <4>1, <4>3
    <3> QED BY <3>1, <3>2
  <2>9. hi[x] # N + 1 => hi[x] \in B /\ l2[hi[x]] # 0 /\ lo2[hi[x]] <= lo2[x]
    <3> SUFFICES ASSUME hi[x] # N + 1 PROVE hi[x] \in B /\ l2[hi[x]] # 0 /\ lo2[hi[x]] <= lo2[x]
      OBVIOUS
    <3>1. hi[x] \in A /\ hi[x] \in Values(N) /\ lc[hi[x]] # 0 /\ lo[hi[x]] <= lo[x] /\ lo[hi[x]] \in Int
      BY <1>2, <2>1, NodeOfTree
    <3>2. hi[x] # p
      BY <3>1
    <3>3. hi[x] = P /\ lc[P] = p => temp # 0
      <4> SUFFICES ASSUME hi[x] = P, lc[P] = p, temp = 0 PROVE FALSE
        OBVIOUS
      <4>1. lo[p] <= lo[x] /\ hi[p] = P
        BY <1>4, <3>1
      <4>2. ~ (lo[p] < x /\ x < p) /\ ~ (p < x /\ x < hi[p])
        BY <1>5, <2>1
      <4> QED BY <1>5, <2>1, <4>1, <4>2
    <3>4. l2[hi[x]] # 0
      BY <3>1, <3>2, <3>3
    <3>5. lo2[hi[x]] <= lo2[x]
      <4>1. lo2[hi[x]] = (IF lo[hi[x]] = p THEN lo[p] ELSE lo[hi[x]])
        BY <2>3, <3>1
      <4>2. CASE lo[x] = p /\ lo[hi[x]] # p
        <5>1. lo[hi[x]] < p
          BY <2>1, <3>1, <4>2
        <5>2. lo[hi[x]] = 0 \/ lo[hi[x]] \in A
          BY <3>1, NodeOfTree
        <5>3. lo[hi[x]] <= lo[p]
          BY <1>5, <3>1, <5>1, <5>2
        <5> QED BY <2>1, <4>1, <4>2, <5>3
      <4>3. CASE ~ (lo[x] = p /\ lo[hi[x]] # p)
        BY <1>5, <2>1, <3>1, <4>1, <4>3
      <4> QED BY <4>2, <4>3
    <3> QED BY <3>1, <3>2, <3>4, <3>5
  <2>10. l2[x] = 0 => \A y \in B : ~ (lo2[x] < y /\ y < x)
    <3> SUFFICES ASSUME l2[x] = 0, NEW y \in B, lo2[x] < y, y < x PROVE FALSE
      OBVIOUS
    <3>1. y \in A /\ y # p /\ y \in Int
      BY <1>2, <1>3
    <3>2. ~ (lo[p] < y /\ y < p)
      BY <1>5, <3>1
    <3>3. CASE x = P /\ lc[P] = p
      <4>1. temp = 0
        BY <2>1, <3>3
      <4>2. ~ (p < y /\ y < hi[p])
        BY <1>5, <3>1, <4>1
      <4>3. lo[x] = lo[p] /\ hi[p] = x /\ lo[x] # p
        BY <1>4, <1>5, <3>3
      <4> QED BY <1>5, <2>1, <3>1, <3>2, <4>2, <4>3
    <3>4. CASE ~ (x = P /\ lc[P] = p)
      <4>1. lc[x] = 0
        BY <2>1, <3>4
      <4>2. ~ (lo[x] < y /\ y < x)
        BY <2>1, <3>1, <4>1, NodeOfTree
      <4> QED BY <1>5, <2>1, <3>1, <3>2, <4>2
    <3> QED BY <3>3, <3>4
  <2>11. r2[x] = 0 => \A y \in B : ~ (x < y /\ y < hi[x])
    <3> SUFFICES ASSUME r2[x] = 0, NEW y \in B, x < y, y < hi[x] PROVE FALSE
      OBVIOUS
    <3>1. y \in A /\ y # p /\ y \in Int
      BY <1>2, <1>3
    <3>2. CASE x = P /\ lc[P] # p
      <4>1. temp = 0
        BY <2>1, <3>2
      <4>2. ~ (p < y /\ y < hi[p]) /\ ~ (lo[p] < y /\ y < p)
        BY <1>5, <3>1, <4>1
      <4>3. lo[p] = x /\ hi[p] = hi[x]
        BY <1>4, <3>2
      <4> QED BY <1>5, <2>1, <3>1, <4>2, <4>3
    <3>3. CASE ~ (x = P /\ lc[P] # p)
      <4>1. rc[x] = 0
        BY <2>1, <3>3
      <4> QED BY <2>1, <3>1, <4>1, NodeOfTree
    <3> QED BY <3>2, <3>3
  <2> QED BY <2>1, <2>2, <2>4, <2>5, <2>6, <2>7, <2>8, <2>9, <2>10, <2>11 DEF TreeNode
<1>8. /\ B \subseteq Values(N) /\ root \in B \cup {0}
      /\ \A x \in Values(N) : x \notin B => l2[x] = 0 /\ r2[x] = 0
      /\ lo2[root] = 0 /\ par2[root] = 0
  <2>1. \A x \in Values(N) : x \notin B => l2[x] = 0 /\ r2[x] = 0
    BY <1>2, <1>4
  <2>2. root # temp
    BY <1>2, <1>3, <1>4, <1>5
  <2>3. lo2[root] = 0
    BY <1>1, <1>2, <1>3, <1>4
  <2> QED BY <1>1, <1>2, <1>4, <2>1, <2>2, <2>3
<1> HIDE DEF B
<1>9. SearchTree(N, root, l2, r2, B, lo2, hi, par2)
  BY <1>2, <1>6, <1>7, <1>8 DEF SearchTree
<1> QED BY <1>9 DEF B

\* The links after t, whose parent is tt, has replaced p, whose parent is P.
Relinked(N, lc, rc, p, P, t, tt, l2, r2) ==
    \A x \in Values(N) :
       /\ l2[x] = IF x = p THEN 0 ELSE IF x = P /\ lc[P] = p THEN t
                  ELSE IF x = t THEN (IF tt = p THEN lc[t] ELSE lc[p]) ELSE lc[x]
       /\ r2[x] = IF x = p THEN 0 ELSE IF x = P /\ lc[P] # p THEN t
                  ELSE IF x = t THEN rc[p] ELSE IF x = tt THEN lc[t] ELSE rc[x]

\* deleteNode() of a node with smaller values below it: the greatest of them takes its place
\* and leaves its own left child where it was.
LEMMA ShrinksLast ==
    ASSUME NEW N \in Nat, NEW root, NEW lc, NEW rc, NEW A, NEW lo, NEW hi, NEW par,
           SearchTree(N, root, lc, rc, A, lo, hi, par),
           NEW p \in A, lc[p] # 0, NEW P, P = par[p], P # 0,
           NEW t \in A, hi[t] = p, rc[t] = 0, lo[p] <= lo[t], NEW tt, tt = par[t],
           NEW l2 \in [Values(N) -> Values(N) \cup {0}], NEW r2 \in [Values(N) -> Values(N) \cup {0}],
           Relinked(N, lc, rc, p, P, t, tt, l2, r2)
    PROVE  \E lo2, hi2, par2 : SearchTree(N, root, l2, r2, A \ {p}, lo2, hi2, par2)
<1> DEFINE B == A \ {p}
<1>0. PICK a, b, u : a = lc[p] /\ b = rc[p] /\ u = lc[t]
  OBVIOUS
<1>1. PICK lo2, hi2, par2 :
         /\ lo2 = [x \in Values(N) |-> IF x = t THEN lo[p] ELSE IF lo[x] = p THEN t ELSE lo[x]]
         /\ hi2 = [x \in Values(N) |-> IF x = t THEN hi[p] ELSE IF hi[x] = p THEN t ELSE hi[x]]
         /\ par2 = [x \in Values(N) |-> IF x = t THEN P ELSE IF par[x] = p THEN t
                                     ELSE IF par[x] = t /\ tt # p THEN tt ELSE par[x]]
  OBVIOUS
<1>2. /\ A \subseteq Values(N) /\ root \in A /\ root # 0
      /\ lo \in [Values(N) -> Int]
      /\ hi \in [Values(N) -> Int] /\ par \in [Values(N) -> Values(N) \cup {0}]
      /\ lo[root] = 0 /\ hi[root] = N + 1 /\ par[root] = 0
      /\ \A x \in Values(N) : x \notin A => lc[x] = 0 /\ rc[x] = 0
  BY DEF SearchTree
<1>3. N \in Nat /\ \A x \in Values(N) : x \in Int /\ 1 <= x /\ x <= N
  BY DEF Values
<1>4. /\ P \in A /\ P # p /\ p # root /\ p \in Values(N) /\ P \in Values(N)
      /\ lc[P] = p => lo[p] = lo[P] /\ hi[p] = P /\ rc[P] # p
      /\ lc[P] # p => rc[P] = p /\ lo[p] = P /\ hi[p] = hi[P]
      /\ \A y \in A : lc[y] = p \/ rc[y] = p => y = P
  BY <1>2, BelowParent
<1>5. /\ 0 <= lo[p] /\ lo[p] < p /\ p < hi[p] /\ hi[p] <= N + 1 /\ lo[p] \in Int /\ hi[p] \in Int
      /\ lo[p] # 0 => lo[p] \in A /\ rc[lo[p]] # 0 /\ hi[p] <= hi[lo[p]]
      /\ hi[p] # N + 1 => hi[p] \in A /\ lc[hi[p]] # 0 /\ lo[hi[p]] <= lo[p]
      /\ b = 0 => \A y \in A : ~ (p < y /\ y < hi[p])
  BY <1>0, NodeOfTree
<1>6. /\ t \in Values(N) /\ lo[t] < t /\ t < p /\ lo[t] \in Int /\ lo[p] < t /\ t # p /\ p \in Int /\ t \in Int
      /\ \A y \in A : ~ (t < y /\ y < p)
      /\ u = 0 => \A y \in A : ~ (lo[t] < y /\ y < t)
      /\ \A y \in A : lo[y] # t
  <2>1. t \in Values(N) /\ t \in Int /\ p \in Int /\ p \in Values(N) /\ t # 0
    BY <1>2, <1>3
  <2>2. lo[t] < t /\ t < p /\ lo[t] \in Int
    BY NodeOfTree
  <2>3. \A y \in A : ~ (t < y /\ y < p)
    BY NodeOfTree
  <2>4. u = 0 => \A y \in A : ~ (lo[t] < y /\ y < t)
    <3>1. lc[t] = 0 => \A y \in A : ~ (lo[t] < y /\ y < t)
      BY NodeOfTree
    <3> QED BY <1>0, <3>1
  <2>5. \A y \in A : lo[y] # t
    BY <2>1, NodeOfTree
  <2> QED BY <1>5, <2>1, <2>2, <2>3, <2>4, <2>5
<1>7. /\ t # P /\ t # root
      /\ tt \in A /\ tt \in Values(N) /\ tt # t /\ tt # 0 /\ tt # P
      /\ tt # p => rc[tt] = t /\ lc[tt] # t /\ lo[t] = tt /\ hi[tt] = p /\ lo[p] < tt
      /\ tt = p => a = t /\ lo[t] = lo[p]
      /\ tt # p => a # t
  <2>1. t # root
    BY <1>2, <1>3, <1>4
  <2>2. tt \in A /\ tt # 0 /\ tt # t
    BY <2>1, BelowParent, NodeOfTree
  <2>3. tt # p => rc[tt] = t /\ lc[tt] # t /\ lo[t] = tt /\ hi[tt] = p
    BY <2>2, BelowParent
  <2>4. tt # p => lo[p] < tt
    <3>1. tt # p => lo[tt] < tt /\ lo[p] <= lo[tt] /\ lo[tt] \in Int /\ tt \in Int
      BY <1>2, <1>3, <1>4, <2>2, <2>3, NodeOfTree
    <3> QED BY <1>5, <3>1
  <2>5. tt = p => a = t /\ lo[t] = lo[p]
    <3>1. rc[p] # t
      BY <1>5, <1>6, NodeOfTree
    <3>2. tt = p => lc[p] = t
      <4>1. lc[tt] = t \/ rc[tt] = t
        BY <2>2, NodeOfTree
      <4> QED BY <3>1, <4>1
    <3>3. lc[p] = t => lo[t] = lo[p]
      BY <1>2, <1>3, NodeOfTree
    <3> QED BY <1>0, <3>2, <3>3
  <2>6. tt # p => a # t
    BY <1>0, NodeOfTree
  <2>7. t # P
    BY <1>4, <1>5, <1>6
  <2>8. tt # P
    BY <1>4, <1>5, <1>6, <2>3
  <2> QED BY <1>2, <2>1, <2>2, <2>3, <2>4, <2>5, <2>6, <2>7, <2>8
<1>8. /\ u # 0 => u \in A /\ par[u] = t /\ lo[u] = lo[t] /\ hi[u] = t /\ u # p /\ u # t
      /\ a \in A /\ par[a] = p /\ lo[a] = lo[p] /\ hi[a] = p /\ a # p
      /\ b # 0 => b \in A /\ par[b] = p /\ lo[b] = p /\ hi[b] = hi[p] /\ b # p /\ b # t
  <2>1. /\ u # 0 => u \in A /\ par[u] = t /\ lo[u] = lo[t] /\ hi[u] = t
        /\ a \in A /\ par[a] = p /\ lo[a] = lo[p] /\ hi[a] = p
        /\ b # 0 => b \in A /\ par[b] = p /\ lo[b] = p /\ hi[b] = hi[p]
    BY <1>0, NodeOfTree
  <2>2. /\ u # 0 => u # p /\ u # t
        /\ a # p
        /\ b # 0 => b # p /\ b # t
    BY <1>4, <1>5, <1>6, <2>1, NodeOfTree
  <2> QED BY <2>1, <2>2
<1>9. /\ lo2 \in [Values(N) -> Int]
      /\ hi2 \in [Values(N) -> Int] /\ par2 \in [Values(N) -> Values(N) \cup {0}]
      /\ \A x \in A : lo2[x] = IF x = t THEN lo[p] ELSE IF lo[x] = p THEN t ELSE lo[x]
      /\ \A x \in A : hi2[x] = IF x = t THEN hi[p] ELSE IF hi[x] = p THEN t ELSE hi[x]
      /\ \A x \in A : par2[x] = IF x = t THEN P ELSE IF par[x] = p THEN t
                                ELSE IF par[x] = t /\ tt # p THEN tt ELSE par[x]
  <2>1. lo2 \in [Values(N) -> Int] /\ hi2 \in [Values(N) -> Int]
    BY <1>1, <1>2, <1>5, <1>6
  <2>2. par2 \in [Values(N) -> Values(N) \cup {0}]
    BY <1>1, <1>2, <1>4, <1>6, <1>7
  <2> QED BY <1>1, <1>2, <2>1, <2>2
<1>15. ASSUME NEW x \in A, x # p
       PROVE  /\ l2[x] = IF x = P /\ lc[P] = p THEN t
                         ELSE IF x = t THEN (IF tt = p THEN u ELSE a) ELSE lc[x]
              /\ r2[x] = IF x = P /\ lc[P] # p THEN t
                         ELSE IF x = t THEN b ELSE IF x = tt THEN u ELSE rc[x]
  <2>1. x \in Values(N)
    BY <1>2
  <2> QED BY <1>0, <1>15, <2>1 DEF Relinked
<1>10. TreeNode(N, t, root, l2, r2, B, lo2, hi2, par2)
  <2>1. /\ lo2[t] = lo[p] /\ hi2[t] = hi[p] /\ par2[t] = P
        /\ l2[t] = (IF tt = p THEN u ELSE a) /\ r2[t] = b
    BY <1>6, <1>7, <1>9, <1>15
  <2>2. 0 <= lo2[t] /\ lo2[t] < t /\ t < hi2[t] /\ hi2[t] <= N + 1
    BY <1>3, <1>5, <1>6, <2>1
  <2>3. l2[t] # 0 => l2[t] \in B /\ par2[l2[t]] = t /\ lo2[l2[t]] = lo2[t] /\ hi2[l2[t]] = t
    <3>1. CASE tt = p
      <4>1. u # 0 => par2[u] = t /\ lo2[u] = lo[p] /\ hi2[u] = t
        <5> SUFFICES ASSUME u # 0 PROVE par2[u] = t /\ lo2[u] = lo[p] /\ hi2[u] = t
          OBVIOUS
        <5>1. u \in A /\ par[u] = t /\ lo[u] = lo[p] /\ hi[u] = t /\ u # t
          BY <1>7, <1>8, <3>1
        <5>2. lo[p] # p /\ t # p
          BY <1>5, <1>6
        <5> QED BY <1>9, <1>15, <3>1, <5>1, <5>2
      <4> QED BY <1>8, <2>1, <3>1, <4>1
    <3>2. CASE tt # p
      <4>1. par2[a] = t /\ lo2[a] = lo[p] /\ hi2[a] = t
        <5>1. a \in A /\ par[a] = p /\ lo[a] = lo[p] /\ hi[a] = p /\ a # t /\ lo[p] # p
          BY <1>5, <1>6, <1>7, <1>8, <3>2
        <5> QED BY <1>9, <1>15, <5>1
      <4> QED BY <1>8, <2>1, <3>2, <4>1
    <3> QED BY <3>1, <3>2
  <2>4. r2[t] # 0 => r2[t] \in B /\ par2[r2[t]] = t /\ lo2[r2[t]] = t /\ hi2[r2[t]] = hi2[t]
    <3>1. b # 0 => par2[b] = t /\ lo2[b] = t /\ hi2[b] = hi[p]
      <4> SUFFICES ASSUME b # 0 PROVE par2[b] = t /\ lo2[b] = t /\ hi2[b] = hi[p]
        OBVIOUS
      <4>1. b \in A /\ par[b] = p /\ lo[b] = p /\ hi[b] = hi[p] /\ b # t /\ hi[p] # p
        BY <1>5, <1>6, <1>8
      <4> QED BY <1>9, <1>15, <4>1
    <3> QED BY <1>8, <2>1, <3>1
  <2>5. par2[t] # 0 /\ par2[t] \in B /\ (l2[par2[t]] = t \/ r2[par2[t]] = t)
    BY <1>4, <1>9, <1>15, <2>1
  <2>6. lo2[t] # 0 => lo2[t] \in B /\ r2[lo2[t]] # 0 /\ hi2[t] <= hi2[lo2[t]]
    <3> SUFFICES ASSUME lo[p] # 0 PROVE lo[p] \in B /\ r2[lo[p]] # 0 /\ hi[p] <= hi2[lo[p]]
      BY <2>1
    <3>1. /\ lo[p] \in A /\ rc[lo[p]] # 0 /\ hi[p] <= hi[lo[p]] /\ lo[p] # p /\ lo[p] # t /\ lo[p] # tt
          /\ hi[lo[p]] \in Int
      BY <1>2, <1>5, <1>6, <1>7
    <3>2. r2[lo[p]] # 0
      BY <1>3, <1>6, <1>9, <1>15, <3>1
    <3>3. hi2[lo[p]] = hi[lo[p]]
      BY <1>5, <1>6, <1>9, <1>15, <3>1
    <3> QED BY <3>1, <3>2, <3>3
  <2>7. hi2[t] # N + 1 => hi2[t] \in B /\ l2[hi2[t]] # 0 /\ lo2[hi2[t]] <= lo2[t]
    <3> SUFFICES ASSUME hi[p] # N + 1 PROVE hi[p] \in B /\ l2[hi[p]] # 0 /\ lo2[hi[p]] <= lo[p]
      BY <2>1
    <3>1. /\ hi[p] \in A /\ lc[hi[p]] # 0 /\ lo[hi[p]] <= lo[p] /\ hi[p] # p /\ hi[p] # t
          /\ lo[hi[p]] \in Int
      BY <1>2, <1>5, <1>6
    <3>2. l2[hi[p]] # 0
      BY <1>3, <1>6, <1>9, <1>15, <3>1
    <3>3. lo2[hi[p]] = lo[hi[p]]
      BY <1>5, <1>6, <1>9, <1>15, <3>1
    <3> QED BY <3>1, <3>2, <3>3
  <2>8. l2[t] = 0 => \A y \in B : ~ (lo2[t] < y /\ y < t)
    <3>1. a # 0
      BY <1>2, <1>3, <1>8
    <3> QED BY <1>6, <1>7, <2>1, <3>1
  <2>9. r2[t] = 0 => \A y \in B : ~ (t < y /\ y < hi2[t])
    <3> SUFFICES ASSUME b = 0, NEW y \in B, t < y, y < hi[p] PROVE FALSE
      BY <2>1
    <3>1. y \in A /\ y # p /\ y \in Int
      BY <1>2, <1>3
    <3>2. ~ (t < y /\ y < p) /\ ~ (p < y /\ y < hi[p])
      BY <1>5, <1>6, <3>1
    <3> QED BY <1>5, <1>6, <3>1, <3>2
  <2> QED BY <2>2, <2>3, <2>4, <2>5, <2>6, <2>7, <2>8, <2>9 DEF TreeNode
<1>11. ASSUME NEW x \in B, x # t PROVE TreeNode(N, x, root, l2, r2, B, lo2, hi2, par2)
  <2>1. /\ x \in Values(N) /\ x \in A /\ x # p /\ x \in Int /\ lo[x] \in Int /\ hi[x] \in Int
        /\ 0 <= lo[x] /\ lo[x] < x /\ x < hi[x] /\ hi[x] <= N + 1
        /\ lo2[x] = (IF lo[x] = p THEN t ELSE lo[x])
        /\ hi2[x] = (IF hi[x] = p THEN t ELSE hi[x])
        /\ ~ (t < x /\ x < p)
    BY <1>2, <1>3, <1>6, <1>9, <1>15, <1>11, NodeOfTree
  <2>2. /\ 0 <= lo2[x] /\ lo2[x] < x /\ x < hi2[x] /\ hi2[x] <= N + 1
        /\ hi2[x] <= hi[x] /\ lo2[x] \in Int /\ hi2[x] \in Int
    <3>1. 0 <= t
      BY <1>3, <1>6
    <3> QED BY <1>3, <1>6, <1>11, <2>1, <3>1
  <2>3. l2[x] # 0 => l2[x] \in B /\ par2[l2[x]] = x /\ lo2[l2[x]] = lo2[x] /\ hi2[l2[x]] = x
    <3>1. CASE x = P /\ lc[P] = p
      <4>1. l2[x] = t /\ lo2[t] = lo[p] /\ hi2[t] = hi[p] /\ par2[t] = P
        BY <1>9, <1>15, <2>1, <3>1
      <4> QED BY <1>4, <1>5, <1>6, <2>1, <3>1, <4>1
    <3>2. CASE ~ (x = P /\ lc[P] = p)
      <4>1. l2[x] = lc[x]
        BY <1>9, <1>15, <1>11, <2>1, <3>2
      <4>2. lc[x] # 0 => lc[x] \in A /\ par[lc[x]] = x /\ lo[lc[x]] = lo[x] /\ hi[lc[x]] = x
        BY <2>1, NodeOfTree
      <4>3. lc[x] # 0 => lc[x] # p /\ lc[x] # t
        BY <1>4, <1>7, <2>1, <3>2, <4>2
      <4>4. lc[x] # 0 => par2[lc[x]] = x /\ lo2[lc[x]] = lo2[x] /\ hi2[lc[x]] = x
        <5> SUFFICES ASSUME NEW c \in A, c = lc[x]
                     PROVE  par2[c] = x /\ lo2[c] = lo2[x] /\ hi2[c] = x
          BY <4>2
        <5>1. c # 0 /\ c # t /\ par[c] = x /\ lo[c] = lo[x] /\ hi[c] = x
          BY <1>2, <1>3, <4>2, <4>3
        <5>2. /\ par2[c] = x
              /\ lo2[c] = (IF lo[c] = p THEN t ELSE lo[c]) /\ hi2[c] = (IF hi[c] = p THEN t ELSE hi[c])
          BY <1>9, <1>15, <1>11, <2>1, <5>1
        <5> QED BY <2>1, <5>1, <5>2
      <4> QED BY <4>1, <4>2, <4>3, <4>4
    <3> QED BY <3>1, <3>2
  <2>4. r2[x] # 0 => r2[x] \in B /\ par2[r2[x]] = x /\ lo2[r2[x]] = x /\ hi2[r2[x]] = hi2[x]
    <3>1. CASE x = P /\ lc[P] # p
      <4>1. r2[x] = t /\ lo2[t] = lo[p] /\ hi2[t] = hi[p] /\ par2[t] = P
        BY <1>9, <1>15, <2>1, <3>1
      <4> QED BY <1>4, <1>5, <1>6, <2>1, <3>1, <4>1
    <3>2. CASE x = tt
      <4>1. r2[x] = u /\ tt # p /\ hi[x] = p /\ lo[t] = x
        BY <1>7, <1>9, <1>15, <1>11, <2>1, <3>2
      <4>2. u # 0 => par2[u] = x /\ lo2[u] = x /\ hi2[u] = t
        BY <1>6, <1>8, <1>9, <1>15, <2>1, <3>2, <4>1
      <4> QED BY <1>8, <2>1, <4>1, <4>2
    <3>3. CASE ~ (x = P /\ lc[P] # p) /\ x # tt
      <4>1. r2[x] = rc[x]
        BY <1>9, <1>15, <1>11, <2>1, <3>3
      <4>2. rc[x] # 0 => rc[x] \in A /\ par[rc[x]] = x /\ lo[rc[x]] = x /\ hi[rc[x]] = hi[x]
        BY <2>1, NodeOfTree
      <4>3. rc[x] # 0 => rc[x] # p /\ rc[x] # t
        BY <1>4, <2>1, <3>3, <4>2
      <4>4. rc[x] # 0 => par2[rc[x]] = x /\ lo2[rc[x]] = x /\ hi2[rc[x]] = hi2[x]
        <5> SUFFICES ASSUME NEW c \in A, c = rc[x]
                     PROVE  par2[c] = x /\ lo2[c] = x /\ hi2[c] = hi2[x]
          BY <4>2
        <5>1. c # 0 /\ c # t /\ par[c] = x /\ lo[c] = x /\ hi[c] = hi[x]
          BY <1>2, <1>3, <4>2, <4>3
        <5>2. /\ par2[c] = x
              /\ lo2[c] = (IF lo[c] = p THEN t ELSE lo[c]) /\ hi2[c] = (IF hi[c] = p THEN t ELSE hi[c])
          BY <1>9, <1>15, <1>11, <2>1, <5>1
        <5> QED BY <2>1, <5>1, <5>2
      <4> QED BY <4>1, <4>2, <4>3, <4>4
    <3> QED BY <3>1, <3>2, <3>3
  <2>5. par[x] # 0 => par[x] \in A /\ (lc[par[x]] = x \/ rc[par[x]] = x)
    BY <2>1, NodeOfTree
  <2>6. par2[x] = 0 => x = root
    <3>1. t # 0 /\ (par[x] = 0 => x = root)
      BY <1>3, <1>6, <2>1, NodeOfTree
    <3> QED BY <1>7, <1>9, <1>15, <1>11, <2>1, <3>1
  <2>7. par2[x] # 0 => par2[x] \in B /\ (l2[par2[x]] = x \/ r2[par2[x]] = x)
    <3>1. CASE par[x] = p
      <4>1. par2[x] = t /\ t \in B
        BY <1>6, <1>9, <1>15, <1>11, <2>1, <3>1
      <4>2. x = a \/ x = b
        BY <1>0, <1>4, <2>5, <3>1, <1>3
      <4>3. x = a => tt # p
        BY <1>7, <1>11
      <4>4. l2[t] = (IF tt = p THEN u ELSE a) /\ r2[t] = b
        BY <1>6, <1>7, <1>9, <1>15
      <4> QED BY <4>1, <4>2, <4>3, <4>4
    <3>2. CASE par[x] = t
      <4>1. x = u
        BY <1>0, <1>3, <1>6, <2>1, <2>5, <3>2
      <4>2. CASE tt = p
        <5>1. par2[x] = t /\ t \in B /\ l2[t] = u
          BY <1>6, <1>7, <1>9, <1>15, <1>11, <2>1, <3>2, <4>2
        <5> QED BY <4>1, <5>1
      <4>3. CASE tt # p
        <5>1. par2[x] = tt /\ tt \in B /\ r2[tt] = u
          BY <1>6, <1>7, <1>9, <1>15, <1>11, <2>1, <3>2, <4>3
        <5> QED BY <4>1, <5>1
      <4> QED BY <4>2, <4>3
    <3>3. CASE par[x] # p /\ par[x] # t /\ par[x] # 0
      <4>1. par2[x] = par[x] /\ par[x] \in B
        BY <1>9, <1>15, <1>11, <2>1, <2>5, <3>3
      <4>2. lc[par[x]] = x => l2[par[x]] = x
        BY <1>4, <1>9, <1>15, <2>1, <2>5, <3>3
      <4>3. rc[par[x]] = x => r2[par[x]] = x
        <5> SUFFICES ASSUME rc[par[x]] = x PROVE r2[par[x]] = x
          OBVIOUS
        <5>1. par[x] # tt
          BY <1>7, <1>11, <3>3
        <5>2. par[x] = P => lc[P] = p
          BY <1>4, <2>1
        <5>3. par[x] \in A
          BY <2>5, <3>3
        <5> QED BY <1>9, <1>15, <3>3, <5>1, <5>2, <5>3
      <4> QED BY <2>5, <3>3, <4>1, <4>2, <4>3
    <3>4. par[x] = 0 => par2[x] = 0
      BY <1>3, <1>4, <1>6, <1>9, <1>15, <1>11, <2>1
    <3> QED BY <3>1, <3>2, <3>3, <3>4
  <2>8. lo2[x] # 0 => lo2[x] \in B /\ r2[lo2[x]] # 0 /\ hi2[x] <= hi2[lo2[x]]
    <3>1. CASE lo[x] = p
      <4>1. rc[p] # 0 /\ hi[x] <= hi[p]
        BY <1>3, <1>4, <2>1, <3>1, NodeOfTree
      <4>2. lo2[x] = t /\ r2[t] = b /\ hi2[t] = hi[p] /\ t \in B
        BY <1>6, <1>7, <1>9, <1>15, <2>1, <3>1
      <4>3. hi2[x] = hi[x]
        BY <1>6, <2>1, <3>1
      <4> QED BY <1>0, <4>1, <4>2, <4>3
    <3>2. CASE lo[x] # p /\ lo[x] # 0
      <4>1. /\ lo2[x] = lo[x] /\ lo[x] \in A /\ lo[x] \in Values(N) /\ rc[lo[x]] # 0 /\ hi[x] <= hi[lo[x]]
            /\ lo[x] # t /\ hi[lo[x]] \in Int
        BY <1>2, <1>6, <2>1, <3>2, NodeOfTree
      <4>2. lo[x] = tt => u # 0
        <5> SUFFICES ASSUME lo[x] = tt, u = 0 PROVE FALSE
          OBVIOUS
        <5>1. lo[t] = lo[x] /\ hi[x] <= p
          BY <1>7, <3>2, <4>1
        <5>2. ~ (lo[t] < x /\ x < t)
          BY <1>6, <2>1
        <5> QED BY <1>6, <1>11, <2>1, <5>1, <5>2
      <4>3. r2[lo[x]] # 0
        <5>1. t # 0
          BY <1>3, <1>6
        <5>2. r2[lo[x]] = (IF lo[x] = P /\ lc[P] # p THEN t ELSE IF lo[x] = tt THEN u ELSE rc[lo[x]])
          BY <1>9, <1>15, <3>2, <4>1
        <5> QED BY <4>1, <4>2, <5>1, <5>2
      <4>4. hi2[lo[x]] = IF hi[lo[x]] = p THEN t ELSE hi[lo[x]]
        BY <1>9, <1>15, <4>1
      <4>5. hi2[x] <= hi2[lo[x]]
        <5>1. CASE hi[lo[x]] = p /\ hi[x] # p
          <6>1. hi[x] < p
            BY <1>6, <2>1, <4>1, <5>1
          <6>2. hi[x] \in A
            BY <1>3, <1>4, <2>1, <6>1, NodeOfTree
          <6>3. hi[x] <= t
            BY <1>6, <2>1, <6>1, <6>2
          <6> QED BY <2>1, <4>4, <5>1, <6>3
        <5>2. CASE ~ (hi[lo[x]] = p /\ hi[x] # p)
          BY <1>6, <2>1, <4>1, <4>4, <5>2
        <5> QED BY <5>1, <5>2
      <4> QED BY <3>2, <4>1, <4>3, <4>5
    <3>3. CASE lo[x] = 0
      BY <1>3, <1>4, <2>1, <3>3
    <3> QED BY <3>1, <3>2, <3>3
  <2>9. hi2[x] # N + 1 => hi2[x] \in B /\ l2[hi2[x]] # 0 /\ lo2[hi2[x]] <= lo2[x]
    <3>1. CASE hi[x] = p
      <4>1. lo[p] <= lo[x]
        BY <1>3, <1>4, <2>1, <3>1, NodeOfTree
      <4>2. hi2[x] = t /\ t \in B /\ lo2[t] = lo[p] /\ lo2[x] = lo[x]
        BY <1>6, <1>9, <1>15, <2>1, <3>1
      <4>3. l2[t] = IF tt = p THEN u ELSE a
        BY <1>6, <1>7, <1>9, <1>15
      <4>4. tt = p => u # 0
        <5> SUFFICES ASSUME tt = p, u = 0 PROVE FALSE
          OBVIOUS
        <5>1. ~ (lo[t] < x /\ x < t) /\ lo[t] = lo[p]
          BY <1>6, <1>7, <2>1
        <5> QED BY <1>6, <1>11, <2>1, <3>1, <4>1, <5>1
      <4>5. a # 0
        BY <1>2, <1>3, <1>8
      <4> QED BY <4>1, <4>2, <4>3, <4>4, <4>5
    <3>2. CASE hi[x] # p /\ hi[x] # N + 1
      <4>1. /\ hi2[x] = hi[x] /\ hi[x] \in A /\ hi[x] \in Values(N) /\ lc[hi[x]] # 0 /\ lo[hi[x]] <= lo[x]
            /\ lo[hi[x]] \in Int
        BY <1>2, <2>1, <3>2, NodeOfTree
      <4>2. a # 0 /\ t # 0
        BY <1>2, <1>3, <1>6, <1>8
      <4>3. l2[hi[x]] # 0
        BY <1>0, <1>9, <1>15, <3>2, <4>1, <4>2
      <4>4. lo2[hi[x]] <= lo2[x]
        <5>1. CASE hi[x] = t
          <6>1. lo2[hi[x]] = lo[p] /\ lo2[x] = lo[x] /\ lo[p] <= lo[x]
            BY <1>5, <1>6, <1>9, <1>15, <2>1, <4>1, <5>1
          <6> QED BY <6>1
        <5>2. CASE hi[x] # t
          <6>1. lo2[hi[x]] = IF lo[hi[x]] = p THEN t ELSE lo[hi[x]]
            BY <1>9, <1>15, <4>1, <5>2
          <6>2. CASE lo[x] = p /\ lo[hi[x]] # p
            <7>1. lo[hi[x]] < p
              BY <1>6, <4>1, <6>2
            <7>2. lo[hi[x]] = 0 \/ lo[hi[x]] \in A
              BY <4>1, NodeOfTree
            <7>3. lo[hi[x]] <= t
              BY <1>3, <1>6, <4>1, <7>1, <7>2
            <7> QED BY <2>1, <6>1, <6>2, <7>3
          <6>3. CASE ~ (lo[x] = p /\ lo[hi[x]] # p)
            BY <1>6, <2>1, <4>1, <6>1, <6>3
          <6> QED BY <6>2, <6>3
        <5> QED BY <5>1, <5>2
      <4> QED BY <3>2, <4>1, <4>3, <4>4
    <3>3. CASE hi[x] = N + 1
      BY <1>3, <1>4, <2>1, <3>3
    <3> QED BY <3>1, <3>2, <3>3
  <2>10. l2[x] = 0 => \A y \in B : ~ (lo2[x] < y /\ y < x)
    <3> SUFFICES ASSUME l2[x] = 0, NEW y \in B, lo2[x] < y, y < x PROVE FALSE
      OBVIOUS
    <3>1. y \in A /\ y # p /\ y \in Int
      BY <1>2, <1>3
    <3>2. lc[x] = 0
      BY <1>3, <1>6, <1>9, <1>15, <1>11, <2>1
    <3>3. ~ (lo[x] < y /\ y < x) /\ ~ (t < y /\ y < p)
      BY <1>6, <2>1, <3>1, <3>2, NodeOfTree
    <3> QED BY <1>6, <2>1, <3>1, <3>3
  <2>11. r2[x] = 0 => \A y \in B : ~ (x < y /\ y < hi2[x])
    <3> SUFFICES ASSUME r2[x] = 0, NEW y \in B, x < y, y < hi2[x] PROVE FALSE
      OBVIOUS
    <3>1. y \in A /\ y # p /\ y \in Int
      BY <1>2, <1>3
    <3>2. CASE x = tt
      <4>1. u = 0 /\ hi2[x] = t /\ lo[t] = x
        BY <1>3, <1>6, <1>7, <1>9, <1>15, <1>11, <2>1, <3>2
      <4>2. ~ (lo[t] < y /\ y < t)
        BY <1>6, <3>1, <4>1
      <4> QED BY <4>1, <4>2
    <3>3. CASE x # tt
      <4>1. rc[x] = 0
        BY <1>3, <1>6, <1>9, <1>15, <1>11, <2>1, <3>3
      <4>2. ~ (x < y /\ y < hi[x])
        BY <2>1, <3>1, <4>1, NodeOfTree
      <4> QED BY <2>1, <2>2, <3>1, <4>2
    <3> QED BY <3>2, <3>3
  <2> QED BY <2>2, <2>3, <2>4, <2>6, <2>7, <2>8, <2>9, <2>10, <2>11 DEF TreeNode
<1>12. /\ B \subseteq Values(N) /\ root \in B \cup {0}
       /\ \A x \in Values(N) : x \notin B => l2[x] = 0 /\ r2[x] = 0
       /\ lo2[root] = 0 /\ par2[root] = 0 /\ hi2[root] = N + 1
  <2>1. \A x \in Values(N) : x \notin B => l2[x] = 0 /\ r2[x] = 0
    BY <1>2, <1>4, <1>7 DEF Relinked
  <2>2. lo2[root] = 0 /\ hi2[root] = N + 1 /\ par2[root] = 0
    BY <1>2, <1>3, <1>4, <1>6, <1>7, <1>9, <1>15
  <2> QED BY <1>2, <1>4, <2>1, <2>2
<1>13. \A x \in B : TreeNode(N, x, root, l2, r2, B, lo2, hi2, par2)
  BY <1>10, <1>11
<1> HIDE DEF B
<1>14. SearchTree(N, root, l2, r2, B, lo2, hi2, par2)
  BY <1>2, <1>9, <1>15, <1>12, <1>13 DEF SearchTree
<1> QED BY <1>14 DEF B

=============================================================================
