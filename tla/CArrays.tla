------------------------------ MODULE CArrays -------------------------------
(***************************************************************************)
(* C arrays and counting loops, for the modules that model the repository's  *)
(* pure algorithms.  An array of n elements is a function on 0 .. n - 1, so   *)
(* that indices read as they do in the source; a read outside the array is a   *)
(* TLC error, never a value.                                                 *)
(***************************************************************************)
EXTENDS Integers, Sequences, FiniteSets

Arrays(n, V) == [0 .. n - 1 -> V]
ArraysUpTo(n, V) == UNION {Arrays(k, V) : k \in 0 .. n}
size(a) == Cardinality(DOMAIN a)
SortedArray(a) == \A i \in DOMAIN a : i > 0 => a[i - 1] <= a[i]

SwapAt(a, i, j) == [a EXCEPT ![i] = a[j], ![j] = a[i]]
Resized(a, n, x) == [i \in 0 .. n - 1 |-> IF i \in DOMAIN a THEN a[i] ELSE x]
PushBack(a, x) == Resized(a, size(a) + 1, x)
Slice(a, lo, hi) == [i \in 0 .. hi - lo |-> a[lo + i]]
FromSeq(s) == [i \in 0 .. Len(s) - 1 |-> s[i + 1]]
ToSeq(a) == [i \in 1 .. size(a) |-> a[i - 1]]

Count(a, x) == Cardinality({i \in DOMAIN a : a[i] = x})
SameElements(a, b) ==
    /\ DOMAIN a = DOMAIN b
    /\ \A i \in DOMAIN a : Count(a, a[i]) = Count(b, a[i])

\* The values a counting loop takes, and the loop itself: body(s, k) for each k in turn.
Up(lo, hi) == [k \in 1 .. (IF hi < lo THEN 0 ELSE hi - lo + 1) |-> lo + k - 1]
Down(hi, lo) == [k \in 1 .. (IF hi < lo THEN 0 ELSE hi - lo + 1) |-> hi - k + 1]
For(s, order, body(_, _)) ==
    LET after[k \in 0 .. Len(order)] ==
            IF k = 0 THEN s ELSE LET before == after[k - 1] IN body(before, order[k])
    IN  after[Len(order)]

Least(a, b) == IF b < a THEN b ELSE a
Greatest(a, b) == IF a < b THEN b ELSE a
=============================================================================
