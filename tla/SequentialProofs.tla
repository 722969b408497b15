-------------------------- MODULE SequentialProofs --------------------------
(***************************************************************************)
(* Proofs about the sequential programs of MCSequential: what the search    *)
(* tree, the containers and the owners of memory promise holds after any    *)
(* sequence of calls, for any sizes, keys, values and numbers of variables. *)
(*                                                                         *)
(* One section per program: its invariant xInv, which relates the fields of *)
(* the code's structure to the value it stands for, that the first states   *)
(* have it (xInits), that every call keeps it (xSteps) and that it implies   *)
(* the property (xIsSound).  The last sections are the search tree and what *)
(* puts the other programs together.                                        *)
(***************************************************************************)
EXTENDS MCSequential, SharedLemmas

-----------------------------------------------------------------------------
(* Numbers. *)

\* Every instance counts with the one Cardinality.
LEMMA SameCount == \A S : /\ Own!Cardinality(S) = Cardinality(S)
                        /\ Con!Cardinality(S) = Cardinality(S)
                        /\ Strings!Cardinality(S) = Cardinality(S)
BY Zenon DEF Cardinality, Own!Cardinality, Con!Cardinality, Strings!Cardinality

\* The rest of a number below twice the divisor.
LEMMA Wrap == ASSUME NEW N \in Nat \ {0}, NEW x \in 0 .. 2 * N - 1
              PROVE  x % N = (IF x < N THEN x ELSE x - N) /\ x % N \in 0 .. N - 1
<1>1. CASE x < N
  <2>1. x = N * 0 + x /\ x \in 0 .. N - 1 /\ x \in Nat
    BY <1>1
  <2>2. x % N = x
    BY ONLY <2>1, ModUnique, N \in Nat \ {0}
  <2> QED BY <1>1, <2>1, <2>2
<1>2. CASE x >= N
  <2>1. x = N * 1 + (x - N) /\ x - N \in 0 .. N - 1 /\ x \in Nat
    BY <1>2
  <2>2. x % N = x - N
    BY ONLY <2>1, ModUnique, N \in Nat \ {0}
  <2> QED BY <1>2, <2>1, <2>2
<1> QED BY <1>1, <1>2

-----------------------------------------------------------------------------
(* The ring queue. *)

\* The slots of the ring, and the stored elements between its two ends in order.
Slots == 0 .. QueueSize - 1
QueueInv ==
    /\ obj \in [m_front : Slots, m_rear : Slots,
                m_data : [Slots -> QueueItems \cup {Con!QueueUnset}]]
    /\ held \in Seq(QueueItems)
    /\ Len(held) = Con!Wrapped(obj.m_rear + QueueSize - obj.m_front)
    /\ \A k \in 1 .. Len(held) : obj.m_data[Con!Wrapped(obj.m_front + k - 1)] = held[k]
    /\ ret[1] = ret[2]

\* The ring arithmetic without division.
LEMMA Ring ==
    ASSUME NEW f \in Slots, NEW r \in Slots
    PROVE  /\ Con!Wrapped(r + QueueSize - f) = IF f <= r THEN r - f ELSE r + QueueSize - f
           /\ Con!Wrapped(r + 1) = (IF r = QueueSize - 1 THEN 0 ELSE r + 1)
           /\ Con!Wrapped(r + 1) \in Slots
           /\ \A k \in 1 .. QueueSize : Con!Wrapped(f + k - 1) =
                 IF f + k - 1 < QueueSize THEN f + k - 1 ELSE f + k - 1 - QueueSize
<1> USE SequentialAssumption DEF Slots
<1>1. r + QueueSize - f \in 0 .. 2 * QueueSize - 1 /\ r + 1 \in 0 .. 2 * QueueSize - 1
  OBVIOUS
<1>2. \A k \in 1 .. QueueSize : f + k - 1 \in 0 .. 2 * QueueSize - 1
  OBVIOUS
<1>3. \A x \in 0 .. 2 * QueueSize - 1 : Con!Wrapped(x) = IF x < QueueSize THEN x ELSE x - QueueSize
  BY Wrap DEF Con!Wrapped
<1> QED BY <1>1, <1>2, <1>3

\* The first states of the ring queue have the invariant.
LEMMA QueueInits == Con!QueueInit => QueueInv
<1> SUFFICES ASSUME Con!QueueInit PROVE QueueInv
  OBVIOUS
<1>1. /\ obj \in [m_front : Slots, m_rear : Slots,
                m_data : [Slots -> QueueItems \cup {Con!QueueUnset}]]
      /\ obj.m_front = 0 /\ obj.m_rear = 0
  BY SequentialAssumption DEF Con!QueueInit, Slots
<1>2. held = <<>> /\ ret[1] = ret[2]
  BY DEF Con!QueueInit
<1>3. Con!Wrapped(obj.m_rear + QueueSize - obj.m_front) = 0
  BY <1>1, Ring
<1> QED BY <1>1, <1>2, <1>3 DEF QueueInv

\* The calls of the ring queue keep it.
LEMMA QueueSteps == QueueInv /\ Con!QueueNext => QueueInv'
<1> SUFFICES ASSUME QueueInv, Con!QueueNext PROVE QueueInv'
  OBVIOUS
<1> DEFINE N == QueueSize
           Ring_ == [m_front : Slots, m_rear : Slots,
                     m_data : [Slots -> QueueItems \cup {Con!QueueUnset}]]
<1> N \in Nat \ {0}
  BY SequentialAssumption
<1>1. PICK f \in Slots, r \in Slots, n \in Nat :
          /\ f = obj.m_front /\ r = obj.m_rear /\ n = Len(held) /\ obj \in Ring_
          /\ held \in Seq(QueueItems) /\ ret[1] = ret[2]
          /\ n = Con!Wrapped(r + N - f)
          /\ \A k \in 1 .. n : obj.m_data[Con!Wrapped(f + k - 1)] = held[k]
  BY DEF QueueInv
<1>2. /\ n = (IF f <= r THEN r - f ELSE r + N - f) /\ n <= N - 1
      /\ \A k \in 1 .. N : Con!Wrapped(f + k - 1) = IF f + k - 1 < N THEN f + k - 1 ELSE f + k - 1 - N
  <2>1. n = (IF f <= r THEN r - f ELSE r + N - f)
    BY <1>1, Ring
  <2>2. n <= N - 1
    BY <1>1, <2>1 DEF Slots
  <2> QED BY <1>1, <2>1, <2>2, Ring
<1>3. PICK f1 \in Slots : f1 = Con!Wrapped(f + 1) /\ f1 = IF f = N - 1 THEN 0 ELSE f + 1
  BY <1>1, Ring
<1>4. PICK r1 \in Slots : r1 = Con!Wrapped(r + 1) /\ r1 = IF r = N - 1 THEN 0 ELSE r + 1
  BY <1>1, Ring
<1>5. ASSUME NEW ele \in QueueItems, Con!push(ele) PROVE QueueInv'
  <2>1. CASE Con!isFull(obj)
    <3>1. n = N - 1
      <4>1. f = r1
        BY <1>1, <1>4, <2>1 DEF Con!isFull
      <4> QED BY <1>2, <1>4, <4>1 DEF Slots
    <3>2. UNCHANGED <<obj, held>> /\ ret'[1] = ret'[2]
      BY <1>1, <1>5, <2>1, <3>1 DEF Con!push
    <3> QED BY <3>2 DEF QueueInv
  <2>2. CASE ~ Con!isFull(obj)
    <3>1. /\ obj' = [obj EXCEPT !.m_data[r] = ele, !.m_rear = r1]
          /\ held' = Append(held, ele) /\ ret'[1] = ret'[2]
      BY <1>1, <1>4, <1>5, <2>2 DEF Con!push
    <3>2. /\ obj' \in Ring_ /\ obj'.m_front = f /\ obj'.m_rear = r1
          /\ obj'.m_data[r] = ele /\ \A i \in Slots \ {r} : obj'.m_data[i] = obj.m_data[i]
      BY <1>1, <3>1
    <3>3. /\ held' \in Seq(QueueItems) /\ Len(held') = n + 1 /\ held'[n + 1] = ele
          /\ \A k \in 1 .. n : held'[k] = held[k]
      <4>1. held \in Seq(QueueItems) /\ ele \in QueueItems /\ held' = Append(held, ele) /\ Len(held) = n
        BY <1>1, <3>1
      <4> QED BY ONLY <4>1, AppendProperties
    <3>4. r1 # f
      BY <1>1, <1>4, <2>2 DEF Con!isFull
    <3>5. n + 1 = (IF f <= r1 THEN r1 - f ELSE r1 + N - f) /\ n + 1 <= N - 1
      BY <1>2, <1>4, <3>4 DEF Slots
    <3>6. n + 1 = Con!Wrapped(r1 + N - f)
      BY <3>5, Ring
    <3>7. ASSUME NEW k \in 1 .. n + 1 PROVE obj'.m_data[Con!Wrapped(f + k - 1)] = held'[k]
      <4>0. PICK w \in Slots : w = Con!Wrapped(f + k - 1)
                               /\ w = IF f + k - 1 < N THEN f + k - 1 ELSE f + k - 1 - N
        <5>1. k \in 1 .. N
          BY <3>5
        <5>2. (IF f + k - 1 < N THEN f + k - 1 ELSE f + k - 1 - N) \in Slots
          <6>1. f \in Nat /\ f < N /\ k \in Nat /\ 1 <= k /\ k <= N /\ N \in Nat
            BY <5>1 DEF Slots
          <6> QED BY ONLY <6>1 DEF Slots
        <5> QED BY <1>2, <5>1, <5>2
      <4>1. CASE k = n + 1
        <5>1. w = r
          BY <1>2, <4>0, <4>1 DEF Slots
        <5>2. obj'.m_data[w] = ele
          BY <3>2, <5>1
        <5>3. held'[k] = ele
          BY <3>3, <4>1
        <5> QED BY <4>0, <5>2, <5>3
      <4>2. CASE k \in 1 .. n
        <5>1. w # r
          BY <1>2, <4>0, <4>2 DEF Slots
        <5>2. obj'.m_data[w] = obj.m_data[w] /\ obj.m_data[w] = held[k]
          BY <1>1, <3>2, <4>0, <4>2, <5>1
        <5> QED BY <3>3, <4>0, <4>2, <5>2
      <4> QED BY <4>1, <4>2
    <3> QED BY <3>1, <3>2, <3>3, <3>6, <3>7 DEF QueueInv
  <2> QED BY <2>1, <2>2
<1>6. ASSUME Con!pop PROVE QueueInv'
  <2>1. CASE Con!isEmpty(obj)
    <3>1. n = 0 /\ held = <<>>
      <4>1. f = r
        BY <1>1, <2>1 DEF Con!isEmpty
      <4>2. n = 0
        BY <1>2, <4>1 DEF Slots
      <4>3. held \in Seq(QueueItems) /\ Len(held) = 0
        BY <1>1, <4>2
      <4>4. held = <<>>
        BY ONLY <4>3, EmptySeq
      <4> QED BY <4>2, <4>4
    <3>2. UNCHANGED <<obj, held>> /\ ret'[1] = ret'[2]
      BY <1>6, <2>1, <3>1 DEF Con!pop
    <3> QED BY <3>2 DEF QueueInv
  <2>2. CASE ~ Con!isEmpty(obj)
    <3>1. n # 0 /\ held # <<>>
      <4>1. f # r
        BY <1>1, <2>2 DEF Con!isEmpty
      <4>2. n # 0
        BY <1>2, <4>1 DEF Slots
      <4>3. Len(held) # 0
        BY <1>1, <4>2
      <4>4. held # <<>>
        BY ONLY <4>3, EmptySeq
      <4> QED BY <4>2, <4>4
    <3>2. /\ obj' = [obj EXCEPT !.m_front = f1] /\ held' = Tail(held)
          /\ ret' = <<obj.m_data[f], Head(held)>>
      BY <1>1, <1>3, <1>6, <2>2 DEF Con!pop
    <3>3. obj' \in Ring_ /\ obj'.m_front = f1 /\ obj'.m_rear = r /\ obj'.m_data = obj.m_data
      BY <1>1, <3>2
    <3>4. /\ held' \in Seq(QueueItems) /\ Len(held') = n - 1
          /\ \A k \in 1 .. n - 1 : held'[k] = held[k + 1]
          /\ Head(held) = held[1]
      <4>1. held \in Seq(QueueItems) /\ held # <<>> /\ held' = Tail(held) /\ Len(held) = n
        BY <1>1, <3>1, <3>2
      <4> QED BY ONLY <4>1, HeadTailProperties
    <3>5. n - 1 = (IF f1 <= r THEN r - f1 ELSE r + N - f1)
      BY <1>2, <1>3, <3>1 DEF Slots
    <3>6. n - 1 = Con!Wrapped(r + N - f1)
      BY <3>5, Ring
    <3>7. ret'[1] = ret'[2]
      <4>1. 1 \in 1 .. N /\ 1 \in 1 .. n /\ f + 1 - 1 = f /\ f < N
        BY <3>1 DEF Slots
      <4>2. Con!Wrapped(f + 1 - 1) = f
        BY <1>2, <4>1
      <4>3. obj.m_data[f] = held[1]
        BY <1>1, <4>1, <4>2
      <4> QED BY <3>2, <3>4, <4>3
    <3>8. ASSUME NEW k \in 1 .. n - 1 PROVE obj'.m_data[Con!Wrapped(f1 + k - 1)] = held'[k]
      <4>1. k \in 1 .. N /\ k + 1 \in 1 .. N /\ k + 1 \in 1 .. n
        BY <1>2
      <4>2. Con!Wrapped(f1 + k - 1) = IF f1 + k - 1 < N THEN f1 + k - 1 ELSE f1 + k - 1 - N
        BY <4>1, Ring
      <4>3. Con!Wrapped(f + (k + 1) - 1) = IF f + (k + 1) - 1 < N THEN f + (k + 1) - 1 ELSE f + (k + 1) - 1 - N
        BY <1>2, <4>1
      <4>4. Con!Wrapped(f1 + k - 1) = Con!Wrapped(f + (k + 1) - 1)
        BY <1>3, <4>1, <4>2, <4>3 DEF Slots
      <4>5. obj.m_data[Con!Wrapped(f + (k + 1) - 1)] = held[k + 1]
        BY <1>1, <4>1
      <4> QED BY <3>3, <3>4, <4>4, <4>5
    <3> QED BY <3>3, <3>4, <3>6, <3>7, <3>8 DEF QueueInv
  <2> QED BY <2>1, <2>2
<1> QED BY <1>5, <1>6 DEF Con!QueueNext

\* It implies the property of the ring queue.
LEMMA QueueIsSound == QueueInv => Con!QueueSound
<1> SUFFICES ASSUME QueueInv PROVE Con!QueueSound
  OBVIOUS
<1>1. /\ held \in Seq(QueueItems) /\ ret[1] = ret[2]
      /\ Len(held) = Con!Wrapped(obj.m_rear + QueueSize - obj.m_front)
      /\ \A k \in 1 .. Len(held) : obj.m_data[Con!Wrapped(obj.m_front + k - 1)] = held[k]
  BY DEF QueueInv
<1> DEFINE ring == [k \in 1 .. Len(held) |-> obj.m_data[Con!Wrapped(obj.m_front + k - 1)]]
<1>2. ring = held
  <2>1. ring \in [1 .. Len(held) -> QueueItems] /\ held \in [1 .. Len(held) -> QueueItems]
    BY <1>1
  <2>2. \A k \in 1 .. Len(held) : ring[k] = held[k]
    BY <1>1
  <2> QED BY ONLY <2>1, <2>2
<1> QED BY <1>1, <1>2 DEF Con!QueueSound

-----------------------------------------------------------------------------
(* The growing array. *)

\* The array is as large as the capacity says and holds the elements.
VectorSlot == VectorItems \cup {Con!VectorUnset}
VectorInv ==
    /\ obj \in [_size : Nat \ {0}, _capacity : Nat, _end : Int,
                _data : [0 .. obj._capacity - 1 -> VectorSlot]]
    /\ held \in Seq(VectorItems)
    /\ Con!VectorSound

\* The first states of the growing array have the invariant.
LEMMA VectorInits == Con!VectorInit => VectorInv
<1> SUFFICES ASSUME Con!VectorInit PROVE VectorInv
  OBVIOUS
<1>1. PICK n \in 1 .. 2, value \in VectorItems :
         /\ obj = [_size |-> n, _capacity |-> n, _end |-> n - 1,
                   _data |-> [i \in 0 .. n - 1 |-> value]]
         /\ held = [i \in 1 .. n |-> value]
  BY DEF Con!VectorInit, Con!Block
<1>2. obj \in [_size : Nat \ {0}, _capacity : Nat, _end : Int,
               _data : [0 .. obj._capacity - 1 -> VectorSlot]]
  BY <1>1 DEF VectorSlot
<1>3. held \in Seq(VectorItems) /\ Len(held) = n
  BY <1>1
<1>4. Con!VectorSound
  BY <1>1, <1>3 DEF Con!VectorSound
<1> QED BY <1>2, <1>3, <1>4 DEF VectorInv

\* Growing keeps the elements and leaves room for one more.
LEMMA Grown ==
    ASSUME VectorInv
    PROVE  \E v : /\ v = Con!reMall(obj)
                  /\ v \in [_size : Nat \ {0}, _capacity : Nat, _end : Int,
                            _data : [0 .. v._capacity - 1 -> VectorSlot]]
                  /\ v._size = obj._size /\ v._end = obj._size - 1 /\ v._size < v._capacity
                  /\ \A i \in 0 .. obj._size - 1 : v._data[i] = obj._data[i]
<1>0. PICK n, c, d :
         /\ obj = [_size |-> n, _capacity |-> c, _end |-> n - 1, _data |-> d] /\ n <= c
         /\ n \in Nat \ {0} /\ c \in Nat /\ d \in [0 .. c - 1 -> VectorSlot]
  BY DEF VectorInv, Con!VectorSound
<1>1. obj = [_size |-> n, _capacity |-> c, _end |-> n - 1, _data |-> d] /\ n <= c
  BY <1>0
<1> n \in Nat \ {0} /\ c \in Nat /\ d \in [0 .. c - 1 -> VectorSlot]
  BY <1>0
<1>2. CASE c = n
  <2> DEFINE e == [i \in 0 .. 2 * n - 1 |-> IF i < n THEN d[i] ELSE Con!VectorUnset]
             v == [_size |-> n, _capacity |-> 2 * n, _end |-> n - 1, _data |-> e]
  <2>1. Con!reMall(obj) = v
    BY <1>1, <1>2 DEF Con!reMall, Con!Block
  <2>2. e \in [0 .. 2 * n - 1 -> VectorSlot]
    BY <1>2 DEF VectorSlot
  <2>3. \A i \in 0 .. n - 1 : e[i] = d[i]
    OBVIOUS
  <2> HIDE DEF e
  <2>4. v \in [_size : Nat \ {0}, _capacity : Nat, _end : Int, _data : [0 .. v._capacity - 1 -> VectorSlot]]
    BY <2>2
  <2>5. /\ v._size = obj._size /\ v._end = obj._size - 1 /\ v._size < v._capacity
        /\ \A i \in 0 .. obj._size - 1 : v._data[i] = obj._data[i]
    BY <1>1, <2>3
  <2> QED BY <2>1, <2>4, <2>5
<1>3. CASE c # n
  <2>1. Con!reMall(obj) = obj
    BY <1>1, <1>3 DEF Con!reMall
  <2>2. obj._size < obj._capacity
    BY <1>1, <1>3
  <2> QED BY <1>1, <2>1, <2>2
<1> QED BY <1>2, <1>3

\* The calls of the growing array keep it.
LEMMA VectorSteps == VectorInv /\ Con!VectorNext => VectorInv'
<1> SUFFICES ASSUME VectorInv, Con!VectorNext PROVE VectorInv'
  OBVIOUS
<1>1. PICK n \in Nat : /\ n = Len(held) /\ n = obj._size /\ n <= obj._capacity
                       /\ \A i \in 1 .. n : obj._data[i - 1] = held[i]
                       /\ held \in Seq(VectorItems)
  BY DEF VectorInv, Con!VectorSound
<1>2. ASSUME NEW t \in VectorItems, Con!push_back(t) PROVE VectorInv'
  <2>1. PICK v : /\ v = Con!reMall(obj)
                 /\ v \in [_size : Nat \ {0}, _capacity : Nat, _end : Int,
                           _data : [0 .. v._capacity - 1 -> VectorSlot]]
                 /\ v._size = n /\ v._end = n - 1 /\ v._size < v._capacity
                 /\ \A i \in 0 .. n - 1 : v._data[i] = obj._data[i]
    BY <1>1, Grown
  <2>2. obj' = [v EXCEPT !._end = @ + 1, !._data[v._end + 1] = t, !._size = @ + 1]
        /\ held' = Append(held, t)
    BY <1>2, <2>1 DEF Con!push_back
  <2>3. PICK c \in Nat : c = v._capacity /\ n < c
    BY <2>1
  <2>4. v._end + 1 = n /\ n \in 0 .. c - 1
    BY <2>1, <2>3
  <2>5. /\ obj'._size = n + 1 /\ obj'._end = n /\ obj'._capacity = c
        /\ obj'._data = [v._data EXCEPT ![n] = t]
        /\ obj' \in [_size : Nat \ {0}, _capacity : Nat, _end : Int, _data : [0 .. c - 1 -> VectorSlot]]
    <3>1. obj' = [v EXCEPT !._end = v._end + 1, !._data = [v._data EXCEPT ![n] = t], !._size = v._size + 1]
      BY <2>1, <2>2, <2>4
    <3> DEFINE d == [v._data EXCEPT ![n] = t]
    <3>2. d \in [0 .. c - 1 -> VectorSlot]
      BY <2>1, <2>3 DEF VectorSlot
    <3>3. PICK old : v = [_size |-> n, _capacity |-> c, _end |-> n - 1, _data |-> old]
      BY <2>1, <2>3
    <3> HIDE DEF d
    <3>4. obj' = [_size |-> n + 1, _capacity |-> c, _end |-> n, _data |-> d]
      <4>1. v._end + 1 = n /\ v._size + 1 = n + 1
        BY <2>1
      <4>2. obj' = [v EXCEPT !._end = n, !._data = d, !._size = n + 1]
        BY <3>1, <4>1 DEF d
      <4> QED BY ONLY <3>3, <4>2
    <3>5. n + 1 \in Nat \ {0} /\ n \in Int
      OBVIOUS
    <3> QED BY <2>3, <3>2, <3>4, <3>5 DEF d
  <2>6. /\ held' \in Seq(VectorItems) /\ Len(held') = n + 1 /\ held'[n + 1] = t
        /\ \A i \in 1 .. n : held'[i] = held[i]
    <3>1. held \in Seq(VectorItems) /\ t \in VectorItems /\ n = Len(held) /\ held' = Append(held, t)
      BY <1>1, <2>2
    <3> QED BY ONLY <3>1, AppendProperties
  <2>7. ASSUME NEW i \in 1 .. n + 1 PROVE obj'._data[i - 1] = held'[i]
    <3>1. CASE i = n + 1
      BY <2>1, <2>3, <2>4, <2>5, <2>6, <3>1
    <3>2. CASE i \in 1 .. n
      <4>1. i - 1 \in 0 .. n - 1 /\ i - 1 # n /\ i - 1 \in 0 .. c - 1
        BY <2>3, <3>2
      <4>2. obj'._data[i - 1] = v._data[i - 1] /\ v._data[i - 1] = obj._data[i - 1]
        BY <2>1, <2>3, <2>5, <4>1
      <4> QED BY <1>1, <2>6, <3>2, <4>2
    <3> QED BY <3>1, <3>2
  <2>8. DOMAIN obj'._data = 0 .. c - 1
    BY <2>5
  <2>9. Con!VectorSound'
    BY <2>3, <2>5, <2>6, <2>7, <2>8 DEF Con!VectorSound
  <2> QED BY <2>5, <2>6, <2>9 DEF VectorInv
<1>3. ASSUME NEW t \in VectorItems, NEW index \in 0 .. VectorMax - 1, Con!Assign(index, t)
      PROVE  VectorInv'
  <2>1. /\ index \in Nat /\ index < n /\ obj' = [obj EXCEPT !._data[index] = t]
        /\ held' = [i \in 1 .. n |-> IF i = index + 1 THEN t ELSE held[i]]
    <3>1. /\ index < n /\ obj' = [obj EXCEPT !._data[index] = t]
          /\ held' = [i \in 1 .. n |-> IF i = index + 1 THEN t ELSE held[i]]
      BY <1>1, <1>3 DEF Con!Assign
    <3>2. index \in Nat
      BY SequentialAssumption
    <3> QED BY <3>1, <3>2
  <2>2. PICK c \in Nat : c = obj._capacity /\ n <= c
    BY <1>1 DEF VectorInv
  <2>3. /\ obj'._size = n /\ obj'._end = n - 1 /\ obj'._capacity = c
        /\ obj'._data = [obj._data EXCEPT ![index] = t] /\ DOMAIN obj._data = 0 .. c - 1
        /\ obj' \in [_size : Nat \ {0}, _capacity : Nat, _end : Int, _data : [0 .. c - 1 -> VectorSlot]]
    BY <1>1, <2>1, <2>2 DEF VectorInv, VectorSlot, Con!VectorSound
  <2>4. held' \in Seq(VectorItems) /\ Len(held') = n
    <3>1. \A i \in 1 .. n : held'[i] \in VectorItems
      <4>1. \A i \in 1 .. n : held[i] \in VectorItems
        <5>1. held \in Seq(VectorItems) /\ n = Len(held)
          BY <1>1
        <5> QED BY ONLY <5>1
      <4> QED BY <2>1, <4>1
    <3> QED BY <2>1, <3>1
  <2>5. ASSUME NEW i \in 1 .. n PROVE obj'._data[i - 1] = held'[i]
    <3>1. i - 1 \in 0 .. c - 1 /\ (i - 1 = index <=> i = index + 1)
      BY <2>1, <2>2
    <3> QED BY <1>1, <2>1, <2>3, <3>1
  <2>6. DOMAIN obj'._data = 0 .. c - 1
    BY <2>3
  <2>7. Con!VectorSound'
    BY <2>2, <2>3, <2>4, <2>5, <2>6 DEF Con!VectorSound
  <2> QED BY <2>3, <2>4, <2>7 DEF VectorInv
<1> QED BY <1>2, <1>3 DEF Con!VectorNext

-----------------------------------------------------------------------------
(* The shared pieces of the board. *)

\* A set whose members are all equal has at most one.
LEMMA AtMostOne ==
    ASSUME NEW S, \A x, y \in S : x = y
    PROVE  IsFiniteSet(S) /\ Cardinality(S) \in 0 .. 1
<1>1. CASE S = {}
  BY <1>1, FS_EmptySet
<1>2. CASE S # {}
  <2>1. PICK x \in S : TRUE
    BY <1>2
  <2>2. S = {x}
    BY <2>1
  <2> QED BY <2>2, FS_Singleton
<1> QED BY <1>1, <1>2

\* The instances count as this module does.

\* The piece of every colour is in the vector once; what the board shows is what was asked for.
Piece == [m_color : Colors, m_point : Points \cup {Own!NoPoint}]
PieceInv ==
    /\ obj \in [m_vecPiece : Seq(Piece), m_mapPieces : [DOMAIN held -> 1 .. Len(Own!Vec)],
                pPiece : 0 .. Len(Own!Vec), placed : BOOLEAN]
    /\ held \in [DOMAIN held -> Colors]
    /\ \A x \in DOMAIN held : Own!Vec[obj.m_mapPieces[x]].m_color = held[x]
    /\ \A i, j \in 1 .. Len(Own!Vec) : Own!Vec[i].m_color = Own!Vec[j].m_color => i = j
    /\ obj.pPiece # 0 => Own!Vec[obj.pPiece].m_color = ret
    /\ obj.placed => obj.pPiece # 0

\* The first states of the board have the invariant.
LEMMA PieceInits == Own!PieceInit => PieceInv
<1> SUFFICES ASSUME Own!PieceInit PROVE PieceInv
  OBVIOUS
<1>1. /\ obj.m_vecPiece = <<>> /\ obj.m_mapPieces = [p \in {} |-> 0] /\ obj.pPiece = 0
      /\ obj.placed = FALSE
      /\ obj = [m_vecPiece |-> <<>>, m_mapPieces |-> [p \in {} |-> 0], pPiece |-> 0, placed |-> FALSE]
      /\ held = [p \in {} |-> 0]
  BY DEF Own!PieceInit, Own!Null
<1>2. DOMAIN held = {} /\ held \in [DOMAIN held -> Colors] /\ Own!Vec = <<>> /\ Len(Own!Vec) = 0
  BY <1>1 DEF Own!Vec
<1>3. obj.m_mapPieces \in [DOMAIN held -> 1 .. Len(Own!Vec)] /\ <<>> \in Seq(Piece)
  BY <1>1, <1>2
<1> QED BY <1>1, <1>2, <1>3 DEF PieceInv

\* The calls of the board keep it.
LEMMA PieceSteps == PieceInv /\ Own!PieceNext => PieceInv'
<1> SUFFICES ASSUME PieceInv, Own!PieceNext PROVE PieceInv'
  OBVIOUS
<1>1. PICK V, M, p, b : obj = [m_vecPiece |-> V, m_mapPieces |-> M, pPiece |-> p, placed |-> b]
  BY DEF PieceInv
<1>2. /\ V \in Seq(Piece) /\ M \in [DOMAIN held -> 1 .. Len(V)] /\ p \in 0 .. Len(V) /\ b \in BOOLEAN
      /\ held \in [DOMAIN held -> Colors] /\ \A x \in DOMAIN held : V[M[x]].m_color = held[x]
      /\ \A i, j \in 1 .. Len(V) : V[i].m_color = V[j].m_color => i = j
      /\ p # 0 => V[p].m_color = ret
      /\ b => p # 0
      /\ Len(V) \in Nat
      /\ Own!Vec = V
  BY <1>1 DEF PieceInv, Own!Vec
<1>3. ASSUME NEW color \in Colors, Own!GetPiece(color) PROVE PieceInv'
  <2> DEFINE F == {i \in 1 .. Len(V) : V[i].m_color = color}
  <2>1. Own!Found(color) = F
    BY <1>2 DEF Own!Found
  <2>2. CASE F = {}
    <3> DEFINE W == Append(V, [m_color |-> color, m_point |-> 0])
    <3>1. obj' = [m_vecPiece |-> W, m_mapPieces |-> M, pPiece |-> Len(V) + 1, placed |-> FALSE]
      BY <1>1, <1>2, <1>3, <2>1, <2>2 DEF Own!GetPiece, Own!NoPoint
    <3>2. /\ W \in Seq(Piece) /\ Len(W) = Len(V) + 1
          /\ \A i \in 1 .. Len(V) : W[i] = V[i]
          /\ W[Len(V) + 1] = [m_color |-> color, m_point |-> 0]
      <4>1. V \in Seq(Piece) /\ [m_color |-> color, m_point |-> 0] \in Piece
        BY <1>2 DEF Piece, Own!NoPoint
      <4> QED BY ONLY <4>1, AppendProperties
    <3> HIDE DEF W
    <3>3. ret' = color /\ held' = held
      BY <1>3 DEF Own!GetPiece
    <3>4. M \in [DOMAIN held -> 1 .. Len(W)] /\ \A x \in DOMAIN held : W[M[x]].m_color = held[x]
      <4>1. \A x \in DOMAIN held : M[x] \in 1 .. Len(V) /\ V[M[x]].m_color = held[x]
        BY <1>2
      <4>2. 1 .. Len(V) \subseteq 1 .. Len(W) /\ M \in [DOMAIN held -> 1 .. Len(V)]
        BY <1>2, <3>2
      <4> QED BY <3>2, <4>1, <4>2
    <3>5. \A i, j \in 1 .. Len(W) : W[i].m_color = W[j].m_color => i = j
      <4>1. \A i \in 1 .. Len(V) : W[i].m_color # color
        <5>1. \A i \in 1 .. Len(V) : V[i].m_color # color
          BY <2>2
        <5> QED BY <3>2, <5>1
      <4>2. W[Len(V) + 1].m_color = color
        BY <3>2
      <4>3. ASSUME NEW i \in 1 .. Len(W), NEW j \in 1 .. Len(W), W[i].m_color = W[j].m_color
            PROVE  i = j
        <5>1. (i \in 1 .. Len(V) \/ i = Len(V) + 1) /\ (j \in 1 .. Len(V) \/ j = Len(V) + 1)
          BY <1>2, <3>2
        <5>2. CASE i \in 1 .. Len(V) /\ j \in 1 .. Len(V)
          BY <1>2, <3>2, <4>3, <5>2
        <5>3. CASE i \in 1 .. Len(V) /\ j = Len(V) + 1
          BY <4>1, <4>2, <4>3, <5>3
        <5>4. CASE i = Len(V) + 1 /\ j \in 1 .. Len(V)
          BY <4>1, <4>2, <4>3, <5>4
        <5> QED BY <5>1, <5>2, <5>3, <5>4
      <4> QED BY <4>3
    <3>6. Len(V) + 1 \in 0 .. Len(W) /\ W[Len(V) + 1].m_color = color
      BY <1>2, <3>2
    <3> QED BY <1>2, <3>1, <3>2, <3>3, <3>4, <3>5, <3>6 DEF PieceInv, Own!Vec
  <2>3. CASE F # {}
    <3>1. PICK k \in F : \A i \in F : i = k
      BY <1>2, <2>3
    <3>2. k = CHOOSE i \in F : \A j \in F : i <= j
      BY <1>2, <3>1
    <3>3. obj' = [m_vecPiece |-> V, m_mapPieces |-> M, pPiece |-> k, placed |-> FALSE]
      BY <1>1, <1>2, <1>3, <2>1, <2>3, <3>2 DEF Own!GetPiece
    <3>4. ret' = color /\ held' = held /\ V[k].m_color = color /\ k \in 0 .. Len(V)
      BY <1>2, <1>3, <3>1 DEF Own!GetPiece
    <3> QED BY <1>2, <3>3, <3>4 DEF PieceInv, Own!Vec
  <2> QED BY <2>2, <2>3
<1>4. ASSUME NEW point \in Points, Own!SetPoint(point) PROVE PieceInv'
  <2> DEFINE W == [V EXCEPT ![p].m_point = point]
  <2>1. /\ p \in 1 .. Len(V) /\ UNCHANGED <<held, ret>>
        /\ obj' = [m_vecPiece |-> W, m_mapPieces |-> M, pPiece |-> p, placed |-> TRUE]
    <3>1. p # 0 /\ UNCHANGED <<held, ret>>
          /\ obj' = [obj EXCEPT !.m_vecPiece[p].m_point = point, !.placed = TRUE]
      BY <1>1, <1>4 DEF Own!SetPoint, Own!Null
    <3>2. p \in 1 .. Len(V)
      BY <1>2, <3>1
    <3>3. obj' = [obj EXCEPT !.m_vecPiece = W, !.placed = TRUE]
      BY <1>1, <3>1
    <3> HIDE DEF W
    <3> QED BY <1>1, <3>1, <3>2, <3>3
  <2>2. \A i \in 1 .. Len(V) : V[i] \in Piece
    BY <1>2
  <2>3. PICK c \in Colors, g \in Points \cup {Own!NoPoint} : V[p] = [m_color |-> c, m_point |-> g]
    BY <2>1, <2>2 DEF Piece
  <2>4. W = [V EXCEPT ![p] = [m_color |-> c, m_point |-> point]]
    <3>1. W = [V EXCEPT ![p] = [V[p] EXCEPT !.m_point = point]]
      OBVIOUS
    <3>2. [V[p] EXCEPT !.m_point = point] = [m_color |-> c, m_point |-> point]
      BY <2>3
    <3> QED BY <3>1, <3>2
  <2>5. /\ W \in Seq(Piece) /\ Len(W) = Len(V)
        /\ \A i \in 1 .. Len(V) : W[i].m_color = V[i].m_color
    <3>1. [m_color |-> c, m_point |-> point] \in Piece
      BY DEF Piece
    <3>2. W \in Seq(Piece) /\ Len(W) = Len(V)
          /\ \A i \in 1 .. Len(V) : W[i] = IF i = p THEN [m_color |-> c, m_point |-> point] ELSE V[i]
      <4>1. V \in Seq(Piece) /\ p \in 1 .. Len(V) /\ Len(V) \in Nat
        BY <1>2, <2>1
      <4> HIDE DEF W
      <4> QED BY ONLY <2>4, <3>1, <4>1, ExceptSeq
    <3> QED BY <2>3, <3>2
  <2> HIDE DEF W
  <2>6. M \in [DOMAIN held -> 1 .. Len(W)] /\ \A x \in DOMAIN held : W[M[x]].m_color = held[x]
    BY <1>2, <2>5
  <2>7. \A i, j \in 1 .. Len(W) : W[i].m_color = W[j].m_color => i = j
    BY <1>2, <2>5
  <2>8. W[p].m_color = ret /\ p # 0 /\ p \in 0 .. Len(W)
    BY <1>2, <2>1, <2>5
  <2> QED BY <1>2, <2>1, <2>5, <2>6, <2>7, <2>8 DEF PieceInv, Own!Vec
<1>5. ASSUME Own!Draw PROVE PieceInv'
  <2> DEFINE point == V[p].m_point
  <2>1. b /\ UNCHANGED ret /\ p \in 1 .. Len(V) /\ ret = V[p].m_color /\ ret \in Colors
    <3>1. b /\ UNCHANGED ret
      BY <1>1, <1>5 DEF Own!Draw
    <3>2. p \in 1 .. Len(V) /\ V[p] \in Piece
      BY <1>2, <3>1
    <3> QED BY <1>2, <3>1, <3>2 DEF Piece
  <2>2. CASE point \in DOMAIN held
    <3>1. DOMAIN M = DOMAIN held
      BY <1>2
    <3>2. obj' = obj /\ held' = held
      BY <1>1, <1>2, <1>5, <2>2, <3>1 DEF Own!Draw
    <3> QED BY <2>1, <3>2 DEF PieceInv, Own!Vec
  <2>3. CASE point \notin DOMAIN held
    <3> DEFINE D == DOMAIN held \cup {point}
               M2 == [x \in D |-> IF x = point THEN p ELSE M[x]]
               H2 == [x \in D |-> IF x = point THEN ret ELSE held[x]]
    <3>1. DOMAIN M = DOMAIN held
      BY <1>2
    <3>2. obj' = [m_vecPiece |-> V, m_mapPieces |-> M2, pPiece |-> p, placed |-> b] /\ held' = H2
      BY <1>1, <1>2, <1>5, <2>3, <3>1 DEF Own!Draw
    <3>3. DOMAIN H2 = D /\ H2 \in [D -> Colors] /\ M2 \in [D -> 1 .. Len(V)]
      BY <1>2, <2>1
    <3>4. \A x \in D : V[M2[x]].m_color = H2[x]
      BY <1>2, <2>1
    <3> HIDE DEF M2, H2, D
    <3> QED BY <1>2, <2>1, <3>2, <3>3, <3>4 DEF PieceInv, Own!Vec
  <2> QED BY <2>2, <2>3
<1> QED BY <1>3, <1>4, <1>5 DEF Own!PieceNext

\* It implies the property of the board.
LEMMA PieceIsSound == PieceInv => Own!PieceSound
<1> SUFFICES ASSUME PieceInv PROVE Own!PieceSound
  OBVIOUS
<1>1. Own!Shown = held
  BY DEF PieceInv, Own!Shown
<1>2. \A color \in Colors : Cardinality(Own!Found(color)) <= 1
  <2> SUFFICES ASSUME NEW color \in Colors PROVE Cardinality(Own!Found(color)) <= 1
    OBVIOUS
  <2>1. \A i, j \in Own!Found(color) : i = j
    BY DEF PieceInv, Own!Found
  <2> QED BY <2>1, AtMostOne
<1>3. obj.pPiece # 0 => Own!Vec[obj.pPiece].m_color = ret
  BY DEF PieceInv
<1> QED BY <1>1, <1>2, <1>3, SameCount DEF Own!PieceSound, Own!Null

-----------------------------------------------------------------------------
(* The bit map. *)

\* An index is a byte and a place in it.
LEMMA ByteAndPlace ==
    ASSUME NEW i \in 0 .. 8 * charSize - 1
    PROVE  /\ i \div 8 \in 0 .. charSize - 1 /\ i % 8 \in 0 .. 7 /\ i = 8 * (i \div 8) + (i % 8)
<1>1. charSize \in Nat
  BY SequentialAssumption
<1>2. PICK a \in Int, x \in 0 .. 7 : a = i \div 8 /\ x = i % 8 /\ i = 8 * a + x
  BY <1>1
<1>3. a \in 0 .. charSize - 1
  BY <1>1, <1>2
<1> QED BY <1>2, <1>3

\* Different places of a byte have different weights.
LEMMA WeightOf ==
    ASSUME NEW i \in Nat, NEW j \in Nat
    PROVE  Con!temp(i) \in Weights /\ (Con!temp(i) = Con!temp(j) <=> i % 8 = j % 8)
<1> DEFINE W(x) == <<128, 64, 32, 16, 8, 4, 2, 1>>[x + 1]
<1>1. W(0) = 128 /\ W(1) = 64 /\ W(2) = 32 /\ W(3) = 16 /\ W(4) = 8 /\ W(5) = 4 /\ W(6) = 2 /\ W(7) = 1
  OBVIOUS
<1>2. PICK x \in 0 .. 7, y \in 0 .. 7 : x = i % 8 /\ y = j % 8
  OBVIOUS
<1>3. Con!temp(i) = W(x) /\ Con!temp(j) = W(y)
  BY <1>2 DEF Con!temp
<1> HIDE DEF W
<1>4. W(x) \in Weights /\ (W(x) = W(y) <=> x = y)
  BY <1>1 DEF Weights
<1> QED BY <1>2, <1>3, <1>4

\* The bytes hold the bits of the set.
BitsInv ==
    /\ obj \in [0 .. charSize - 1 -> 0 .. 255]
    /\ held \subseteq 0 .. 8 * charSize - 1
    /\ \A i \in 0 .. 8 * charSize - 1 : Con!Bit(obj, i) <=> i \in held
    /\ ret[1] = ret[2]

\* The first states of the bit map have the invariant.
LEMMA BitsInits == Con!BitsInit => BitsInv
<1> SUFFICES ASSUME Con!BitsInit PROVE BitsInv
  OBVIOUS
<1>1. obj = [addr \in 0 .. charSize - 1 |-> 0] /\ held = {} /\ ret[1] = ret[2]
  BY DEF Con!BitsInit
<1>2. ASSUME NEW i \in 0 .. 8 * charSize - 1 PROVE ~ Con!Bit(obj, i)
  <2>1. obj[i \div 8] = 0 /\ i \in Nat
    BY <1>1, ByteAndPlace, SequentialAssumption
  <2>2. PICK p \in Weights : p = Con!temp(i)
    BY <2>1, WeightOf
  <2>3. (0 \div p) % 2 = 0
    BY <2>2 DEF Weights
  <2> QED BY <2>1, <2>2, <2>3 DEF Con!Bit, Con!HasBit
<1>3. obj \in [0 .. charSize - 1 -> 0 .. 255]
  BY <1>1
<1>4. \A i \in 0 .. 8 * charSize - 1 : Con!Bit(obj, i) <=> i \in held
  BY <1>1, <1>2
<1> QED BY <1>1, <1>3, <1>4 DEF BitsInv

\* A bit by the digit of its byte.
LEMMA BitDigit ==
    ASSUME NEW d, NEW i PROVE Con!Bit(d, i) <=> Digit(d[i \div 8], Con!temp(i)) = 1
BY DEF Con!Bit, Con!HasBit, Digit

\* set() changes one bit.
LEMMA OneBitSet ==
    ASSUME BitsInv, NEW i \in 0 .. 8 * charSize - 1, NEW on \in 0 .. 1,
           NEW d, d = (IF on = 1 THEN Con!setTrue(obj, i) ELSE Con!setFalse(obj, i))
    PROVE  /\ d \in [0 .. charSize - 1 -> 0 .. 255]
           /\ \A j \in 0 .. 8 * charSize - 1 : Con!Bit(d, j) <=> IF j = i THEN on = 1 ELSE Con!Bit(obj, j)
<1> DEFINE a == i \div 8
           b == obj[a]
<1>0. charSize \in Nat
  BY SequentialAssumption
<1>1. a \in 0 .. charSize - 1 /\ b \in 0 .. 255 /\ obj \in [0 .. charSize - 1 -> 0 .. 255] /\ i \in Nat
  <2>1. a \in 0 .. charSize - 1
    BY ByteAndPlace
  <2>2. obj \in [0 .. charSize - 1 -> 0 .. 255]
    BY DEF BitsInv
  <2>3. i \in Nat
    BY <1>0
  <2> QED BY <2>1, <2>2, <2>3
<1>2. PICK p \in Weights : p = Con!temp(i)
  BY <1>1, WeightOf
<1> HIDE DEF a, b
\* The new byte.
<1>3. PICK n \in 0 .. 255 :
         /\ d = [obj EXCEPT ![a] = n]
         /\ \A r \in Weights : (Digit(n, r) = 1) <=> IF r = p THEN on = 1 ELSE Digit(b, r) = 1
  <2>1. CASE on = 1 <=> Digit(b, p) = 1
    <3>1. d = obj
      BY <1>2, <2>1 DEF Con!setTrue, Con!setFalse, Con!Bit, Con!HasBit, Digit, a, b
    <3>2. d = [obj EXCEPT ![a] = b]
      BY <1>1, <3>1 DEF b
    <3>3. \A r \in Weights : Digit(b, r) = 1 <=> IF r = p THEN on = 1 ELSE Digit(b, r) = 1
      BY <2>1
    <3> QED BY ONLY <1>1, <3>2, <3>3, Zenon
  <2>2. CASE on = 1 /\ Digit(b, p) # 1
    <3>1. d = [obj EXCEPT ![a] = b + p]
      <4>1. on = 1 /\ (b \div p) % 2 # 1 /\ obj[i \div 8] = b /\ i \div 8 = a /\ Con!temp(i) = p
        BY <1>2, <2>2 DEF Digit, a, b
      <4>2. d = Con!setTrue(obj, i)
        BY <4>1
      <4> QED BY ONLY <4>1, <4>2 DEF Con!setTrue, Con!HasBit
    <3>2. b + p \in 0 .. 255 /\ \A r \in Weights : Digit(b + p, r) = IF r = p THEN 1 ELSE Digit(b, r)
      <4>0. b \in 0 .. 255 /\ p \in Weights
        BY <1>1
      <4>1. ASSUME NEW r \in Weights
            PROVE  b + p \in 0 .. 255 /\ Digit(b + p, r) = IF r = p THEN 1 ELSE Digit(b, r)
        BY ONLY <4>0, <2>2, r \in Weights, DigitPlus
      <4>2. b + p \in 0 .. 255
        BY ONLY <4>0, <4>1
      <4> QED BY ONLY <4>1, <4>2
    <3> QED BY <2>2, <3>1, <3>2
  <2>3. CASE on = 0 /\ Digit(b, p) = 1
    <3>1. d = [obj EXCEPT ![a] = b - p]
      BY <1>2, <2>3 DEF Con!setFalse, Con!Bit, Con!HasBit, Digit, a, b
    <3>2. b - p \in 0 .. 255 /\ \A r \in Weights : Digit(b - p, r) = IF r = p THEN 0 ELSE Digit(b, r)
      <4>0. b \in 0 .. 255 /\ p \in Weights
        BY <1>1
      <4>1. ASSUME NEW r \in Weights
            PROVE  b - p \in 0 .. 255 /\ Digit(b - p, r) = IF r = p THEN 0 ELSE Digit(b, r)
        BY ONLY <4>0, <2>3, r \in Weights, DigitMinus
      <4>2. b - p \in 0 .. 255
        BY ONLY <4>0, <4>1
      <4> QED BY ONLY <4>1, <4>2
    <3> QED BY <2>3, <3>1, <3>2
  <2>4. on = 0 \/ on = 1
    OBVIOUS
  <2>5. CASE Digit(b, p) = 1
    <3>1. CASE on = 1
      BY Zenon, <2>1, <2>5, <3>1
    <3>2. CASE on = 0
      BY Zenon, <2>3, <2>5, <3>2
    <3> QED BY Zenon, <2>4, <3>1, <3>2
  <2>6. CASE Digit(b, p) # 1
    <3>1. CASE on = 1
      BY Zenon, <2>2, <2>6, <3>1
    <3>2. CASE on = 0
      <4>1. on = 1 <=> Digit(b, p) = 1
        BY <2>6, <3>2
      <4> QED BY Zenon, <2>1, <4>1
    <3> QED BY <2>4, <3>1, <3>2
  <2> QED BY Zenon, <2>5, <2>6
<1>4. d \in [0 .. charSize - 1 -> 0 .. 255]
  <2>1. d = [obj EXCEPT ![a] = n] /\ n \in 0 .. 255
    BY <1>3
  <2> QED BY ONLY <1>1, <2>1
<1>5. ASSUME NEW j \in 0 .. 8 * charSize - 1
      PROVE  Con!Bit(d, j) <=> IF j = i THEN on = 1 ELSE Con!Bit(obj, j)
  <2>1. j \div 8 \in 0 .. charSize - 1 /\ j \in Nat /\ j = 8 * (j \div 8) + (j % 8) /\ i = 8 * a + (i % 8)
    BY <1>0, ByteAndPlace DEF a
  <2>2. PICK r \in Weights : r = Con!temp(j) /\ (r = p <=> i % 8 = j % 8)
    BY <1>1, <1>2, <2>1, WeightOf
  <2>3. CASE j \div 8 # a
    <3>1. d[j \div 8] = obj[j \div 8] /\ j # i
      BY <1>1, <1>3, <2>1, <2>3 DEF a
    <3> QED BY <3>1, BitDigit
  <2>4. CASE j \div 8 = a
    <3>1. d[j \div 8] = n /\ obj[j \div 8] = b
      BY <1>1, <1>3, <2>4 DEF b
    <3>2. j = i <=> r = p
      BY <2>1, <2>2, <2>4
    <3> QED BY <1>3, <2>2, <3>1, <3>2, BitDigit
  <2> QED BY <2>3, <2>4
<1> QED BY <1>4, <1>5

\* The calls of the bit map keep it.
LEMMA BitsSteps == BitsInv /\ Con!BitsNext => BitsInv'
<1> SUFFICES ASSUME BitsInv, Con!BitsNext PROVE BitsInv'
  OBVIOUS
<1> DEFINE All == 0 .. 8 * charSize - 1
<1>0. charSize \in Nat /\ BitIndices \subseteq All /\ BitBytes \subseteq 0 .. 255
  BY SequentialAssumption
<1>1. /\ obj \in [0 .. charSize - 1 -> 0 .. 255] /\ held \subseteq All
      /\ \A i \in All : Con!Bit(obj, i) <=> i \in held
      /\ ret[1] = ret[2]
  BY DEF BitsInv
<1>2. ASSUME NEW c \in 0 .. charSize - 1, NEW x \in 0 .. 7
      PROVE  Con!Index(c, x) \in All /\ Con!Index(c, x) \div 8 = c /\ Con!Index(c, x) % 8 = x
  BY <1>0 DEF Con!Index
<1>3. ASSUME NEW i \in All, Con!BitsGet(i) PROVE BitsInv'
  <2>1. UNCHANGED <<obj, held>> /\ ret' = <<Con!Bit(obj, i), i \in held>>
    BY <1>3 DEF Con!BitsGet
  <2>2. ret'[1] = ret'[2]
    BY <1>1, <2>1 DEF Con!Bit, Con!HasBit
  <2> QED BY <1>1, <2>1, <2>2 DEF BitsInv, Con!Bit
<1>4. ASSUME NEW i \in All, NEW on \in 0 .. 1,
             obj' = (IF on = 1 THEN Con!setTrue(obj, i) ELSE Con!setFalse(obj, i)),
             held' = (IF on = 1 THEN held \cup {i} ELSE held \ {i}), ret' = ret
      PROVE  BitsInv'
  <2>1. /\ obj' \in [0 .. charSize - 1 -> 0 .. 255]
        /\ \A j \in All : Con!Bit(obj', j) <=> IF j = i THEN on = 1 ELSE Con!Bit(obj, j)
    BY <1>4, OneBitSet
  <2>2. held' \subseteq All /\ \A j \in All : j \in held' <=> IF j = i THEN on = 1 ELSE j \in held
    BY <1>1, <1>4
  <2>3. \A j \in All : Con!Bit(obj', j) <=> j \in held'
    BY <1>1, <2>1, <2>2
  <2> QED BY <1>1, <1>4, <2>1, <2>2, <2>3 DEF BitsInv
<1>7. ASSUME NEW i \in All, NEW status \in BOOLEAN, Con!BitsSet(i, status) PROVE BitsInv'
  <2>1. CASE status = TRUE
    <3>1. obj' = Con!setTrue(obj, i) /\ held' = held \cup {i} /\ ret' = ret
      BY <1>7, <2>1 DEF Con!BitsSet
    <3>2. 1 \in 0 .. 1
      OBVIOUS
    <3> QED BY <1>4, <3>1, <3>2
  <2>2. CASE status = FALSE
    <3>1. obj' = Con!setFalse(obj, i) /\ held' = held \ {i} /\ ret' = ret
      BY <1>7, <2>2 DEF Con!BitsSet
    <3>2. 0 \in 0 .. 1 /\ 0 # 1
      OBVIOUS
    <3> QED BY <1>4, <3>1, <3>2
  <2> QED BY <2>1, <2>2
<1>5. ASSUME NEW c \in 0 .. charSize - 1, NEW number \in BitBytes, Con!setNumber(c, number)
      PROVE  BitsInv'
  <2> DEFINE New == {Con!Index(c, b) : b \in {b \in 0 .. 7 : Con!HasBit(number, b)}}
             Old == {i \in held : i \div 8 # c}
  <2>1. obj' = [obj EXCEPT ![c] = number] /\ held' = Old \cup New /\ ret' = ret
    BY <1>5 DEF Con!setNumber
  <2>2. obj' \in [0 .. charSize - 1 -> 0 .. 255]
    BY <1>0, <1>1, <2>1
  <2>3. New \subseteq All /\ \A i \in New : i \div 8 = c
    BY <1>2
  <2>4. held' \subseteq All
    BY <1>1, <2>1, <2>3
  <2>5. ASSUME NEW j \in All PROVE Con!Bit(obj', j) <=> j \in held'
    <3>1. j \div 8 \in 0 .. charSize - 1 /\ j % 8 \in 0 .. 7 /\ j = 8 * (j \div 8) + (j % 8) /\ j \in Nat
      BY <1>0, ByteAndPlace
    <3>2. CASE j \div 8 # c
      <4>1. obj'[j \div 8] = obj[j \div 8]
        BY <1>1, <2>1, <3>1, <3>2
      <4>2. Con!Bit(obj', j) <=> Con!Bit(obj, j)
        BY <4>1, BitDigit
      <4>3. j \in held' <=> j \in held
        BY <2>1, <2>3, <3>2
      <4> QED BY <1>1, <4>2, <4>3
    <3>3. CASE j \div 8 = c
      <4> DEFINE x == j % 8
      <4>1. obj'[j \div 8] = number
        BY <1>1, <2>1, <3>3
      <4>2. j = Con!Index(c, x)
        BY <3>1, <3>3 DEF Con!Index
      <4>3. x \in 0 .. 7 /\ x % 8 = x
        BY <3>1
      <4>4. Con!temp(x) = Con!temp(j)
        BY <3>1, <4>3 DEF Con!temp
      <4>5. Con!Bit(obj', j) <=> Con!HasBit(number, x)
        BY <4>1, <4>4 DEF Con!Bit, Con!HasBit
      <4> HIDE DEF x
      <4>6. \A b \in 0 .. 7 : Con!Index(c, b) = Con!Index(c, x) => b = x
        BY <1>2, <4>3
      <4>7. j \in New <=> Con!HasBit(number, x)
        BY <4>2, <4>3, <4>6
      <4>8. j \in held' <=> j \in New
        BY <2>1, <3>3
      <4> QED BY <4>5, <4>7, <4>8
    <3> QED BY <3>2, <3>3
  <2> QED BY <1>1, <2>1, <2>2, <2>4, <2>5 DEF BitsInv
<1>6. ASSUME NEW c \in 0 .. charSize - 1, NEW x \in {1} PROVE Con!Index(c, x) \in All
  BY <1>2
<1> QED BY <1>0, <1>3, <1>5, <1>6, <1>7 DEF Con!BitsNext

\* It implies the property of the bit map.
LEMMA BitsIsSound == BitsInv => Con!BitsSound
BY DEF BitsInv, Con!BitsSound

-----------------------------------------------------------------------------
(* The median of a stream. *)

\* A push puts the number there.
LEMMA PushInserts ==
    ASSUME NEW s \in Seq(Int), NEW x \in Int, NEW k, Comes(s, x, k)
    PROVE  Inserted(s, x, k, Con!Push(s, x))
<1> DEFINE n == Len(s)
           r == [i \in 1 .. n + 1 |-> IF i <= k THEN s[i] ELSE IF i = k + 1 THEN x ELSE s[i - 1]]
           C == CHOOSE l \in 0 .. n : (\A i \in 1 .. l : s[i] <= x) /\ \A i \in l + 1 .. n : x < s[i]
<1>1. n \in Nat /\ k \in 0 .. n /\ \A i \in 1 .. n : s[i] \in Int
  BY DEF Comes
<1>2. C = k
  <2>1. k \in 0 .. n /\ (\A i \in 1 .. k : s[i] <= x) /\ \A i \in k + 1 .. n : x < s[i]
    BY DEF Comes
  <2>2. C \in 0 .. n /\ (\A i \in 1 .. C : s[i] <= x) /\ \A i \in C + 1 .. n : x < s[i]
    BY <2>1
  <2> HIDE DEF C
  <2>3. Comes(s, x, C)
    BY <2>2 DEF Comes
  <2> QED BY <2>3, ComesOnce
<1>3. Con!Push(s, x) = r
  BY <1>2 DEF Con!Push
<1>4. \A i \in 1 .. n + 1 : r[i] \in Int
  BY <1>1
<1>5. r \in Seq(Int) /\ Len(r) = n + 1
  <2>1. r \in [1 .. n + 1 -> Int]
    BY <1>4
  <2> HIDE DEF r
  <2> QED BY ONLY <1>1, <2>1
<1>6. \A i \in 1 .. k : r[i] = s[i]
  BY <1>1
<1>7. r[k + 1] = x
  BY <1>1
<1>8. \A i \in k + 1 .. n : r[i + 1] = s[i]
  BY <1>1
<1> HIDE DEF r
<1> QED BY <1>3, <1>5, <1>6, <1>7, <1>8 DEF Inserted

\* Front and tail of a sequence of numbers that is not empty.
LEMMA FrontAndTail ==
    ASSUME NEW r \in Seq(Int), NEW n \in Nat, Len(r) = n + 1
    PROVE  /\ Con!Front(r) \in Seq(Int) /\ Len(Con!Front(r)) = n
           /\ \A i \in 1 .. n : Con!Front(r)[i] = r[i]
           /\ Tail(r) \in Seq(Int) /\ Len(Tail(r)) = n
           /\ \A i \in 1 .. n : Tail(r)[i] = r[i + 1]
           /\ Con!Last(r) = r[n + 1] /\ Head(r) = r[1]
           /\ \A i \in 1 .. n + 1 : r[i] \in Int
<1>1. r # <<>> /\ n + 1 - 1 = n /\ Len(r) - 1 = n
  BY EmptySeq
<1>2. /\ Tail(r) \in Seq(Int) /\ Len(Tail(r)) = n /\ \A i \in 1 .. n : Tail(r)[i] = r[i + 1]
      /\ Head(r) = r[1]
  BY <1>1, HeadTailProperties
<1>3. n \in 0 .. Len(r)
  OBVIOUS
<1>4. /\ SubSeq(r, 1, n) \in Seq(Int) /\ Len(SubSeq(r, 1, n)) = n
      /\ \A i \in 1 .. n : SubSeq(r, 1, n)[i] = r[i]
  BY ONLY <1>3, CutInTwo, r \in Seq(Int)
<1>5. Con!Front(r) = SubSeq(r, 1, n) /\ Con!Last(r) = r[n + 1]
  BY <1>1 DEF Con!Front, Con!Last
<1>6. \A i \in 1 .. n + 1 : r[i] \in Int
  OBVIOUS
<1> QED BY <1>2, <1>4, <1>5, <1>6

\* Inserted, with the length of the sequence named.
Put(s, n, x, k, r) ==
    /\ k \in 0 .. n /\ r \in Seq(Int) /\ Len(r) = n + 1
    /\ \A i \in 1 .. k : r[i] = s[i]
    /\ r[k + 1] = x
    /\ \A i \in k + 1 .. n : r[i + 1] = s[i]
    /\ Sorted(s) => Sorted(r)

\* What a push returns, by the place.
LEMMA InsertedAt ==
    ASSUME NEW s \in Seq(Int), NEW n, Len(s) = n, NEW x \in Int, NEW k, Comes(s, x, k),
           NEW r, r = Con!Push(s, x)
    PROVE  Put(s, n, x, k, r)
<1>1. Inserted(s, x, k, r)
  BY PushInserts
<1>2. Sorted(s) => Sorted(r)
  BY <1>1, InsertedSorted
<1>3. k \in 0 .. n /\ \A i \in 1 .. n : s[i] \in Int
  BY DEF Comes
<1> QED BY <1>1, <1>2, <1>3 DEF Inserted, Put

\* A number added to halves of one size goes through the lower half into the upper one.
LEMMA EvenStep ==
    ASSUME NEW A, NEW B, NEW s, Parts(A, B, s), Sorted(s), Len(B) = Len(A), NEW x \in Int
    PROVE  LET m == Con!Push(A, x)
           IN  /\ Parts(Con!Front(m), Con!Push(B, Con!Last(m)), Con!Push(s, x))
               /\ Len(Con!Push(B, Con!Last(m))) = Len(Con!Front(m)) + 1
               /\ Sorted(Con!Push(s, x))
<1>1. PICK k : Comes(s, x, k)
  BY ComesSomewhere DEF Parts
<1>2. PICK a \in Nat : a = Len(A) /\ a = Len(B)
  BY DEF Parts
<1>3. /\ A \in Seq(Int) /\ B \in Seq(Int) /\ s \in Seq(Int) /\ Len(s) = a + a
      /\ \A i \in 1 .. a : A[i] = s[i]
      /\ \A i \in 1 .. a : B[i] = s[a + i]
      /\ \A i \in 1 .. a : A[i] \in Int
  BY <1>2 DEF Parts
<1>4. Sorted(A) /\ Sorted(B) /\ \A i, j \in 1 .. a : A[i] <= B[j]
  BY <1>2, PartsSorted
<1>5. /\ Comes(A, x, IF k <= a THEN k ELSE a)
      /\ Comes(B, x, IF k <= a THEN 0 ELSE k - a)
  BY <1>1, <1>2, ComesInParts
<1>6. PICK S : S = Con!Push(s, x)
  OBVIOUS
<1>7. /\ k \in 0 .. a + a /\ S \in Seq(Int) /\ Len(S) = a + a + 1
      /\ \A i \in 1 .. k : S[i] = s[i]
      /\ S[k + 1] = x
      /\ \A i \in k + 1 .. a + a : S[i + 1] = s[i]
      /\ Sorted(S)
  <2>1. a + a \in Nat
    OBVIOUS
  <2>p. Put(s, a + a, x, k, S)
    BY <1>1, <1>3, <1>6, <2>1, InsertedAt
  <2> QED BY <2>p, <2>1, <1>3 DEF Put
<1>8. PICK m : m = Con!Push(A, x)
  OBVIOUS
<1>9. m \in Seq(Int) /\ Len(m) = a + 1
  <2>p. Put(A, a, x, (IF k <= a THEN k ELSE a), m)
    BY <1>2, <1>3, <1>5, <1>8, InsertedAt
  <2> QED BY <2>p, <1>3 DEF Put
<1>10. PICK F, l : F = Con!Front(m) /\ l = Con!Last(m)
  OBVIOUS
<1>11. /\ F \in Seq(Int) /\ Len(F) = a /\ \A i \in 1 .. a : F[i] = m[i]
       /\ l = m[a + 1] /\ l \in Int
  <2>1. a + 1 \in 1 .. a + 1
    OBVIOUS
  <2>2. /\ Con!Front(m) \in Seq(Int) /\ Len(Con!Front(m)) = a
        /\ \A i \in 1 .. a : Con!Front(m)[i] = m[i]
        /\ Con!Last(m) = m[a + 1] /\ \A i \in 1 .. a + 1 : m[i] \in Int
    BY ONLY <1>9, a \in Nat, FrontAndTail
  <2> QED BY ONLY <1>10, <2>1, <2>2
<1>12. PICK R : R = Con!Push(B, l)
  OBVIOUS
<1>13. PICK kb : Comes(B, l, kb)
  BY <1>3, <1>4, <1>11, ComesSomewhere
<1>14. R \in Seq(Int) /\ Len(R) = a + 1
  <2>p. Put(B, a, l, kb, R)
    BY <1>2, <1>3, <1>11, <1>12, <1>13, InsertedAt
  <2> QED BY <2>p, <1>3 DEF Put
<1>15. (\A i \in 1 .. a : F[i] = S[i]) /\ \A i \in 1 .. a + 1 : R[i] = S[a + i]
  <2>1. CASE k < a
    <3>1. Comes(A, x, k) /\ k \in 0 .. a
      BY <1>5, <1>7, <2>1
    <3>2. /\ \A i \in 1 .. k : m[i] = A[i]
          /\ m[k + 1] = x
          /\ \A i \in k + 1 .. a : m[i + 1] = A[i]
      <4>p. Put(A, a, x, k, m)
        BY <1>2, <1>3, <1>8, <3>1, InsertedAt
      <4> QED BY <4>p, <1>3 DEF Put
    <3>3. a \in k + 1 .. a /\ a \in 1 .. a /\ l = A[a]
      BY <1>11, <2>1, <3>1, <3>2
    <3>4. \A i \in 1 .. Len(B) : l <= B[i]
      BY <1>2, <1>4, <3>3
    <3>5. Inserted(B, l, kb, R)
      BY <1>3, <1>11, <1>12, <1>13, PushInserts
    <3>6. R[1] = l /\ \A i \in 1 .. a : R[i + 1] = B[i]
      <4>1. B \in Seq(Int) /\ l \in Int
        BY <1>3, <1>11
      <4>2. R[1] = l /\ \A i \in 1 .. Len(B) : R[i + 1] = B[i]
        BY ONLY <1>13, <3>4, <3>5, <4>1, InsertedFirst
      <4> QED BY ONLY <1>2, <4>2
    <3>7. ASSUME NEW i \in 1 .. a PROVE F[i] = S[i]
      <4>1. CASE i <= k
        <5>1. i \in 1 .. k
          BY <3>1, <4>1
        <5>2. F[i] = m[i] /\ m[i] = A[i]
          BY ONLY <1>11, <3>2, <5>1, i \in 1 .. a
        <5>3. A[i] = s[i] /\ S[i] = s[i]
          BY ONLY <1>3, <1>7, <5>1, i \in 1 .. a
        <5> QED BY ONLY <5>2, <5>3
      <4>2. CASE i = k + 1
        BY <1>7, <1>11, <3>2, <4>2
      <4>3. CASE i > k + 1
        <5>1. PICK j \in k + 1 .. a : j + 1 = i
          BY <3>1, <4>3
        <5>2. j \in 1 .. a /\ j \in k + 1 .. a + a
          BY <3>1
        <5>3. m[j + 1] = s[j] /\ S[j + 1] = s[j]
          BY <1>3, <1>7, <3>2, <5>2
        <5> QED BY <1>11, <5>1, <5>3
      <4> QED BY <3>1, <4>1, <4>2, <4>3
    <3>8. R[1] = S[a + 1]
      <4>1. a \in k + 1 .. a + a
        BY <3>1, <3>3
      <4> QED BY <1>3, <1>7, <3>3, <3>6, <4>1
    <3>9. ASSUME NEW i \in 1 .. a PROVE R[i + 1] = S[a + (i + 1)]
      <4>1. a + i \in k + 1 .. a + a /\ (a + i) + 1 = a + (i + 1)
        BY <3>1, <2>1
      <4>2. S[(a + i) + 1] = s[a + i]
        BY <1>7, <4>1
      <4> QED BY <1>3, <3>6, <4>1, <4>2
    <3>10. ASSUME NEW i \in 1 .. a + 1 PROVE R[i] = S[a + i]
      <4>1. CASE i = 1
        BY <3>8, <4>1
      <4>2. CASE i # 1
        <5>1. PICK j \in 1 .. a : i = j + 1
          BY <4>2
        <5> QED BY <3>9, <5>1
      <4> QED BY <4>1, <4>2
    <3> QED BY <3>7, <3>10
  <2>2. CASE ~ (k < a)
    <3>1. PICK d \in 0 .. a : k = a + d
      BY <1>7, <2>2
    <3>2. Comes(A, x, a) /\ Comes(B, x, d)
      <4>1. CASE d = 0
        BY <1>5, <3>1, <4>1
      <4>2. CASE d # 0
        <5>1. ~ (k <= a) /\ k - a = d
          BY <3>1, <4>2
        <5> QED BY <1>5, <5>1
      <4> QED BY <4>1, <4>2
    <3>3. m[a + 1] = x /\ \A i \in 1 .. a : m[i] = A[i]
      <4>p. Put(A, a, x, a, m)
        BY <1>2, <1>3, <1>8, <3>2, InsertedAt
      <4> QED BY <4>p, <1>3 DEF Put
    <3>4. l = x
      BY <1>11, <3>3
    <3>5. /\ \A i \in 1 .. d : R[i] = B[i]
          /\ R[d + 1] = x
          /\ \A i \in d + 1 .. a : R[i + 1] = B[i]
      <4>p. Put(B, a, x, d, R)
        BY <1>2, <1>3, <1>12, <3>2, <3>4, InsertedAt
      <4> QED BY <4>p, <1>3 DEF Put
    <3>6. ASSUME NEW i \in 1 .. a PROVE F[i] = S[i]
      <4>1. i \in 1 .. k
        BY <3>1
      <4>2. F[i] = m[i] /\ m[i] = A[i]
        BY ONLY <1>11, <3>3, i \in 1 .. a
      <4>3. A[i] = s[i] /\ S[i] = s[i]
        BY ONLY <1>3, <1>7, <4>1, i \in 1 .. a
      <4> QED BY ONLY <4>2, <4>3
    <3>7. ASSUME NEW i \in 1 .. a + 1 PROVE R[i] = S[a + i]
      <4>1. CASE i <= d
        <5>1. i \in 1 .. d /\ a + i \in 1 .. k /\ i \in 1 .. a
          BY <3>1, <4>1
        <5> QED BY <1>3, <1>7, <3>5, <5>1
      <4>2. CASE i = d + 1
        <5>1. a + i = k + 1
          BY <3>1, <4>2
        <5> QED BY <1>7, <3>5, <4>2, <5>1
      <4>3. CASE i > d + 1
        <5>1. PICK j \in d + 1 .. a : i = j + 1
          BY <3>1, <4>3
        <5>2. j \in 1 .. a /\ a + j \in k + 1 .. a + a /\ (a + j) + 1 = a + i
          BY <3>1, <5>1
        <5>3. S[(a + j) + 1] = s[a + j]
          BY <1>7, <5>2
        <5> QED BY <1>3, <3>5, <5>1, <5>2, <5>3
      <4> QED BY <3>1, <4>1, <4>2, <4>3
    <3> QED BY <3>6, <3>7
  <2> QED BY <2>1, <2>2
<1>16. Parts(F, R, S)
  <2>1. Len(S) = Len(F) + Len(R)
    BY <1>7, <1>11, <1>14
  <2> QED BY <1>7, <1>11, <1>14, <1>15, <2>1 DEF Parts
<1> QED BY <1>6, <1>7, <1>8, <1>10, <1>11, <1>12, <1>14, <1>16

\* A number added when the upper half is longer goes through the upper half into the lower.
LEMMA OddStep ==
    ASSUME NEW A, NEW B, NEW s, Parts(A, B, s), Sorted(s), Len(B) = Len(A) + 1, NEW x \in Int
    PROVE  LET m == Con!Push(B, x)
           IN  /\ Parts(Con!Push(A, Head(m)), Tail(m), Con!Push(s, x))
               /\ Len(Tail(m)) = Len(Con!Push(A, Head(m)))
               /\ Sorted(Con!Push(s, x))
<1>1. PICK k : Comes(s, x, k)
  BY ComesSomewhere DEF Parts
<1>2. PICK a \in Nat : a = Len(A) /\ a + 1 = Len(B)
  BY DEF Parts
<1>b. PICK b \in Nat : b = a + 1
  OBVIOUS
<1>3. /\ A \in Seq(Int) /\ B \in Seq(Int) /\ s \in Seq(Int) /\ Len(s) = a + b
      /\ \A i \in 1 .. a : A[i] = s[i]
      /\ \A i \in 1 .. b : B[i] = s[a + i]
      /\ \A i \in 1 .. a : A[i] \in Int
      /\ \A i \in 1 .. b : B[i] \in Int
  BY <1>2, <1>b DEF Parts
<1>4. Sorted(A) /\ Sorted(B) /\ \A i \in 1 .. a, j \in 1 .. b : A[i] <= B[j]
  BY <1>2, <1>b, PartsSorted
<1>5. /\ Comes(A, x, IF k <= a THEN k ELSE a)
      /\ Comes(B, x, IF k <= a THEN 0 ELSE k - a)
  BY <1>1, <1>2, ComesInParts
<1>6. PICK S : S = Con!Push(s, x)
  OBVIOUS
<1>7. /\ k \in 0 .. a + b /\ S \in Seq(Int) /\ Len(S) = a + b + 1
      /\ \A i \in 1 .. k : S[i] = s[i]
      /\ S[k + 1] = x
      /\ \A i \in k + 1 .. a + b : S[i + 1] = s[i]
      /\ Sorted(S)
  <2>1. a + b \in Nat
    OBVIOUS
  <2>p. Put(s, a + b, x, k, S)
    BY <1>1, <1>3, <1>6, <2>1, InsertedAt
  <2> QED BY <2>p, <2>1, <1>3 DEF Put
<1>8. PICK m : m = Con!Push(B, x)
  OBVIOUS
<1>9. m \in Seq(Int) /\ Len(m) = b + 1
  <2>p. Put(B, b, x, (IF k <= a THEN 0 ELSE k - a), m)
    BY <1>2, <1>b, <1>3, <1>5, <1>8, InsertedAt
  <2> QED BY <2>p, <1>3 DEF Put
<1>10. PICK R, l : R = Tail(m) /\ l = Head(m)
  OBVIOUS
<1>11. /\ R \in Seq(Int) /\ Len(R) = b /\ \A i \in 1 .. b : R[i] = m[i + 1]
       /\ l = m[1] /\ l \in Int
  <2>1. 1 \in 1 .. b + 1
    OBVIOUS
  <2> QED BY <1>9, <1>10, <2>1, FrontAndTail
<1>12. PICK F : F = Con!Push(A, l)
  OBVIOUS
<1>13. PICK ka : Comes(A, l, ka)
  BY <1>3, <1>4, <1>11, ComesSomewhere
<1>14. F \in Seq(Int) /\ Len(F) = a + 1
  <2>p. Put(A, a, l, ka, F)
    BY <1>2, <1>3, <1>11, <1>12, <1>13, InsertedAt
  <2> QED BY <2>p, <1>3 DEF Put
<1>15. (\A i \in 1 .. a + 1 : F[i] = S[i]) /\ \A i \in 1 .. b : R[i] = S[(a + 1) + i]
  <2>1. CASE k <= a
    <3>1. Comes(A, x, k) /\ Comes(B, x, 0) /\ k \in 0 .. a
      BY <1>5, <1>7, <2>1
    <3>2. m[1] = x /\ \A i \in 1 .. b : m[i + 1] = B[i]
      <4>1. m[0 + 1] = x /\ \A i \in 0 + 1 .. b : m[i + 1] = B[i]
        <5>p. Put(B, b, x, 0, m)
          BY <1>2, <1>b, <1>3, <1>8, <3>1, InsertedAt
        <5> QED BY <5>p, <1>3 DEF Put
      <4> QED BY <4>1
    <3>3. l = x
      BY <1>11, <3>2
    <3>4. /\ \A i \in 1 .. k : F[i] = A[i]
          /\ F[k + 1] = x
          /\ \A i \in k + 1 .. a : F[i + 1] = A[i]
      <4>p. Put(A, a, x, k, F)
        BY <1>2, <1>3, <1>12, <3>1, <3>3, InsertedAt
      <4> QED BY <4>p, <1>3 DEF Put
    <3>5. ASSUME NEW i \in 1 .. a + 1 PROVE F[i] = S[i]
      <4>1. CASE i <= k
        <5>1. i \in 1 .. k /\ i \in 1 .. a
          BY <3>1, <4>1
        <5> QED BY <1>3, <1>7, <3>4, <5>1
      <4>2. CASE i = k + 1
        BY <1>7, <3>4, <4>2
      <4>3. CASE i > k + 1
        <5>1. PICK j \in k + 1 .. a : i = j + 1
          BY <3>1, <4>3
        <5>2. j \in 1 .. a /\ j \in k + 1 .. a + b
          BY <3>1
        <5> QED BY <1>3, <1>7, <3>4, <5>1, <5>2
      <4> QED BY <3>1, <4>1, <4>2, <4>3
    <3>6. ASSUME NEW i \in 1 .. b PROVE R[i] = S[(a + 1) + i]
      <4>1. a + i \in k + 1 .. a + b /\ (a + i) + 1 = (a + 1) + i
        BY <3>1
      <4>2. S[(a + i) + 1] = s[a + i]
        BY <1>7, <4>1
      <4> QED BY <1>3, <1>11, <3>2, <4>1, <4>2
    <3> QED BY <3>5, <3>6
  <2>2. CASE ~ (k <= a)
    <3>1. PICK d \in 1 .. b : k = a + d
      BY <1>7, <2>2
    <3>2. Comes(B, x, d)
      <4>1. k - a = d
        BY <3>1
      <4> QED BY <1>5, <2>2, <4>1
    <3>3. /\ \A i \in 1 .. d : m[i] = B[i]
          /\ m[d + 1] = x
          /\ \A i \in d + 1 .. b : m[i + 1] = B[i]
      <4>p. Put(B, b, x, d, m)
        BY <1>2, <1>b, <1>3, <1>8, <3>2, InsertedAt
      <4> QED BY <4>p, <1>3 DEF Put
    <3>4. 1 \in 1 .. d /\ 1 \in 1 .. b /\ l = B[1]
      BY <1>11, <3>1, <3>3
    <3>5. Comes(A, l, a)
      <4>1. a \in 0 .. a /\ \A i \in a + 1 .. a : FALSE
        OBVIOUS
      <4>2. \A i \in 1 .. a : A[i] <= l
        BY <1>4, <3>4
      <4> QED BY <1>2, <4>1, <4>2 DEF Comes
    <3>6. F[a + 1] = l /\ \A i \in 1 .. a : F[i] = A[i]
      <4>p. Put(A, a, l, a, F)
        BY <1>2, <1>3, <1>11, <1>12, <3>5, InsertedAt
      <4> QED BY <4>p, <1>3 DEF Put
    <3>7. ASSUME NEW i \in 1 .. a + 1 PROVE F[i] = S[i]
      <4>1. CASE i <= a
        <5>1. i \in 1 .. k /\ i \in 1 .. a
          BY <3>1, <4>1
        <5> QED BY <1>3, <1>7, <3>6, <5>1
      <4>2. CASE i = a + 1
        <5>1. a + 1 \in 1 .. k
          BY <3>1
        <5> QED BY <1>3, <1>7, <3>4, <3>6, <4>2, <5>1
      <4> QED BY <4>1, <4>2
    <3>8. ASSUME NEW i \in 1 .. b PROVE R[i] = S[(a + 1) + i]
      <4>1. CASE i < d
        <5>1. i + 1 \in 1 .. d /\ i + 1 \in 1 .. b /\ a + (i + 1) \in 1 .. k /\ a + (i + 1) = (a + 1) + i
          BY <3>1, <4>1
        <5>2. m[i + 1] = s[a + (i + 1)]
          BY <1>3, <3>3, <5>1
        <5> QED BY <1>7, <1>11, <5>1, <5>2
      <4>2. CASE i = d
        <5>1. (a + 1) + i = k + 1
          BY <3>1, <4>2
        <5> QED BY <1>7, <1>11, <3>3, <4>2, <5>1
      <4>3. CASE i > d
        <5>1. i \in d + 1 .. b /\ a + i \in k + 1 .. a + b /\ (a + i) + 1 = (a + 1) + i
          BY <3>1, <4>3
        <5>2. S[(a + i) + 1] = s[a + i]
          BY <1>7, <5>1
        <5> QED BY <1>3, <1>11, <3>3, <5>1, <5>2
      <4> QED BY <3>1, <4>1, <4>2, <4>3
    <3> QED BY <3>7, <3>8
  <2> QED BY <1>7, <2>1, <2>2
<1>16. Parts(F, R, S)
  <2>1. Len(S) = Len(F) + Len(R)
    BY <1>7, <1>11, <1>14
  <2> QED BY <1>7, <1>11, <1>14, <1>15, <2>1 DEF Parts
<1> QED BY <1>b, <1>6, <1>7, <1>8, <1>10, <1>11, <1>12, <1>14, <1>16

\* The heaps are the lower and the upper half of the sorted stream, the upper one is the
\* longer by at most one.
MedianInv ==
    /\ obj = [maxHeap |-> obj.maxHeap, minHeap |-> obj.minHeap]
    /\ Parts(obj.maxHeap, obj.minHeap, held)
    /\ Sorted(held)
    /\ Len(obj.minHeap) = Len(obj.maxHeap) \/ Len(obj.minHeap) = Len(obj.maxHeap) + 1
    /\ ret[1] = ret[2]

\* The first states of the median have the invariant.
LEMMA MedianInits == Con!MedianInit => MedianInv
<1> SUFFICES ASSUME Con!MedianInit PROVE MedianInv
  OBVIOUS
<1>1. obj.maxHeap = <<>> /\ obj.minHeap = <<>> /\ held = <<>> /\ ret = <<0, 0>>
      /\ obj = [maxHeap |-> <<>>, minHeap |-> <<>>]
  BY DEF Con!MedianInit
<1>2. <<>> \in Seq(Int) /\ Len(<<>>) = 0 /\ \A i \in 1 .. 0 : FALSE
  OBVIOUS
<1>3. Parts(obj.maxHeap, obj.minHeap, held)
  BY <1>1, <1>2 DEF Parts
<1>4. Sorted(held)
  BY <1>1, <1>2 DEF Sorted
<1> QED BY <1>1, <1>2, <1>3, <1>4 DEF MedianInv

\* The number of elements tells the two cases apart.
LEMMA Halves ==
    ASSUME NEW a \in Nat
    PROVE  /\ (a + a) % 2 = 0 /\ (a + (a + 1)) % 2 # 0
           /\ (a + a + 1) \div 2 = a /\ (a + a + 2) \div 2 = a + 1
           /\ (a + (a + 1) + 1) \div 2 = a + 1 /\ (a + (a + 1) + 2) \div 2 = a + 1
OBVIOUS

\* The calls of the median keep it.
LEMMA MedianSteps == MedianInv /\ MedianNums \subseteq Int /\ Con!MedianNext => MedianInv'
<1> SUFFICES ASSUME MedianInv, MedianNums \subseteq Int, Con!MedianNext PROVE MedianInv'
  OBVIOUS
<1>1. PICK A, B, s : A = obj.maxHeap /\ B = obj.minHeap /\ s = held
  OBVIOUS
<1>2. /\ obj = [maxHeap |-> A, minHeap |-> B] /\ Parts(A, B, s) /\ Sorted(s)
      /\ Len(B) = Len(A) \/ Len(B) = Len(A) + 1
      /\ ret[1] = ret[2]
  BY <1>1 DEF MedianInv
<1>3. /\ Len(A) \in Nat /\ Len(s) = Len(A) + Len(B) /\ A \in Seq(Int) /\ B \in Seq(Int) /\ s \in Seq(Int)
      /\ \A i \in 1 .. Len(A) : A[i] = s[i] /\ A[i] \in Int
      /\ \A i \in 1 .. Len(B) : B[i] = s[Len(A) + i] /\ B[i] \in Int
  BY <1>2 DEF Parts
<1>4. ASSUME NEW num \in MedianNums, Con!addNum(num) PROVE MedianInv'
  <2>1. num \in Int
    OBVIOUS
  <2>2. CASE Len(B) = Len(A)
    <3>1. Con!count % 2 = 0
      <4>1. PICK a \in Nat : a = Len(A)
        BY <1>3
      <4>2. Con!count = a + a
        BY <1>1, <1>3, <2>2, <4>1 DEF Con!count
      <4> QED BY ONLY <4>2, a \in Nat, Halves
    <3>2. PICK F, R, S : /\ F = Con!Front(Con!Push(A, num))
                         /\ R = Con!Push(B, Con!Last(Con!Push(A, num)))
                         /\ S = Con!Push(s, num)
      OBVIOUS
    <3>3. Parts(F, R, S) /\ Len(R) = Len(F) + 1 /\ Sorted(S)
      BY <1>2, <2>1, <2>2, <3>2, EvenStep
    <3>4. obj' = [maxHeap |-> F, minHeap |-> R] /\ held' = S /\ ret' = ret
      BY <1>1, <1>4, <3>1, <3>2 DEF Con!addNum
    <3>5. obj'.maxHeap = F /\ obj'.minHeap = R
      BY <3>4
    <3> QED BY <1>2, <3>3, <3>4, <3>5 DEF MedianInv
  <2>3. CASE Len(B) = Len(A) + 1
    <3>1. Con!count % 2 # 0
      <4>1. PICK a \in Nat : a = Len(A)
        BY <1>3
      <4>2. Con!count = a + (a + 1)
        BY <1>1, <1>3, <2>3, <4>1 DEF Con!count
      <4> QED BY ONLY <4>2, a \in Nat, Halves
    <3>2. PICK F, R, S : /\ R = Tail(Con!Push(B, num))
                         /\ F = Con!Push(A, Head(Con!Push(B, num)))
                         /\ S = Con!Push(s, num)
      OBVIOUS
    <3>3. Parts(F, R, S) /\ Len(R) = Len(F) /\ Sorted(S)
      BY <1>2, <2>1, <2>3, <3>2, OddStep
    <3>4. obj' = [minHeap |-> R, maxHeap |-> F] /\ held' = S /\ ret' = ret
      BY <1>1, <1>4, <3>1, <3>2 DEF Con!addNum
    <3>5. obj'.maxHeap = F /\ obj'.minHeap = R
      BY <3>4
    <3> QED BY <1>2, <3>3, <3>4, <3>5 DEF MedianInv
  <2> QED BY <1>2, <2>2, <2>3
<1>5. ASSUME Con!findMedian PROVE MedianInv'
  <2>1. obj' = obj /\ held' = held /\ Con!count > 0
    BY <1>5 DEF Con!findMedian
  <2>2. ret'[1] = ret'[2]
    <3>1. CASE Len(B) = Len(A)
      <4>1. PICK a \in Nat : a = Len(A)
        BY <1>3
      <4>2. Con!count = a + a /\ a \in 1 .. a /\ 1 \in 1 .. a
        BY <1>1, <1>3, <2>1, <3>1, <4>1 DEF Con!count
      <4>3. ret' = <<Con!Last(A) + Head(B), s[a] + s[a + 1]>>
        BY <1>1, <1>5, <4>2, Halves DEF Con!findMedian
      <4>4. Con!Last(A) = s[a] /\ Head(B) = s[a + 1]
        <5>1. Con!Last(A) = A[a] /\ Head(B) = B[1]
          BY <4>1 DEF Con!Last
        <5> QED BY <1>3, <3>1, <4>1, <4>2, <5>1
      <4> QED BY <4>3, <4>4
    <3>2. CASE Len(B) = Len(A) + 1
      <4>1. PICK a \in Nat : a = Len(A)
        BY <1>3
      <4>2. Con!count = a + (a + 1) /\ 1 \in 1 .. a + 1
        BY <1>1, <1>3, <3>2, <4>1 DEF Con!count
      <4>3. ret' = <<2 * Head(B), s[a + 1] + s[a + 1]>>
        BY <1>1, <1>5, <4>2, Halves DEF Con!findMedian
      <4>4. Head(B) = s[a + 1] /\ Head(B) \in Int
        <5>1. Head(B) = B[1]
          OBVIOUS
        <5> QED BY <1>3, <3>2, <4>1, <4>2, <5>1
      <4> QED BY <4>3, <4>4
    <3> QED BY <1>2, <3>1, <3>2
  <2> QED BY <2>1, <2>2 DEF MedianInv
<1> QED BY <1>4, <1>5 DEF Con!MedianNext

\* It implies the property of the median.
LEMMA MedianIsSound == MedianInv => Con!MedianSound
<1> SUFFICES ASSUME MedianInv PROVE Con!MedianSound
  OBVIOUS
<1>1. PICK A, B, s : A = obj.maxHeap /\ B = obj.minHeap /\ s = held
  OBVIOUS
<1>2. Parts(A, B, s) /\ ret[1] = ret[2]
  BY <1>1 DEF MedianInv
<1>3. PICK a, b \in Nat : a = Len(A) /\ b = Len(B)
  BY <1>2 DEF Parts
<1>4. /\ A \in Seq(Int) /\ B \in Seq(Int) /\ s \in Seq(Int) /\ Len(s) = a + b
      /\ \A i \in 1 .. a : A[i] = s[i]
      /\ \A i \in 1 .. b : B[i] = s[a + i]
  BY <1>2, <1>3 DEF Parts
<1>5. /\ A \o B \in Seq(Int) /\ Len(A \o B) = a + b
      /\ \A i \in 1 .. a + b : (A \o B)[i] = IF i <= a THEN A[i] ELSE B[i - a]
  BY ONLY <1>3, <1>4, ConcatProperties
<1>6. ASSUME NEW i \in 1 .. a + b PROVE (A \o B)[i] = s[i]
  <2>1. CASE i <= a
    <3>1. i \in 1 .. a
      BY <2>1
    <3> QED BY <1>4, <1>5, <2>1, <3>1
  <2>2. CASE ~ (i <= a)
    <3>1. i - a \in 1 .. b /\ a + (i - a) = i
      BY <2>2
    <3> QED BY <1>4, <1>5, <2>2, <3>1
  <2> QED BY <2>1, <2>2
<1>7. A \o B = s
  BY ONLY <1>4, <1>5, <1>6, SeqEqual
<1> QED BY <1>1, <1>2, <1>7 DEF Con!MedianSound

-----------------------------------------------------------------------------
(* The LRU cache. *)

\* A sequence without its i-th element.
LEMMA CutOut ==
    ASSUME NEW S, NEW s \in Seq(S), NEW i \in 1 .. Len(s)
    PROVE  /\ Con!RemoveAt(s, i) \in Seq(S) /\ Len(Con!RemoveAt(s, i)) = Len(s) - 1
           /\ \A j \in 1 .. Len(s) - 1 : Con!RemoveAt(s, i)[j] = IF j < i THEN s[j] ELSE s[j + 1]
<1>1. PICK n \in Nat : n = Len(s) /\ i \in 1 .. n
  OBVIOUS
<1>2. PICK a, b : a = SubSeq(s, 1, i - 1) /\ b = SubSeq(s, i + 1, n)
  OBVIOUS
<1>3. \A k \in 1 .. n : s[k] \in S
  BY <1>1
<1>4. a \in Seq(S) /\ Len(a) = i - 1 /\ \A k \in 1 .. i - 1 : a[k] = s[k]
  <2>1. i - 1 \in 0 .. Len(s)
    BY <1>1
  <2> QED BY ONLY <1>2, <2>1, CutInTwo, s \in Seq(S)
<1>5. b \in Seq(S) /\ Len(b) = n - i /\ \A k \in 1 .. n - i : b[k] = s[i + k]
  <2>1. i + 1 \in Nat /\ n \in Nat /\ \A k \in i + 1 .. n : s[k] \in S
    BY <1>1, <1>3
  <2>2. /\ SubSeq(s, i + 1, n) \in Seq(S)
        /\ Len(SubSeq(s, i + 1, n)) = IF i + 1 <= n THEN n - (i + 1) + 1 ELSE 0
        /\ \A k \in 1 .. n - (i + 1) + 1 : SubSeq(s, i + 1, n)[k] = s[i + 1 + k - 1]
    BY <2>1, SubSeqProperties
  <2>3. Len(b) = n - i
    BY <1>1, <1>2, <2>2
  <2>4. ASSUME NEW k \in 1 .. n - i PROVE b[k] = s[i + k]
    <3>1. k \in 1 .. n - (i + 1) + 1 /\ i + 1 + k - 1 = i + k
      BY <1>1
    <3> QED BY <1>2, <2>2, <3>1
  <2> QED BY <1>2, <2>2, <2>3, <2>4
<1>6. PICK c : c = a \o b
  OBVIOUS
<1>7. /\ c \in Seq(S) /\ Len(c) = Len(a) + Len(b)
      /\ \A k \in 1 .. Len(a) + Len(b) : c[k] = IF k <= Len(a) THEN a[k] ELSE b[k - Len(a)]
  BY ONLY <1>4, <1>5, <1>6, ConcatProperties
<1>8. Len(c) = n - 1
  BY <1>1, <1>4, <1>5, <1>7
<1>9. ASSUME NEW j \in 1 .. n - 1 PROVE c[j] = IF j < i THEN s[j] ELSE s[j + 1]
  <2>0. j \in 1 .. Len(a) + Len(b)
    BY <1>1, <1>4, <1>5
  <2>1. CASE j < i
    <3>1. j \in 1 .. i - 1 /\ j <= Len(a)
      BY <1>1, <1>4, <2>1
    <3> QED BY <1>4, <1>7, <2>0, <2>1, <3>1
  <2>2. CASE ~ (j < i)
    <3>1. j - (i - 1) \in 1 .. n - i /\ ~ (j <= Len(a)) /\ i + (j - (i - 1)) = j + 1
      BY <1>1, <1>4, <2>2
    <3>2. c[j] = b[j - (i - 1)]
      BY <1>4, <1>7, <2>0, <3>1
    <3> QED BY <1>5, <2>2, <3>1, <3>2
  <2> QED BY <2>1, <2>2
<1>10. Con!RemoveAt(s, i) = c
  BY <1>1, <1>2, <1>6 DEF Con!RemoveAt
<1> QED BY <1>1, <1>7, <1>8, <1>9, <1>10

\* One more element in front.
LEMMA InFront ==
    ASSUME NEW S, NEW s \in Seq(S), NEW x \in S
    PROVE  /\ <<x>> \o s \in Seq(S) /\ Len(<<x>> \o s) = Len(s) + 1
           /\ (<<x>> \o s)[1] = x
           /\ \A j \in 1 .. Len(s) : (<<x>> \o s)[j + 1] = s[j]
<1>1. <<x>> \in Seq(S) /\ Len(<<x>>) = 1 /\ <<x>>[1] = x
  OBVIOUS
<1>2. PICK y : y = <<x>>
  OBVIOUS
<1>3. /\ y \o s \in Seq(S) /\ Len(y \o s) = 1 + Len(s)
      /\ \A k \in 1 .. 1 + Len(s) : (y \o s)[k] = IF k <= 1 THEN y[k] ELSE s[k - 1]
  <2>1. y \in Seq(S) /\ Len(y) = 1
    BY <1>1, <1>2
  <2>2. /\ y \o s \in Seq(S) /\ Len(y \o s) = Len(y) + Len(s)
        /\ \A k \in 1 .. Len(y) + Len(s) : (y \o s)[k] = IF k <= Len(y) THEN y[k] ELSE s[k - Len(y)]
    BY ONLY <2>1, s \in Seq(S), ConcatProperties
  <2> QED BY <2>1, <2>2
<1>4. PICK n \in Nat : n = Len(s)
  OBVIOUS
<1>5. (y \o s)[1] = x
  <2>1. 1 \in 1 .. 1 + n
    OBVIOUS
  <2> QED BY <1>1, <1>2, <1>3, <1>4, <2>1
<1>6. ASSUME NEW j \in 1 .. n PROVE (y \o s)[j + 1] = s[j]
  <2>1. j + 1 \in 1 .. 1 + n /\ ~ (j + 1 <= 1) /\ (j + 1) - 1 = j
    BY <1>4
  <2> QED BY <1>3, <1>4, <2>1
<1> QED BY <1>2, <1>3, <1>4, <1>5, <1>6

\* Different elements have different entries in column f.
Column(s, f) == \A i, j \in 1 .. Len(s) : s[i][f] = s[j][f] => i = j

\* r has the elements of s except the i-th, and none with the i-th's entry in column f.
Without(s, i, f, r) ==
    /\ Column(r, f)
    /\ \A j \in 1 .. Len(r) : r[j][f] # s[i][f]
    /\ \A j \in 1 .. Len(r) : \E l \in 1 .. Len(s) : l # i /\ r[j] = s[l]
    /\ \A l \in 1 .. Len(s) : l # i => \E j \in 1 .. Len(r) : r[j] = s[l]

\* Cutting an element keeps the column distinct and loses no other element.
LEMMA ColumnCut ==
    ASSUME NEW S, NEW s \in Seq(S), NEW i \in 1 .. Len(s), NEW f, Column(s, f),
           NEW r, r = Con!RemoveAt(s, i)
    PROVE  Without(s, i, f, r)
<1>1. PICK n \in Nat : n = Len(s) /\ i \in 1 .. n
  OBVIOUS
<1>2. Len(r) = n - 1 /\ \A j \in 1 .. n - 1 : r[j] = IF j < i THEN s[j] ELSE s[j + 1]
  BY ONLY <1>1, s \in Seq(S), i \in 1 .. Len(s), r = Con!RemoveAt(s, i), CutOut
<1>3. \A a, b \in 1 .. n : s[a][f] = s[b][f] => a = b
  BY <1>1 DEF Column
<1>4. ASSUME NEW j \in 1 .. n - 1
      PROVE  \E l \in 1 .. n : l # i /\ r[j] = s[l] /\ l = IF j < i THEN j ELSE j + 1
  <2>1. CASE j < i
    <3>1. j \in 1 .. n /\ j # i /\ r[j] = s[j]
      BY <1>1, <1>2, <2>1
    <3> QED BY <2>1, <3>1
  <2>2. CASE ~ (j < i)
    <3>1. j + 1 \in 1 .. n /\ j + 1 # i /\ r[j] = s[j + 1]
      BY <1>1, <1>2, <2>2
    <3> QED BY <2>2, <3>1
  <2> QED BY <2>1, <2>2
<1>5. ASSUME NEW l \in 1 .. n, l # i PROVE \E j \in 1 .. n - 1 : r[j] = s[l]
  <2>1. CASE l < i
    <3>1. l \in 1 .. n - 1 /\ r[l] = s[l]
      BY <1>1, <1>2, <2>1
    <3> QED BY <3>1
  <2>2. CASE ~ (l < i)
    <3>1. PICK j \in 1 .. n - 1 : j + 1 = l /\ ~ (j < i)
      BY <1>1, <1>5, <2>2
    <3> QED BY <1>2, <3>1
  <2> QED BY <2>1, <2>2
<1>6. ASSUME NEW j \in 1 .. n - 1, NEW k \in 1 .. n - 1, r[j][f] = r[k][f] PROVE j = k
  <2>1. PICK l \in 1 .. n : l # i /\ r[j] = s[l] /\ l = IF j < i THEN j ELSE j + 1
    BY <1>4
  <2>2. PICK m \in 1 .. n : m # i /\ r[k] = s[m] /\ m = IF k < i THEN k ELSE k + 1
    BY <1>4
  <2>3. l = m
    BY <1>3, <1>6, <2>1, <2>2
  <2> QED BY <1>1, <2>1, <2>2, <2>3
<1>7. ASSUME NEW j \in 1 .. n - 1 PROVE r[j][f] # s[i][f]
  <2>1. PICK l \in 1 .. n : l # i /\ r[j] = s[l]
    BY <1>4
  <2> QED BY <1>1, <1>3, <2>1
<1>8. Column(r, f)
  BY <1>2, <1>6 DEF Column
<1>9. \A j \in 1 .. Len(r) : r[j][f] # s[i][f]
  BY <1>2, <1>7
<1>10. \A j \in 1 .. Len(r) : \E l \in 1 .. Len(s) : l # i /\ r[j] = s[l]
  BY <1>1, <1>2, <1>4
<1>11. \A l \in 1 .. Len(s) : l # i => \E j \in 1 .. Len(r) : r[j] = s[l]
  BY <1>1, <1>2, <1>5
<1> QED BY <1>8, <1>9, <1>10, <1>11 DEF Without

\* A new first element with a new key keeps the column distinct.
LEMMA ColumnInFront ==
    ASSUME NEW S, NEW s \in Seq(S), NEW x \in S, NEW f, Column(s, f),
           \A j \in 1 .. Len(s) : s[j][f] # x[f], NEW r, r = <<x>> \o s
    PROVE  Column(r, f)
<1>1. PICK n \in Nat : n = Len(s)
  OBVIOUS
<1>2. Len(r) = n + 1 /\ r[1] = x /\ \A j \in 1 .. n : r[j + 1] = s[j]
  BY ONLY <1>1, s \in Seq(S), x \in S, r = <<x>> \o s, InFront
<1>3. ASSUME NEW i \in 1 .. n + 1, NEW j \in 1 .. n + 1, r[i][f] = r[j][f] PROVE i = j
  <2>1. CASE i = 1 /\ j = 1
    BY <2>1
  <2>2. CASE i = 1 /\ j # 1
    <3>1. PICK k \in 1 .. n : j = k + 1
      BY <2>2
    <3> QED BY <1>1, <1>2, <1>3, <2>2, <3>1
  <2>3. CASE i # 1 /\ j = 1
    <3>1. PICK k \in 1 .. n : i = k + 1
      BY <2>3
    <3> QED BY <1>1, <1>2, <1>3, <2>3, <3>1
  <2>4. CASE i # 1 /\ j # 1
    <3>1. (\E k \in 1 .. n : i = k + 1) /\ (\E l \in 1 .. n : j = l + 1)
      BY <2>4
    <3>2. PICK k \in 1 .. n : i = k + 1
      BY <3>1
    <3>3. PICK l \in 1 .. n : j = l + 1
      BY <3>1
    <3>4. s[k][f] = s[l][f]
      BY <1>2, <1>3, <3>2, <3>3
    <3>5. k = l
      BY <1>1, <3>4 DEF Column
    <3> QED BY <3>2, <3>3, <3>5
  <2> QED BY <2>1, <2>2, <2>3, <2>4
<1> QED BY <1>2, <1>3 DEF Column

\* A list shorter than the cache leaves an address free.
LEMMA AddressLeft ==
    ASSUME NEW S, NEW s \in Seq(S), NEW N \in Nat, Len(s) < N
    PROVE  \E a \in 1 .. N : a \notin {s[i][1] : i \in 1 .. Len(s)}
<1>1. PICK n \in Nat : n = Len(s) /\ n < N
  OBVIOUS
<1> DEFINE used == {s[i][1] : i \in 1 .. n}
           f == [i \in 1 .. n |-> s[i][1]]
<1>2. f \in Surjection(1 .. n, used)
  BY DEF Surjection
<1>3. IsFiniteSet(1 .. n) /\ Cardinality(1 .. n) = n
  <2>1. IsFiniteSet(1 .. n) /\ Cardinality(1 .. n) = IF 1 > n THEN 0 ELSE n - 1 + 1
    BY ONLY FS_Interval, n \in Nat
  <2> QED BY <2>1
<1> HIDE DEF used, f
<1>4. IsFiniteSet(used) /\ Cardinality(used) <= n
  BY ONLY <1>2, <1>3, FS_Surjection
<1>5. IsFiniteSet(1 .. N) /\ Cardinality(1 .. N) = N
  BY FS_Interval
<1>6. ASSUME 1 .. N \subseteq used PROVE FALSE
  <2>1. N <= Cardinality(used)
    BY <1>4, <1>5, <1>6, FS_Subset
  <2>2. Cardinality(used) \in Nat
    BY <1>4, FS_CardinalityType
  <2> QED BY <1>1, <1>4, <2>1, <2>2
<1> QED BY <1>1, <1>6 DEF used

\* Entries of the recency order, and nodes of the list with their address.
Entry == LruKeys \X LruValues
LruNode == (1 .. LruCap) \X LruKeys \X LruValues

\* The nodes of the list are the first entries of H in order; keys and addresses are distinct.
Mirrors(L, H) ==
    /\ L \in Seq(LruNode) /\ H \in Seq(Entry) /\ Len(L) <= Len(H)
    /\ Column(L, 1) /\ Column(H, 1)
    /\ \A i \in 1 .. Len(L) : L[i][2] = H[i][1] /\ L[i][3] = H[i][2]
\* The map m leads to the nodes of L and nowhere else, except for the keys in but.
Maps(m, L, but) ==
    /\ m \in [LruKeys -> 0 .. LruCap]
    /\ \A i \in 1 .. Len(L) : m[L[i][2]] = L[i][1]
    /\ \A k \in LruKeys : m[k] # 0 => k \in but \/ \E i \in 1 .. Len(L) : L[i][2] = k

\* The list holds the first entries, as many as fit, and the map leads to its nodes.
LruInv ==
    /\ obj = [list |-> obj.list, m |-> obj.m, count |-> obj.count]
    /\ Mirrors(obj.list, held) /\ Maps(obj.m, obj.list, {})
    /\ obj.count = Len(obj.list)
    /\ Len(obj.list) = IF Len(held) < LruCap THEN Len(held) ELSE LruCap
    /\ ret[1] = ret[2]

\* The first states of the cache have the invariant.
LEMMA LruInits == LruCap \in Nat \ {0} /\ Con!LruInit => LruInv
<1> SUFFICES ASSUME LruCap \in Nat \ {0}, Con!LruInit PROVE LruInv
  OBVIOUS
<1>1. /\ obj = [list |-> <<>>, m |-> [k \in LruKeys |-> 0], count |-> 0]
      /\ held = <<>> /\ ret = <<{}, {}>>
  BY DEF Con!LruInit, Con!Null
<1>2. obj.list = <<>> /\ obj.m = [k \in LruKeys |-> 0] /\ obj.count = 0
  BY <1>1
<1>3. <<>> \in Seq(LruNode) /\ <<>> \in Seq(Entry) /\ Len(<<>>) = 0 /\ \A i \in 1 .. 0 : FALSE
  OBVIOUS
<1>4. Mirrors(<<>>, <<>>)
  BY <1>3 DEF Mirrors, Column
<1>5. Maps([k \in LruKeys |-> 0], <<>>, {})
  <2>1. \A k \in LruKeys : [x \in LruKeys |-> 0][k] = 0
    OBVIOUS
  <2>2. [k \in LruKeys |-> 0] \in [LruKeys -> 0 .. LruCap]
    OBVIOUS
  <2> QED BY <1>3, <2>1, <2>2 DEF Maps
<1> QED BY <1>1, <1>2, <1>3, <1>4, <1>5 DEF LruInv

\* The fields of a node.
LEMMA Fields ==
    ASSUME NEW L \in Seq(LruNode), NEW i \in 1 .. Len(L)
    PROVE  /\ L[i][1] \in 1 .. LruCap /\ L[i][2] \in LruKeys /\ L[i][3] \in LruValues
           /\ L[i] \in LruNode
<1>1. L[i] \in LruNode
  OBVIOUS
<1> QED BY <1>1 DEF LruNode

\* The fields of an entry.
LEMMA EntryFields ==
    ASSUME NEW H \in Seq(Entry), NEW i \in 1 .. Len(H)
    PROVE  H[i][1] \in LruKeys /\ H[i][2] \in LruValues /\ H[i] \in Entry
<1>1. H[i] \in Entry
  OBVIOUS
<1> QED BY <1>1 DEF Entry

\* A key that is in no node and no entry comes first.
Fronted(J, key, value, H) == J = <<<<key, value>>>> \o H
FirstOf(L, H, key, m, M, J) ==
    /\ Mirrors(M, J) /\ Len(M) = Len(L) + 1 /\ Len(J) = Len(H) + 1
    /\ Maps([m EXCEPT ![key] = M[1][1]], M, {})
\* A new node in front.
LEMMA LruFront ==
    ASSUME LruCap \in Nat, NEW L, NEW H, Mirrors(L, H), Len(L) < LruCap,
           NEW key \in LruKeys, NEW value \in LruValues,
           \A i \in 1 .. Len(H) : H[i][1] # key,
           NEW m, Maps(m, L, {key}),
           NEW M, M = Con!PushFront(L, key, value), NEW J, Fronted(J, key, value, H)
    PROVE  FirstOf(L, H, key, m, M, J)
<1>0. L \in Seq(LruNode) /\ H \in Seq(Entry) /\ Len(L) <= Len(H)
  BY DEF Mirrors
<1>1. PICK n \in Nat : n = Len(L) /\ n < LruCap
  BY <1>0
<1>2. PICK h \in Nat : h = Len(H) /\ n <= h
  BY <1>0, <1>1
<1>3. /\ L \in Seq(LruNode) /\ H \in Seq(Entry) /\ Column(L, 1) /\ Column(H, 1)
      /\ \A i \in 1 .. n : L[i][2] = H[i][1] /\ L[i][3] = H[i][2]
  BY <1>1 DEF Mirrors
<1> DEFINE used == {L[i][1] : i \in DOMAIN L}
<1>4. PICK a : a = CHOOSE x \in 1 .. LruCap : x \notin used
  OBVIOUS
<1>5. a \in 1 .. LruCap /\ \A i \in 1 .. n : L[i][1] # a
  <2>1. DOMAIN L = 1 .. n
    BY <1>1, <1>3
  <2>2. \E x \in 1 .. LruCap : x \notin {L[i][1] : i \in 1 .. Len(L)}
    BY ONLY <1>0, LruCap \in Nat, Len(L) < LruCap, AddressLeft
  <2>3. \E x \in 1 .. LruCap : x \notin used
    BY <1>1, <2>1, <2>2
  <2>4. a \in 1 .. LruCap /\ a \notin used
    BY <1>4, <2>3
  <2> QED BY <2>1, <2>4
<1>6. PICK x : x = <<a, key, value>>
  OBVIOUS
<1>7. x \in LruNode /\ x[1] = a /\ x[2] = key /\ x[3] = value
  BY <1>5, <1>6 DEF LruNode
<1>8. M = <<x>> \o L
  BY <1>4, <1>6 DEF Con!PushFront
<1>9. M \in Seq(LruNode) /\ Len(M) = n + 1 /\ M[1] = x /\ \A j \in 1 .. n : M[j + 1] = L[j]
  BY ONLY <1>1, <1>3, <1>7, <1>8, InFront
<1>10. PICK e : e = <<key, value>>
  OBVIOUS
<1>11. e \in Entry /\ e[1] = key /\ e[2] = value
  BY <1>10 DEF Entry
<1>12. J = <<e>> \o H
  BY <1>10 DEF Fronted
<1>13. J \in Seq(Entry) /\ Len(J) = h + 1 /\ J[1] = e /\ \A j \in 1 .. h : J[j + 1] = H[j]
  BY ONLY <1>2, <1>3, <1>11, <1>12, InFront
<1>14. Column(M, 1)
  <2>1. \A j \in 1 .. Len(L) : L[j][1] # x[1]
    BY <1>1, <1>5, <1>7
  <2> QED BY ONLY <1>3, <1>7, <1>8, <2>1, ColumnInFront
<1>15. Column(J, 1)
  <2>1. \A j \in 1 .. Len(H) : H[j][1] # e[1]
    BY <1>11
  <2> QED BY ONLY <1>3, <1>11, <1>12, <2>1, ColumnInFront
<1>16. ASSUME NEW i \in 1 .. n + 1 PROVE M[i][2] = J[i][1] /\ M[i][3] = J[i][2]
  <2>1. CASE i = 1
    BY <1>7, <1>9, <1>11, <1>13, <2>1
  <2>2. CASE i # 1
    <3>1. PICK j \in 1 .. n : i = j + 1
      BY <2>2
    <3>2. j \in 1 .. h
      BY <1>2
    <3> QED BY <1>3, <1>9, <1>13, <3>1, <3>2
  <2> QED BY <2>1, <2>2
<1>17. Mirrors(M, J)
  <2>1. Len(M) <= Len(J)
    BY <1>2, <1>9, <1>13
  <2> QED BY <1>9, <1>13, <1>14, <1>15, <1>16, <2>1 DEF Mirrors
<1>18. PICK f : f = [m EXCEPT ![key] = a]
  OBVIOUS
<1>19. /\ m \in [LruKeys -> 0 .. LruCap] /\ (\A i \in 1 .. n : m[L[i][2]] = L[i][1])
       /\ \A k \in LruKeys : m[k] # 0 => k = key \/ \E i \in 1 .. n : L[i][2] = k
  BY <1>1 DEF Maps
<1>20. f \in [LruKeys -> 0 .. LruCap] /\ f[key] = a /\ \A k \in LruKeys : k # key => f[k] = m[k]
  BY <1>5, <1>18, <1>19
<1>21. \A i \in 1 .. n : L[i][2] \in LruKeys /\ L[i][2] # key
  <2> SUFFICES ASSUME NEW i \in 1 .. n PROVE L[i][2] \in LruKeys /\ L[i][2] # key
    OBVIOUS
  <2>1. i \in 1 .. h /\ i \in 1 .. Len(L)
    BY <1>1, <1>2
  <2> QED BY <1>2, <1>3, <2>1, Fields
<1>22. ASSUME NEW i \in 1 .. n + 1 PROVE f[M[i][2]] = M[i][1]
  <2>1. CASE i = 1
    BY <1>7, <1>9, <1>20, <2>1
  <2>2. CASE i # 1
    <3>1. PICK j \in 1 .. n : i = j + 1
      BY <2>2
    <3>2. M[i] = L[j]
      BY <1>9, <3>1
    <3> QED BY <1>19, <1>20, <1>21, <3>2
  <2> QED BY <2>1, <2>2
<1>23. ASSUME NEW k \in LruKeys, f[k] # 0 PROVE \E i \in 1 .. n + 1 : M[i][2] = k
  <2>1. CASE k = key
    <3>1. 1 \in 1 .. n + 1
      OBVIOUS
    <3> QED BY <1>7, <1>9, <2>1, <3>1
  <2>2. CASE k # key
    <3>1. PICK j \in 1 .. n : L[j][2] = k
      BY <1>19, <1>20, <1>23, <2>2
    <3>2. j + 1 \in 1 .. n + 1 /\ M[j + 1][2] = k
      BY <1>9, <3>1
    <3> QED BY <3>2
  <2> QED BY <2>1, <2>2
<1>24. Maps(f, M, {})
  BY <1>9, <1>20, <1>22, <1>23 DEF Maps
<1> QED BY <1>1, <1>2, <1>7, <1>9, <1>13, <1>17, <1>18, <1>24 DEF FirstOf

\* The node of an address on the list.
LEMMA PlaceOf ==
    ASSUME NEW L \in Seq(LruNode), Column(L, 1), NEW i \in 1 .. Len(L)
    PROVE  Con!Place(L, L[i][1]) = i
<1>1. DOMAIN L = 1 .. Len(L)
  OBVIOUS
<1>2. \A j \in 1 .. Len(L) : L[j][1] = L[i][1] => j = i
  BY DEF Column
<1> QED BY <1>1, <1>2 DEF Con!Place

\* Taking the i-th node out of the list and the i-th entry out of H.
Leaves(L, H, key, m, N, I) ==
    /\ Mirrors(N, I) /\ Len(N) = Len(L) - 1 /\ Len(I) = Len(H) - 1
    /\ \A j \in 1 .. Len(I) : I[j][1] # key
    /\ Maps(m, N, {key})
\* A node cut out.
LEMMA LruCut ==
    ASSUME NEW L, NEW H, Mirrors(L, H), NEW i \in 1 .. Len(L),
           NEW m, Maps(m, L, {}), NEW N, N = Con!RemoveAt(L, i), NEW I, I = Con!RemoveAt(H, i)
    PROVE  Leaves(L, H, L[i][2], m, N, I)
<1>1. PICK n, h \in Nat : n = Len(L) /\ h = Len(H) /\ n <= h /\ i \in 1 .. n /\ i \in 1 .. h
  BY DEF Mirrors
<1>2. /\ L \in Seq(LruNode) /\ H \in Seq(Entry) /\ Column(L, 1) /\ Column(H, 1)
      /\ \A j \in 1 .. n : L[j][2] = H[j][1] /\ L[j][3] = H[j][2]
  BY <1>1 DEF Mirrors
<1>3. i \in 1 .. Len(L) /\ i \in 1 .. Len(H)
  BY <1>1
<1>4. /\ N \in Seq(LruNode) /\ Len(N) = n - 1
      /\ \A j \in 1 .. n - 1 : N[j] = IF j < i THEN L[j] ELSE L[j + 1]
  BY ONLY <1>1, <1>2, <1>3, N = Con!RemoveAt(L, i), CutOut
<1>5. /\ I \in Seq(Entry) /\ Len(I) = h - 1
      /\ \A j \in 1 .. h - 1 : I[j] = IF j < i THEN H[j] ELSE H[j + 1]
  BY ONLY <1>1, <1>2, <1>3, I = Con!RemoveAt(H, i), CutOut
<1>6. /\ Column(N, 1)
      /\ \A j \in 1 .. Len(N) : \E l \in 1 .. Len(L) : l # i /\ N[j] = L[l]
      /\ \A l \in 1 .. Len(L) : l # i => \E j \in 1 .. Len(N) : N[j] = L[l]
  <2>1. Without(L, i, 1, N)
    BY ONLY <1>2, <1>3, N = Con!RemoveAt(L, i), ColumnCut
  <2> QED BY ONLY <2>1 DEF Without
<1>7. Column(I, 1) /\ \A j \in 1 .. Len(I) : I[j][1] # H[i][1]
  <2>1. Without(H, i, 1, I)
    BY ONLY <1>2, <1>3, I = Con!RemoveAt(H, i), ColumnCut
  <2> QED BY ONLY <2>1 DEF Without
<1>8. ASSUME NEW j \in 1 .. n - 1 PROVE N[j][2] = I[j][1] /\ N[j][3] = I[j][2]
  <2>1. j \in 1 .. n /\ j + 1 \in 1 .. n /\ j \in 1 .. h - 1
    BY <1>1
  <2>2. CASE j < i
    BY <1>2, <1>4, <1>5, <2>1, <2>2
  <2>3. CASE ~ (j < i)
    BY <1>2, <1>4, <1>5, <2>1, <2>3
  <2> QED BY <2>2, <2>3
<1>9. Mirrors(N, I)
  <2>1. Len(N) <= Len(I)
    BY <1>1, <1>4, <1>5
  <2> QED BY <1>4, <1>5, <1>6, <1>7, <1>8, <2>1 DEF Mirrors
<1>10. \A j \in 1 .. Len(I) : I[j][1] # L[i][2]
  BY <1>1, <1>2, <1>7
<1>11. /\ m \in [LruKeys -> 0 .. LruCap] /\ (\A j \in 1 .. Len(L) : m[L[j][2]] = L[j][1])
       /\ \A k \in LruKeys : m[k] # 0 => \E j \in 1 .. Len(L) : L[j][2] = k
  BY DEF Maps
<1>12. \A j \in 1 .. Len(N) : m[N[j][2]] = N[j][1]
  <2> SUFFICES ASSUME NEW j \in 1 .. Len(N) PROVE m[N[j][2]] = N[j][1]
    OBVIOUS
  <2>1. PICK l \in 1 .. Len(L) : N[j] = L[l]
    BY <1>6
  <2> QED BY ONLY <1>11, <2>1, l \in 1 .. Len(L)
<1>13. ASSUME NEW k \in LruKeys, m[k] # 0 PROVE k = L[i][2] \/ \E j \in 1 .. Len(N) : N[j][2] = k
  <2>1. PICK l \in 1 .. Len(L) : L[l][2] = k
    BY <1>11, <1>13
  <2>2. CASE l = i
    BY <2>1, <2>2
  <2>3. CASE l # i
    BY <1>6, <2>1, <2>3
  <2> QED BY <2>2, <2>3
<1>14. Maps(m, N, {L[i][2]})
  BY <1>11, <1>12, <1>13 DEF Maps
<1> QED BY <1>1, <1>4, <1>5, <1>9, <1>10, <1>14 DEF Leaves

\* The list without its last node.
LEMMA LruShorter ==
    ASSUME LruCap \in Nat, NEW L, NEW H, Mirrors(L, H), NEW n \in Nat \ {0}, n = Len(L),
           NEW m, Maps(m, L, {}), NEW N, N = Con!RemoveAt(L, n)
    PROVE  /\ Mirrors(N, H) /\ Len(N) = n - 1 /\ L[n][2] \in LruKeys
           /\ Maps([m EXCEPT ![L[n][2]] = 0], N, {})
<1>1. PICK h \in Nat : h = Len(H) /\ n <= h /\ n \in 1 .. n
  BY DEF Mirrors
<1>2. /\ L \in Seq(LruNode) /\ H \in Seq(Entry) /\ Column(L, 1) /\ Column(H, 1)
      /\ \A j \in 1 .. n : L[j][2] = H[j][1] /\ L[j][3] = H[j][2]
  BY <1>1 DEF Mirrors
<1>3. n \in 1 .. Len(L)
  BY <1>1
<1>4. /\ N \in Seq(LruNode) /\ Len(N) = n - 1
      /\ \A j \in 1 .. n - 1 : N[j] = IF j < n THEN L[j] ELSE L[j + 1]
  BY ONLY <1>1, <1>2, <1>3, n = Len(L), N = Con!RemoveAt(L, n), CutOut
<1>5. \A j \in 1 .. n - 1 : N[j] = L[j] /\ j \in 1 .. n /\ j # n
  BY <1>4
<1>6. /\ Column(N, 1)
      /\ \A j \in 1 .. Len(N) : \E l \in 1 .. Len(L) : l # n /\ N[j] = L[l]
      /\ \A l \in 1 .. Len(L) : l # n => \E j \in 1 .. Len(N) : N[j] = L[l]
  <2>1. Without(L, n, 1, N)
    BY ONLY <1>2, <1>3, N = Con!RemoveAt(L, n), ColumnCut
  <2> QED BY ONLY <2>1 DEF Without
<1>7. Mirrors(N, H)
  <2>1. Len(N) <= Len(H)
    BY <1>1, <1>4
  <2>2. \A j \in 1 .. Len(N) : N[j][2] = H[j][1] /\ N[j][3] = H[j][2]
    <3>1. N \in Seq(LruNode) /\ Len(N) = n - 1
      BY <1>4
    <3> QED BY ONLY <1>2, <1>5, <3>1, n \in Nat
  <2> QED BY <1>2, <1>4, <1>6, <2>1, <2>2 DEF Mirrors
<1>8. PICK b : b = L[n][2]
  OBVIOUS
<1>9. b \in LruKeys /\ \A j \in 1 .. n - 1 : L[j][2] \in LruKeys /\ L[j][2] # b
  <2>1. b \in LruKeys
    BY <1>2, <1>3, <1>8, Fields
  <2>2. ASSUME NEW j \in 1 .. n - 1 PROVE L[j][2] \in LruKeys /\ L[j][2] # b
    <3>1. j \in 1 .. Len(L) /\ j \in 1 .. n /\ j \in 1 .. Len(H) /\ n \in 1 .. Len(H) /\ j # n
      BY <1>1
    <3>2. H[j][1] # H[n][1]
      BY <1>2, <3>1 DEF Column
    <3>3. L[j][2] # L[n][2]
      BY <1>1, <1>2, <3>1, <3>2
    <3> QED BY <1>2, <1>8, <3>1, <3>3, Fields
  <2> QED BY <2>1, <2>2
<1>10. /\ m \in [LruKeys -> 0 .. LruCap] /\ (\A j \in 1 .. n : m[L[j][2]] = L[j][1])
       /\ \A k \in LruKeys : m[k] # 0 => \E j \in 1 .. n : L[j][2] = k
  BY DEF Maps
<1>11. PICK f : f = [m EXCEPT ![b] = 0]
  OBVIOUS
<1>12. f \in [LruKeys -> 0 .. LruCap] /\ f[b] = 0 /\ \A k \in LruKeys : k # b => f[k] = m[k]
  <2>1. 0 \in 0 .. LruCap
    OBVIOUS
  <2> QED BY <1>9, <1>10, <1>11, <2>1
<1>13. \A j \in 1 .. Len(N) : f[N[j][2]] = N[j][1]
  <2> SUFFICES ASSUME NEW j \in 1 .. n - 1 PROVE f[N[j][2]] = N[j][1]
    BY <1>4
  <2>1. N[j] = L[j] /\ j \in 1 .. n /\ L[j][2] \in LruKeys /\ L[j][2] # b
    BY <1>5, <1>9
  <2>2. m[L[j][2]] = L[j][1] /\ f[L[j][2]] = m[L[j][2]]
    BY <1>10, <1>12, <2>1
  <2> QED BY <2>1, <2>2
<1>14. ASSUME NEW k \in LruKeys, f[k] # 0 PROVE \E j \in 1 .. Len(N) : N[j][2] = k
  <2>1. PICK l \in 1 .. n : L[l][2] = k
    BY <1>10, <1>12, <1>14
  <2>2. l # n
    BY <1>8, <1>12, <1>14, <2>1
  <2>3. l \in 1 .. n - 1
    BY <2>2
  <2> QED BY <1>4, <1>5, <2>1, <2>3
<1>15. Maps(f, N, {})
  BY <1>12, <1>13, <1>14 DEF Maps
<1> QED BY <1>4, <1>7, <1>8, <1>9, <1>11, <1>15

\* An entry behind those of the list goes.
LEMMA CutBehind ==
    ASSUME NEW L, NEW H, Mirrors(L, H), NEW i \in 1 .. Len(H), Len(L) < i,
           NEW I, I = Con!RemoveAt(H, i)
    PROVE  Mirrors(L, I) /\ Len(I) = Len(H) - 1 /\ \A j \in 1 .. Len(I) : I[j][1] # H[i][1]
<1>0. L \in Seq(LruNode) /\ H \in Seq(Entry)
  BY DEF Mirrors
<1>1. PICK n, h \in Nat : n = Len(L) /\ h = Len(H) /\ n < i /\ i \in 1 .. h
  BY <1>0
<1>2. /\ Column(L, 1) /\ Column(H, 1)
      /\ \A j \in 1 .. n : L[j][2] = H[j][1] /\ L[j][3] = H[j][2]
  BY <1>1 DEF Mirrors
<1>3. /\ I \in Seq(Entry) /\ Len(I) = h - 1
      /\ \A j \in 1 .. h - 1 : I[j] = IF j < i THEN H[j] ELSE H[j + 1]
  BY ONLY <1>0, <1>1, i \in 1 .. Len(H), I = Con!RemoveAt(H, i), CutOut
<1>4. Column(I, 1) /\ \A j \in 1 .. Len(I) : I[j][1] # H[i][1]
  <2>1. Without(H, i, 1, I)
    BY ONLY <1>0, <1>2, i \in 1 .. Len(H), I = Con!RemoveAt(H, i), ColumnCut
  <2> QED BY ONLY <2>1 DEF Without
<1>5. \A j \in 1 .. n : I[j] = H[j]
  <2> SUFFICES ASSUME NEW j \in 1 .. n PROVE I[j] = H[j]
    OBVIOUS
  <2>1. j \in 1 .. h - 1 /\ j < i
    BY <1>1
  <2> QED BY <1>3, <2>1
<1>6. Len(L) <= Len(I)
  BY <1>1, <1>3
<1> QED BY <1>0, <1>1, <1>2, <1>3, <1>4, <1>5, <1>6 DEF Mirrors

\* What Touch leaves of the entries when the key is not among those of the list.
LEMMA TouchBehind ==
    ASSUME NEW L, Mirrors(L, held), NEW key \in LruKeys, NEW value,
           \A i \in 1 .. Len(L) : held[i][1] # key
    PROVE  \E I : /\ Con!Touch(key, value) = <<<<key, value>>>> \o I
                  /\ Mirrors(L, I) /\ \A j \in 1 .. Len(I) : I[j][1] # key
                  /\ Len(I) = Len(held) \/ Len(I) = Len(held) - 1
                  /\ Len(L) = Len(held) => Len(I) = Len(held)
<1>0. L \in Seq(LruNode) /\ held \in Seq(Entry) /\ Len(L) \in Nat /\ Len(held) \in Nat
      /\ DOMAIN held = 1 .. Len(held)
  BY DEF Mirrors
<1> DEFINE seen == {i \in DOMAIN held : held[i][1] = key}
<1>1. CASE seen = {}
  <2>1. Con!Touch(key, value) = <<<<key, value>>>> \o held
    BY <1>1 DEF Con!Touch
  <2>2. \A j \in 1 .. Len(held) : held[j][1] # key
    BY <1>0, <1>1
  <2> QED BY <2>1, <2>2
<1>2. CASE seen # {}
  <2>1. PICK i : i = CHOOSE x \in seen : TRUE
    OBVIOUS
  <2>2. i \in 1 .. Len(held) /\ held[i][1] = key
    BY <1>0, <1>2, <2>1
  <2>3. Con!Touch(key, value) = <<<<key, value>>>> \o Con!RemoveAt(held, i)
    BY <1>2, <2>1 DEF Con!Touch
  <2>4. Len(L) < i
    BY <1>0, <2>2
  <2>5. PICK I : I = Con!RemoveAt(held, i)
    OBVIOUS
  <2>6. Mirrors(L, I) /\ Len(I) = Len(held) - 1 /\ \A j \in 1 .. Len(I) : I[j][1] # key
    BY <2>2, <2>4, <2>5, CutBehind
  <2>7. Len(L) # Len(held)
    BY <1>0, <2>2, <2>4
  <2> QED BY <2>3, <2>5, <2>6, <2>7
<1> QED BY <1>1, <1>2

\* A key the map leads from: its node, its entry, and what is left of the others.
LEMMA LruFound ==
    ASSUME NEW L, Mirrors(L, held), NEW m, Maps(m, L, {}), NEW key \in LruKeys, m[key] # 0
    PROVE  \E i \in 1 .. Len(L) :
              /\ L[i][1] = m[key] /\ L[i][2] = key /\ L[i][3] = held[i][2]
              /\ Con!Place(L, m[key]) = i /\ i \in 1 .. Len(held)
              /\ \A j \in 1 .. Len(held) : held[j][1] = key <=> j = i
              /\ \A value : Con!Touch(key, value) = <<<<key, value>>>> \o Con!RemoveAt(held, i)
<1>1. PICK i \in 1 .. Len(L) : L[i][2] = key
  BY DEF Maps
<1>2. /\ L \in Seq(LruNode) /\ held \in Seq(Entry) /\ Len(L) \in Nat /\ Len(held) \in Nat
      /\ Len(L) <= Len(held) /\ DOMAIN held = 1 .. Len(held) /\ Column(L, 1) /\ Column(held, 1)
      /\ L[i][2] = held[i][1] /\ L[i][3] = held[i][2]
  BY DEF Mirrors
<1>3. L[i][1] = m[key]
  BY <1>1 DEF Maps
<1>4. Con!Place(L, m[key]) = i
  BY <1>2, <1>3, PlaceOf
<1>5. i \in 1 .. Len(held)
  BY <1>2
<1>6. \A j \in 1 .. Len(held) : held[j][1] = key <=> j = i
  BY <1>1, <1>2, <1>5 DEF Column
<1>7. ASSUME NEW value PROVE Con!Touch(key, value) = <<<<key, value>>>> \o Con!RemoveAt(held, i)
  <2>1. {j \in DOMAIN held : held[j][1] = key} = {i}
    BY <1>2, <1>5, <1>6
  <2>2. (CHOOSE x \in {i} : TRUE) = i /\ {i} # {}
    OBVIOUS
  <2> QED BY <2>1, <2>2 DEF Con!Touch
<1> QED BY <1>1, <1>2, <1>3, <1>4, <1>5, <1>6, <1>7

\* The invariant of the state a call leaves.
LruAfter(L, m, c, H) ==
    /\ Mirrors(L, H) /\ Maps(m, L, {}) /\ c = Len(L)
    /\ Len(L) = IF Len(H) < LruCap THEN Len(H) ELSE LruCap

\* A hit: the node moves to the front, with the value it had or a new one.
LEMMA LruMoved ==
    ASSUME LruCap \in Nat \ {0}, LruInv, NEW key \in LruKeys, obj.m[key] # 0, NEW value \in LruValues,
           NEW M, M = Con!PushFront(Con!Erase(obj.list, obj.m[key]), key, value)
    PROVE  LruAfter(M, [obj.m EXCEPT ![key] = M[1][1]], obj.count, Con!Touch(key, value))
<1>1. PICK L, m : L = obj.list /\ m = obj.m
  OBVIOUS
<1>2. /\ Mirrors(L, held) /\ Maps(m, L, {}) /\ obj.count = Len(L)
      /\ Len(L) = IF Len(held) < LruCap THEN Len(held) ELSE LruCap
  BY <1>1 DEF LruInv
<1>3. PICK i \in 1 .. Len(L) :
              /\ L[i][2] = key /\ Con!Place(L, m[key]) = i
              /\ \A v : Con!Touch(key, v) = <<<<key, v>>>> \o Con!RemoveAt(held, i)
  <2>1. m[key] # 0
    BY <1>1
  <2> QED BY <1>2, <2>1, LruFound
<1>4. PICK N, I : N = Con!RemoveAt(L, i) /\ I = Con!RemoveAt(held, i)
  OBVIOUS
<1>5. /\ Mirrors(N, I) /\ Len(N) = Len(L) - 1 /\ Len(I) = Len(held) - 1
      /\ \A j \in 1 .. Len(I) : I[j][1] # key
      /\ Maps(m, N, {key})
  <2>1. Leaves(L, held, L[i][2], m, N, I)
    BY ONLY <1>2, <1>4, i \in 1 .. Len(L), LruCut
  <2> QED BY ONLY <1>3, <2>1 DEF Leaves
<1>6. Len(L) \in Nat /\ Len(held) \in Nat
  BY <1>2 DEF Mirrors
<1>7. PICK J : Fronted(J, key, value, I)
  BY DEF Fronted
<1>8. M = Con!PushFront(N, key, value) /\ Con!Touch(key, value) = J
  BY <1>1, <1>3, <1>4, <1>7 DEF Con!Erase, Fronted
<1>9. Len(N) < LruCap
  BY <1>2, <1>5, <1>6
<1>10. /\ Mirrors(M, J) /\ Len(M) = Len(N) + 1 /\ Len(J) = Len(I) + 1
       /\ Maps([m EXCEPT ![key] = M[1][1]], M, {})
  <2>1. FirstOf(N, I, key, m, M, J)
    BY ONLY <1>5, <1>7, <1>8, <1>9, LruCap \in Nat, key \in LruKeys, value \in LruValues, LruFront
  <2> QED BY ONLY <2>1 DEF FirstOf
<1>11. Len(M) = Len(L) /\ Len(J) = Len(held)
  BY <1>5, <1>6, <1>10
<1> QED BY <1>1, <1>2, <1>8, <1>10, <1>11 DEF LruAfter

\* A miss: no entry that is cached has the key.
LEMMA LruMissed ==
    ASSUME LruCap \in Nat \ {0}, LruInv, NEW key \in LruKeys, obj.m[key] = 0
    PROVE  Con!Cached(key) = {} /\ \A i \in 1 .. Len(obj.list) : held[i][1] # key
<1>1. PICK L, m : L = obj.list /\ m = obj.m
  OBVIOUS
<1>2. /\ Mirrors(L, held) /\ Maps(m, L, {})
      /\ Len(L) = IF Len(held) < LruCap THEN Len(held) ELSE LruCap
  BY <1>1 DEF LruInv
<1>3. L \in Seq(LruNode) /\ held \in Seq(Entry) /\ Len(L) \in Nat /\ Len(held) \in Nat
  BY <1>2 DEF Mirrors
<1>4. ASSUME NEW i \in 1 .. Len(L), held[i][1] = key PROVE FALSE
  <2>1. L[i][2] = key
    BY <1>2, <1>4 DEF Mirrors
  <2>2. m[key] = L[i][1]
    BY <1>2, <2>1 DEF Maps
  <2>3. L[i][1] \in 1 .. LruCap
    BY <1>3, Fields
  <2> QED BY <1>1, <2>2, <2>3
<1>5. \A i \in 1 .. Len(held) : i <= LruCap => i \in 1 .. Len(L)
  BY <1>2, <1>3
<1>6. Con!Cached(key) = {}
  BY <1>4, <1>5 DEF Con!Cached
<1> QED BY <1>1, <1>4, <1>6

\* A hit: exactly one entry that is cached has the key.
LEMMA LruHit ==
    ASSUME LruCap \in Nat \ {0}, LruInv, NEW key \in LruKeys, obj.m[key] # 0
    PROVE  /\ Con!NodeAt(obj.list, obj.m[key])[3] \in LruValues
           /\ {held[i][2] : i \in Con!Cached(key)} = {Con!NodeAt(obj.list, obj.m[key])[3]}
<1>1. PICK L, m : L = obj.list /\ m = obj.m
  OBVIOUS
<1>2. /\ Mirrors(L, held) /\ Maps(m, L, {})
      /\ Len(L) = IF Len(held) < LruCap THEN Len(held) ELSE LruCap
  BY <1>1 DEF LruInv
<1>3. L \in Seq(LruNode) /\ held \in Seq(Entry) /\ Len(L) \in Nat /\ Len(held) \in Nat
  BY <1>2 DEF Mirrors
<1>4. PICK i \in 1 .. Len(L) :
              /\ L[i][3] = held[i][2] /\ Con!Place(L, m[key]) = i /\ i \in 1 .. Len(held)
              /\ \A j \in 1 .. Len(held) : held[j][1] = key <=> j = i
  <2>1. m[key] # 0
    BY <1>1
  <2> QED BY <1>2, <2>1, LruFound
<1>5. i <= LruCap
  BY <1>2, <1>3
<1>6. Con!Cached(key) = {i}
  BY <1>4, <1>5 DEF Con!Cached
<1>7. Con!NodeAt(L, m[key])[3] = L[i][3] /\ L[i][3] \in LruValues
  BY <1>3, <1>4, Fields DEF Con!NodeAt
<1> QED BY <1>1, <1>4, <1>6, <1>7

\* A miss of put().
LEMMA LruAdded ==
    ASSUME LruCap \in Nat \ {0}, LruInv, NEW key \in LruKeys, obj.m[key] = 0, NEW value \in LruValues,
           NEW M, M = Con!PushFront(Con!Room(key).list, key, value)
    PROVE  /\ Con!Room(key) = [list |-> Con!Room(key).list, m |-> Con!Room(key).m, count |-> Con!Room(key).count]
           /\ LruAfter(M, [Con!Room(key).m EXCEPT ![key] = M[1][1]], Con!Room(key).count, Con!Touch(key, value))
<1>1. PICK L, m, c : L = obj.list /\ m = obj.m /\ c = obj.count
  OBVIOUS
<1>2. /\ obj = [list |-> L, m |-> m, count |-> c]
      /\ Mirrors(L, held) /\ Maps(m, L, {}) /\ c = Len(L)
      /\ Len(L) = IF Len(held) < LruCap THEN Len(held) ELSE LruCap
  BY <1>1 DEF LruInv
<1>3. L \in Seq(LruNode) /\ held \in Seq(Entry) /\ Len(L) \in Nat /\ Len(held) \in Nat /\ m[key] = 0
  BY <1>1, <1>2 DEF Mirrors
<1>4. \A i \in 1 .. Len(L) : held[i][1] # key
  BY <1>1, LruMissed
<1>5. CASE c = LruCap
  <2>1. PICK n \in Nat \ {0} : n = Len(L) /\ n = LruCap /\ n \in 1 .. Len(L)
    BY <1>2, <1>3, <1>5
  <2>2. PICK N, f : N = Con!RemoveAt(L, n) /\ f = [m EXCEPT ![L[n][2]] = 0]
    OBVIOUS
  <2>3. Mirrors(N, held) /\ Len(N) = n - 1 /\ Maps(f, N, {})
    BY ONLY <1>2, <2>1, <2>2, n \in Nat \ {0}, LruCap \in Nat, LruShorter
  <2>4. Con!Erase(L, L[n][1]) = N
    <3>1. Con!Place(L, L[n][1]) = n
      BY <1>2, <1>3, <2>1, PlaceOf DEF Mirrors
    <3> QED BY <2>2, <3>1 DEF Con!Erase
  <2>5. Con!Room(key) = [list |-> N, m |-> f, count |-> c]
    <3>1. obj.m[key] = 0 /\ obj.count = LruCap /\ obj.list = L /\ obj.m = m
      BY <1>1, <1>3, <1>5
    <3>2. Con!Room(key) = [obj EXCEPT !.list = N, !.m[L[n][2]] = 0]
      BY <2>1, <2>4, <3>1 DEF Con!Room, Con!Null
    <3> QED BY <1>2, <2>2, <3>2
  <2>6. \A i \in 1 .. Len(N) : held[i][1] # key
    <3>1. \A i \in 1 .. Len(N) : i \in 1 .. Len(L)
      BY <2>1, <2>3
    <3> QED BY <1>4, <3>1
  <2>7. PICK I : /\ Con!Touch(key, value) = <<<<key, value>>>> \o I
                 /\ Mirrors(N, I) /\ \A j \in 1 .. Len(I) : I[j][1] # key
                 /\ Len(I) = Len(held) \/ Len(I) = Len(held) - 1
    BY ONLY <2>3, <2>6, key \in LruKeys, TouchBehind
  <2>8. PICK J : Fronted(J, key, value, I)
    BY DEF Fronted
  <2>9. Maps(f, N, {key})
    BY <2>3 DEF Maps
  <2>10. Len(N) < LruCap /\ M = Con!PushFront(N, key, value)
    BY <2>1, <2>3, <2>5
  <2>11. /\ Mirrors(M, J) /\ Len(M) = Len(N) + 1 /\ Len(J) = Len(I) + 1
         /\ Maps([f EXCEPT ![key] = M[1][1]], M, {})
    <3>1. FirstOf(N, I, key, f, M, J)
      BY ONLY <2>7, <2>8, <2>9, <2>10, LruCap \in Nat, key \in LruKeys, value \in LruValues, LruFront
    <3> QED BY ONLY <3>1 DEF FirstOf
  <2>12. Len(M) = n /\ c = Len(M) /\ ~ (Len(J) < LruCap)
    BY <1>2, <1>3, <2>1, <2>3, <2>7, <2>11
  <2>13. LruAfter(M, [f EXCEPT ![key] = M[1][1]], c, J)
    BY <2>1, <2>11, <2>12 DEF LruAfter
  <2>14. Con!Room(key).list = N /\ Con!Room(key).m = f /\ Con!Room(key).count = c
    BY ONLY <2>5
  <2>15. Con!Touch(key, value) = J
    BY <2>7, <2>8 DEF Fronted
  <2> QED BY ONLY <2>5, <2>13, <2>14, <2>15
<1>6. CASE c # LruCap
  <2>1. Len(L) < LruCap /\ Len(L) = Len(held)
    BY <1>2, <1>3, <1>6
  <2>2. Con!Room(key) = [list |-> L, m |-> m, count |-> c + 1]
    <3>1. obj.m[key] = 0 /\ obj.count # LruCap
      BY <1>1, <1>3, <1>6
    <3>2. Con!Room(key) = [obj EXCEPT !.count = @ + 1]
      BY <3>1 DEF Con!Room, Con!Null
    <3> QED BY <1>2, <3>2
  <2>3. PICK I : /\ Con!Touch(key, value) = <<<<key, value>>>> \o I
                 /\ Mirrors(L, I) /\ \A j \in 1 .. Len(I) : I[j][1] # key
                 /\ Len(I) = Len(held)
    BY <1>2, <1>4, <2>1, TouchBehind
  <2>4. PICK J : Fronted(J, key, value, I)
    BY DEF Fronted
  <2>5. Maps(m, L, {key})
    BY <1>2 DEF Maps
  <2>6. M = Con!PushFront(L, key, value)
    BY <2>2
  <2>7. /\ Mirrors(M, J) /\ Len(M) = Len(L) + 1 /\ Len(J) = Len(I) + 1
         /\ Maps([m EXCEPT ![key] = M[1][1]], M, {})
    <3>1. FirstOf(L, I, key, m, M, J)
      BY ONLY <2>1, <2>3, <2>4, <2>5, <2>6, LruCap \in Nat, key \in LruKeys, value \in LruValues, LruFront
    <3> QED BY ONLY <3>1 DEF FirstOf
  <2>8. Len(M) = IF Len(J) < LruCap THEN Len(J) ELSE LruCap
    BY <1>3, <2>1, <2>3, <2>7
  <2>9. LruAfter(M, [m EXCEPT ![key] = M[1][1]], c + 1, J)
    BY <1>2, <2>7, <2>8 DEF LruAfter
  <2>10. Con!Room(key).list = L /\ Con!Room(key).m = m /\ Con!Room(key).count = c + 1
    BY ONLY <2>2
  <2>11. Con!Touch(key, value) = J
    BY <2>3, <2>4 DEF Fronted
  <2> QED BY ONLY <2>2, <2>9, <2>10, <2>11
<1> QED BY <1>5, <1>6

\* The calls of the cache keep it.
LEMMA LruSteps == LruInv /\ LruCap \in Nat \ {0} /\ Con!LruNext => LruInv'
<1> SUFFICES ASSUME LruInv, LruCap \in Nat \ {0}, Con!LruNext PROVE LruInv'
  OBVIOUS
<1>1. obj = [list |-> obj.list, m |-> obj.m, count |-> obj.count] /\ ret[1] = ret[2]
  BY DEF LruInv
<1>2. ASSUME NEW L, NEW m, NEW c, obj' = [list |-> L, m |-> m, count |-> c],
             LruAfter(L, m, c, held'), ret'[1] = ret'[2]
      PROVE  LruInv'
  <2>1. obj'.list = L /\ obj'.m = m /\ obj'.count = c
    BY <1>2
  <2> QED BY <1>2, <2>1 DEF LruInv, LruAfter
<1>3. ASSUME NEW key \in LruKeys, Con!get(key) PROVE LruInv'
  <2>1. CASE obj.m[key] = 0
    <3>1. ret' = <<{}, {held[i][2] : i \in Con!Cached(key)}>> /\ obj' = obj /\ held' = held
      BY <1>3, <2>1 DEF Con!get, Con!Null
    <3>2. Con!Cached(key) = {}
      BY <2>1, LruMissed
    <3>3. ret'[1] = ret'[2]
      BY <3>1, <3>2
    <3> QED BY <3>1, <3>3 DEF LruInv
  <2>2. CASE obj.m[key] # 0
    <3>1. PICK res : res = Con!NodeAt(obj.list, obj.m[key])[3]
      OBVIOUS
    <3>2. PICK M : M = Con!PushFront(Con!Erase(obj.list, obj.m[key]), key, res)
      OBVIOUS
    <3>3. /\ obj' = [obj EXCEPT !.list = M, !.m[key] = M[1][1]]
          /\ ret' = <<{res}, {held[i][2] : i \in Con!Cached(key)}>>
          /\ held' = Con!Touch(key, res)
      BY <1>3, <2>2, <3>1, <3>2 DEF Con!get, Con!Null
    <3>4. res \in LruValues /\ {held[i][2] : i \in Con!Cached(key)} = {res}
      BY <2>2, <3>1, LruHit
    <3>5. LruAfter(M, [obj.m EXCEPT ![key] = M[1][1]], obj.count, held')
      BY <2>2, <3>2, <3>3, <3>4, LruMoved
    <3>6. obj' = [list |-> M, m |-> [obj.m EXCEPT ![key] = M[1][1]], count |-> obj.count]
      BY <1>1, <3>3
    <3>7. ret'[1] = ret'[2]
      BY <3>3, <3>4
    <3> QED BY <1>2, <3>5, <3>6, <3>7
  <2> QED BY <2>1, <2>2
<1>4. ASSUME NEW key \in LruKeys, NEW value \in LruValues, Con!put(key, value) PROVE LruInv'
  <2>1. PICK room, M : room = Con!Room(key) /\ M = Con!PushFront(room.list, key, value)
    OBVIOUS
  <2>2. /\ obj' = [room EXCEPT !.list = M, !.m[key] = M[1][1]]
        /\ held' = Con!Touch(key, value) /\ ret' = ret
    BY <1>4, <2>1 DEF Con!put
  <2>3. /\ room = [list |-> room.list, m |-> room.m, count |-> room.count]
        /\ LruAfter(M, [room.m EXCEPT ![key] = M[1][1]], room.count, held')
    <3>1. CASE obj.m[key] = 0
      BY <2>1, <2>2, <3>1, LruAdded
    <3>2. CASE obj.m[key] # 0
      <4>1. room = [obj EXCEPT !.list = Con!Erase(obj.list, obj.m[key])]
        BY <2>1, <3>2 DEF Con!Room, Con!Null
      <4>2. room = [list |-> Con!Erase(obj.list, obj.m[key]), m |-> obj.m, count |-> obj.count]
        BY <1>1, <4>1
      <4>3. room.list = Con!Erase(obj.list, obj.m[key]) /\ room.m = obj.m /\ room.count = obj.count
        BY <4>2
      <4>4. M = Con!PushFront(Con!Erase(obj.list, obj.m[key]), key, value)
        BY <2>1, <4>3
      <4>5. LruAfter(M, [obj.m EXCEPT ![key] = M[1][1]], obj.count, Con!Touch(key, value))
        BY <3>2, <4>4, LruMoved
      <4> QED BY <2>2, <4>2, <4>3, <4>5
    <3> QED BY <3>1, <3>2
  <2>4. obj' = [list |-> M, m |-> [room.m EXCEPT ![key] = M[1][1]], count |-> room.count]
    BY <2>2, <2>3
  <2> QED BY <1>1, <1>2, <2>2, <2>3, <2>4
<1> QED BY <1>3, <1>4 DEF Con!LruNext

\* It implies the property of the cache.
LEMMA LruIsSound == LruInv /\ LruCap \in Nat \ {0} => Con!LruSound
<1> SUFFICES ASSUME LruInv, LruCap \in Nat \ {0} PROVE Con!LruSound
  OBVIOUS
<1>1. PICK L, m : L = obj.list /\ m = obj.m
  OBVIOUS
<1>2. /\ Mirrors(L, held) /\ Maps(m, L, {}) /\ obj.count = Len(L) /\ ret[1] = ret[2]
      /\ Len(L) = IF Len(held) < LruCap THEN Len(held) ELSE LruCap
  BY <1>1 DEF LruInv
<1>3. L \in Seq(LruNode) /\ held \in Seq(Entry) /\ Len(held) \in Nat
  BY <1>2 DEF Mirrors
<1>4. PICK n \in Nat : n = Len(L) /\ n \in 0 .. Len(held)
  BY <1>2, <1>3
<1>5. SubSeq(held, 1, n) \in Seq(Entry) /\ Len(SubSeq(held, 1, n)) = n
      /\ \A k \in 1 .. n : SubSeq(held, 1, n)[k] = held[k]
  BY ONLY <1>3, <1>4, CutInTwo
<1>6. [i \in 1 .. n |-> <<L[i][2], L[i][3]>>] = SubSeq(held, 1, n)
  <2>1. PICK s : s = SubSeq(held, 1, n)
    OBVIOUS
  <2>2. PICK r : r = [i \in 1 .. n |-> <<L[i][2], L[i][3]>>]
    OBVIOUS
  <2>3. ASSUME NEW i \in 1 .. n PROVE r[i] = s[i] /\ r[i] \in Entry
    <3>1. i \in 1 .. Len(held) /\ i \in 1 .. Len(L)
      BY <1>3, <1>4
    <3>2. held[i] \in LruKeys \X LruValues
      BY <1>3, <3>1 DEF Entry
    <3>3. held[i] = <<held[i][1], held[i][2]>>
      BY <3>2
    <3>4. L[i][2] = held[i][1] /\ L[i][3] = held[i][2]
      BY <1>2, <3>1 DEF Mirrors
    <3>5. r[i] = held[i]
      BY <2>2, <3>3, <3>4
    <3> QED BY <1>5, <2>1, <3>2, <3>5 DEF Entry
  <2>4. r \in Seq(Entry) /\ Len(r) = n
    <3>1. r \in [1 .. n -> Entry]
      BY <2>2, <2>3
    <3> QED BY ONLY <3>1, n \in Nat
  <2>5. r = s
    BY ONLY <1>5, <2>1, <2>3, <2>4, SeqEqual
  <2> QED BY <2>1, <2>2, <2>5
<1>7. ASSUME NEW key \in LruKeys
      PROVE  {m[key]} \ {0} = {L[i][1] : i \in Con!Cached(key)}
  <2>1. CASE m[key] = 0
    <3>1. Con!Cached(key) = {}
      BY <1>1, <2>1, LruMissed
    <3> QED BY <2>1, <3>1
  <2>2. CASE m[key] # 0
    <3>1. PICK i \in 1 .. Len(L) :
              /\ L[i][1] = m[key] /\ i \in 1 .. Len(held)
              /\ \A j \in 1 .. Len(held) : held[j][1] = key <=> j = i
      BY <1>2, <2>2, LruFound
    <3>2. i <= LruCap
      BY <1>2, <1>3
    <3>3. Con!Cached(key) = {i}
      BY <3>1, <3>2 DEF Con!Cached
    <3> QED BY <2>2, <3>1, <3>3
  <2> QED BY <2>1, <2>2
<1>8. [i \in 1 .. Len(obj.list) |-> <<obj.list[i][2], obj.list[i][3]>>]
          = SubSeq(held, 1, IF Len(held) < LruCap THEN Len(held) ELSE LruCap)
  <2>1. n = IF Len(held) < LruCap THEN Len(held) ELSE LruCap
    BY ONLY <1>2, <1>4
  <2> QED BY ONLY <1>1, <1>4, <1>6, <2>1
<1>9. \A key \in LruKeys : {obj.m[key]} \ {Con!Null} = {obj.list[i][1] : i \in Con!Cached(key)}
  BY ONLY <1>1, <1>7 DEF Con!Null
<1>10. obj.count = Len(obj.list) /\ ret[1] = ret[2]
  BY ONLY <1>1, <1>2
<1> QED BY ONLY <1>8, <1>9, <1>10, Zenon DEF Con!LruSound

-----------------------------------------------------------------------------
(* Union-find. *)

\* rt gives the root of every element; h falls along father up to the root.
Rooted(f, rt, h) ==
    /\ f \in [Con!Elements -> Con!Elements] /\ rt \in [Con!Elements -> Con!Elements]
    /\ h \in [Con!Elements -> Nat]
    /\ \A x \in Con!Elements : /\ rt[f[x]] = rt[x] /\ f[rt[x]] = rt[x]
                               /\ f[x] = x => rt[x] = x
                               /\ f[x] # x => h[f[x]] < h[x]

\* n steps along f from x exist.
Steps(f, x, n) == {a \in [0 .. n -> Con!Elements] :
                      a = [k \in 0 .. n |-> IF k = 0 THEN x ELSE f[a[k - 1]]]}

\* Every number of steps can be taken.
LEMMA StepsExist ==
    ASSUME NEW f \in [Con!Elements -> Con!Elements], NEW x \in Con!Elements, NEW n \in Nat
    PROVE  Steps(f, x, n) # {}
<1> DEFINE T == {m \in Nat : Steps(f, x, m) = {}}
<1> SUFFICES ASSUME T # {} PROVE FALSE
  OBVIOUS
<1>1. PICK m \in T : \A y \in T : m <= y
  <2>1. T \in SUBSET Nat
    OBVIOUS
  <2> HIDE DEF T
  <2> QED BY <2>1, Least
<1>2. m \in Nat /\ Steps(f, x, m) = {}
  OBVIOUS
<1>3. m # 0
  <2> SUFFICES ASSUME m = 0 PROVE FALSE
    OBVIOUS
  <2>1. PICK a : a = [k \in 0 .. 0 |-> x]
    OBVIOUS
  <2>2. a \in [0 .. 0 -> Con!Elements] /\ a = [k \in 0 .. 0 |-> IF k = 0 THEN x ELSE f[a[k - 1]]]
    <3>1. \A k \in 0 .. 0 : k = 0
      OBVIOUS
    <3> QED BY <2>1, <3>1
  <2> QED BY <1>2, <2>2 DEF Steps
<1>4. m - 1 \in Nat /\ m - 1 \notin T
  BY <1>1, <1>2, <1>3
<1>5. PICK a : a \in Steps(f, x, m - 1)
  BY <1>4
<1>6. /\ a \in [0 .. m - 1 -> Con!Elements]
      /\ \A k \in 0 .. m - 1 : a[k] = IF k = 0 THEN x ELSE f[a[k - 1]]
  BY <1>5 DEF Steps
<1>7. PICK b : b = [k \in 0 .. m |-> IF k = m THEN f[a[m - 1]] ELSE a[k]]
  OBVIOUS
<1>8. b \in [0 .. m -> Con!Elements]
  <2>1. \A k \in 0 .. m : k # m => k \in 0 .. m - 1
    BY <1>4
  <2>2. m - 1 \in 0 .. m - 1
    BY <1>4
  <2> QED BY <1>6, <1>7, <2>1, <2>2
<1>9. ASSUME NEW k \in 0 .. m PROVE b[k] = IF k = 0 THEN x ELSE f[b[k - 1]]
  <2>1. CASE k = m
    <3>1. k - 1 \in 0 .. m /\ k - 1 # m /\ k # 0
      BY <1>3, <1>4, <2>1
    <3> QED BY <1>7, <2>1, <3>1
  <2>2. CASE k # m
    <3>1. k \in 0 .. m - 1 /\ (k # 0 => k - 1 \in 0 .. m /\ k - 1 # m)
      BY <1>4, <2>2
    <3> QED BY <1>6, <1>7, <2>2, <3>1
  <2> QED BY <2>1, <2>2
<1>10. b = [k \in 0 .. m |-> IF k = 0 THEN x ELSE f[b[k - 1]]]
  <2>1. PICK c : c = [k \in 0 .. m |-> IF k = 0 THEN x ELSE f[b[k - 1]]]
    OBVIOUS
  <2>2. \A k \in 0 .. m : b[k] = c[k]
    BY <1>9, <2>1
  <2>3. DOMAIN b = 0 .. m /\ DOMAIN c = 0 .. m /\ b = [k \in 0 .. m |-> b[k]] /\ c = [k \in 0 .. m |-> c[k]]
    BY <1>8, <2>1
  <2>4. b = c
    BY ONLY <2>2, <2>3
  <2> QED BY <2>1, <2>4
<1> QED BY <1>2, <1>8, <1>10 DEF Steps

\* The path of find(): it starts at x and follows f.
LEMMA ClimbPath ==
    ASSUME DsuSize \in Nat, NEW f \in [Con!Elements -> Con!Elements], NEW x \in Con!Elements
    PROVE  /\ Con!Climb(f, x)[0] = x
           /\ \A k \in 1 .. DsuSize : Con!Climb(f, x)[k] = f[Con!Climb(f, x)[k - 1]]
<1>1. PICK a : a \in Steps(f, x, DsuSize)
  BY StepsExist
<1>2. a = [k \in 0 .. DsuSize |-> IF k = 0 THEN x ELSE f[a[k - 1]]]
  BY <1>1 DEF Steps
<1> DEFINE C == CHOOSE c : c = [k \in 0 .. DsuSize |-> IF k = 0 THEN x ELSE f[c[k - 1]]]
<1>3. C = [k \in 0 .. DsuSize |-> IF k = 0 THEN x ELSE f[C[k - 1]]]
  BY <1>2
<1>4. Con!Climb(f, x) = C
  BY DEF Con!Climb
<1> HIDE DEF C
<1>5. C[0] = x
  <2>1. 0 \in 0 .. DsuSize
    OBVIOUS
  <2> QED BY <1>3, <2>1
<1>6. \A k \in 1 .. DsuSize : C[k] = f[C[k - 1]]
  <2>1. \A k \in 1 .. DsuSize : k \in 0 .. DsuSize /\ k # 0
    OBVIOUS
  <2> QED BY <1>3, <2>1
<1> QED BY <1>4, <1>5, <1>6

\* The path stays among the elements with the root of x, and ends there.
LEMMA ClimbFinds ==
    ASSUME DsuSize \in Nat, NEW f, NEW rt, NEW h, Rooted(f, rt, h), NEW x \in Con!Elements
    PROVE  /\ Con!find(f, x) = rt[x]
           /\ \A k \in 0 .. DsuSize : Con!Climb(f, x)[k] \in Con!Elements /\ rt[Con!Climb(f, x)[k]] = rt[x]
<1>1. /\ f \in [Con!Elements -> Con!Elements] /\ rt \in [Con!Elements -> Con!Elements]
      /\ h \in [Con!Elements -> Nat]
      /\ \A y \in Con!Elements : /\ rt[f[y]] = rt[y] /\ f[rt[y]] = rt[y]
                                 /\ f[y] = y => rt[y] = y
                                 /\ f[y] # y => h[f[y]] < h[y]
  BY DEF Rooted
<1>2. PICK a : a = Con!Climb(f, x)
  OBVIOUS
<1>3. a[0] = x /\ \A k \in 1 .. DsuSize : a[k] = f[a[k - 1]]
  BY <1>1, <1>2, ClimbPath
<1> DEFINE Good(k) == /\ a[k] \in Con!Elements /\ rt[a[k]] = rt[x]
                      /\ f[a[k]] # a[k] => \A i \in 0 .. k - 1 : f[a[i]] # a[i] /\ h[a[k]] < h[a[i]]
           T == {k \in Nat : k <= DsuSize /\ ~ Good(k)}
<1>4. T = {}
  <2> SUFFICES ASSUME T # {} PROVE FALSE
    OBVIOUS
  <2>1. PICK m \in T : \A y \in T : m <= y
    <3>1. T \in SUBSET Nat
      OBVIOUS
    <3> HIDE DEF T
    <3> QED BY <3>1, Least
  <2>2. m \in Nat /\ m <= DsuSize /\ ~ Good(m)
    BY <2>1
  <2>3. m # 0
    <3>1. Good(0)
      BY <1>3
    <3> QED BY <2>2, <3>1
  <2>4. m - 1 \in Nat /\ m - 1 \notin T /\ m - 1 <= DsuSize /\ m \in 1 .. DsuSize
    BY <2>1, <2>2, <2>3
  <2>5. Good(m - 1)
    BY <2>4
  <2>6. a[m] = f[a[m - 1]]
    BY <1>3, <2>4
  <2>7. PICK y \in Con!Elements : y = a[m - 1] /\ rt[y] = rt[x]
    BY <2>5
  <2>8. a[m] \in Con!Elements /\ rt[a[m]] = rt[x]
    BY <1>1, <2>6, <2>7
  <2>9. ASSUME f[a[m]] # a[m], NEW i \in 0 .. m - 1 PROVE f[a[i]] # a[i] /\ h[a[m]] < h[a[i]]
    <3>1. f[y] # y
      BY <2>6, <2>7, <2>9
    <3>2. h[a[m]] < h[y] /\ h[a[m]] \in Nat /\ h[y] \in Nat
      BY <1>1, <2>6, <2>7, <2>8, <3>1
    <3>3. CASE i = m - 1
      BY <2>7, <3>1, <3>2, <3>3
    <3>4. CASE i # m - 1
      <4>1. i \in 0 .. (m - 1) - 1 /\ i \in Nat /\ i <= DsuSize /\ ~ (m <= i)
        BY <2>2, <2>4, <3>4
      <4>2. f[a[i]] # a[i] /\ h[y] < h[a[i]]
        BY <2>5, <2>7, <3>1, <4>1
      <4>3. a[i] \in Con!Elements
        <5>1. i \notin T
          BY <2>1, <4>1
        <5> QED BY <4>1, <5>1
      <4>4. h[a[i]] \in Nat
        BY <1>1, <4>3
      <4> QED BY <3>2, <4>2, <4>4
    <3> QED BY <3>3, <3>4
  <2>10. Good(m)
    BY <2>8, <2>9
  <2> QED BY <2>2, <2>10
<1>5. \A k \in 0 .. DsuSize : Good(k)
  BY <1>4
<1>6. ASSUME f[a[DsuSize]] # a[DsuSize] PROVE FALSE
  <2>1. \A k \in 0 .. DsuSize : a[k] \in Con!Elements /\ h[a[k]] \in Nat
    BY <1>1, <1>5
  <2>2. DsuSize \in 0 .. DsuSize
    OBVIOUS
  <2>3. \A i \in 0 .. DsuSize : f[a[i]] # a[i]
    <3> SUFFICES ASSUME NEW i \in 0 .. DsuSize PROVE f[a[i]] # a[i]
      OBVIOUS
    <3>1. i = DsuSize \/ i \in 0 .. DsuSize - 1
      OBVIOUS
    <3> QED BY <1>5, <1>6, <2>2, <3>1
  <2>4. ASSUME NEW i \in 0 .. DsuSize, NEW j \in 0 .. DsuSize, i < j PROVE a[i] # a[j]
    <3>1. i \in 0 .. j - 1
      BY <2>4
    <3>2. h[a[j]] < h[a[i]]
      BY <1>5, <2>3, <3>1
    <3> QED BY <2>1, <3>2
  <2>5. PICK g : g = [k \in 0 .. DsuSize |-> a[k]]
    OBVIOUS
  <2>6. g \in Injection(0 .. DsuSize, Con!Elements)
    <3>1. g \in [0 .. DsuSize -> Con!Elements]
      BY <2>1, <2>5
    <3>2. ASSUME NEW i \in 0 .. DsuSize, NEW j \in 0 .. DsuSize, g[i] = g[j] PROVE i = j
      <4>1. a[i] = a[j]
        BY <2>5, <3>2
      <4>2. i < j \/ j < i \/ i = j
        OBVIOUS
      <4> QED BY <2>4, <4>1, <4>2
    <3> QED BY <3>1, <3>2 DEF Injection, IsInjective
  <2>7. /\ IsFiniteSet(0 .. DsuSize) /\ Cardinality(0 .. DsuSize) = DsuSize + 1
        /\ IsFiniteSet(Con!Elements) /\ Cardinality(Con!Elements) = DsuSize
    <3>1. /\ IsFiniteSet(0 .. DsuSize)
          /\ Cardinality(0 .. DsuSize) = IF 0 > DsuSize THEN 0 ELSE DsuSize - 0 + 1
      BY ONLY FS_Interval, DsuSize \in Nat
    <3>2. /\ IsFiniteSet(0 .. DsuSize - 1)
          /\ Cardinality(0 .. DsuSize - 1) = IF 0 > DsuSize - 1 THEN 0 ELSE (DsuSize - 1) - 0 + 1
      BY ONLY FS_Interval, DsuSize \in Nat
    <3> QED BY <3>1, <3>2 DEF Con!Elements
  <2>8. Cardinality(0 .. DsuSize) <= Cardinality(Con!Elements)
    BY ONLY <2>6, <2>7, FS_Injection
  <2> QED BY <2>7, <2>8
<1>7. DsuSize \in 0 .. DsuSize
  OBVIOUS
<1>8. a[DsuSize] = rt[x]
  <2>1. a[DsuSize] \in Con!Elements /\ rt[a[DsuSize]] = rt[x]
    BY <1>5, <1>7
  <2> QED BY <1>1, <1>6, <2>1
<1> QED BY <1>2, <1>5, <1>8 DEF Con!find

\* Path compression keeps every root and the fall of h.
LEMMA Compresses ==
    ASSUME DsuSize \in Nat, NEW f, NEW rt, NEW h, Rooted(f, rt, h), NEW x \in Con!Elements
    PROVE  Rooted(Con!findRoot(f, x), rt, h)
<1>1. /\ f \in [Con!Elements -> Con!Elements] /\ rt \in [Con!Elements -> Con!Elements]
      /\ h \in [Con!Elements -> Nat]
      /\ \A y \in Con!Elements : /\ rt[f[y]] = rt[y] /\ f[rt[y]] = rt[y]
                                 /\ f[y] = y => rt[y] = y
                                 /\ f[y] # y => h[f[y]] < h[y]
  BY DEF Rooted
<1> DEFINE path == {Con!Climb(f, x)[k] : k \in 0 .. DsuSize}
<1>2. path \subseteq Con!Elements /\ \A i \in path : rt[i] = rt[x]
  BY ClimbFinds
<1>3. PICK g : g = [i \in Con!Elements |-> IF i \in path THEN rt[x] ELSE f[i]]
  OBVIOUS
<1>4. Con!findRoot(f, x) = g
  <2>1. Con!find(f, x) = rt[x]
    BY ClimbFinds
  <2> QED BY <1>3, <2>1 DEF Con!findRoot
<1> HIDE DEF path
<1>5. g \in [Con!Elements -> Con!Elements] /\ \A i \in Con!Elements : g[i] = f[i] \/ (g[i] = rt[x] /\ rt[i] = rt[x])
  BY <1>1, <1>2, <1>3
<1>6. ASSUME NEW y \in Con!Elements
      PROVE  h[rt[y]] <= h[y] /\ (rt[y] # y => h[rt[y]] < h[y])
  <2> DEFINE T == {n \in Nat : \E z \in Con!Elements : h[z] = n /\ rt[z] # z /\ ~ (h[rt[z]] < h[z])}
  <2>1. T = {}
    <3> SUFFICES ASSUME T # {} PROVE FALSE
      OBVIOUS
    <3>1. PICK n \in T : \A m \in T : n <= m
      <4>1. T \in SUBSET Nat
        OBVIOUS
      <4> HIDE DEF T
      <4> QED BY <4>1, Least
    <3>2. PICK z \in Con!Elements : h[z] = n /\ rt[z] # z /\ ~ (h[rt[z]] < h[z])
      BY <3>1
    <3>3. f[z] # z /\ h[f[z]] < h[z] /\ f[z] \in Con!Elements /\ rt[f[z]] = rt[z]
      BY <1>1, <3>2
    <3>4. h[f[z]] \in Nat /\ h[z] \in Nat /\ h[rt[z]] \in Nat
      BY <1>1, <3>3
    <3>5. f[z] # rt[z]
      BY <3>2, <3>3
    <3>6. ~ (h[rt[f[z]]] < h[f[z]])
      BY <3>2, <3>3, <3>4
    <3>7. h[f[z]] \in T
      BY <3>3, <3>4, <3>5, <3>6
    <3>8. n <= h[f[z]]
      BY <3>1, <3>7
    <3> QED BY <3>2, <3>3, <3>4, <3>8
  <2>2. h[y] \in Nat
    BY <1>1
  <2>3. rt[y] # y => h[rt[y]] < h[y]
    BY <2>1, <2>2
  <2>4. h[rt[y]] \in Nat
    BY <1>1
  <2> QED BY <2>2, <2>3, <2>4
<1>7. ASSUME NEW y \in Con!Elements
      PROVE  /\ rt[g[y]] = rt[y] /\ g[rt[y]] = rt[y]
             /\ g[y] = y => rt[y] = y
             /\ g[y] # y => h[g[y]] < h[y]
  <2>1. rt[x] \in Con!Elements /\ rt[y] \in Con!Elements /\ rt[rt[x]] = rt[x] /\ rt[rt[y]] = rt[y]
    BY <1>1
  <2>2. rt[g[y]] = rt[y]
    BY <1>1, <1>5, <2>1
  <2>3. g[rt[y]] = rt[y]
    BY <1>1, <1>5, <2>1
  <2>4. g[y] = y => rt[y] = y
    BY <1>1, <1>5, <2>1
  <2>5. g[y] # y => h[g[y]] < h[y]
    <3>1. CASE g[y] = f[y]
      BY <1>1, <3>1
    <3>2. CASE g[y] = rt[x] /\ rt[y] = rt[x]
      BY <1>6, <3>2
    <3> QED BY <1>5, <3>1, <3>2
  <2> QED BY <2>2, <2>3, <2>4, <2>5
<1>8. Rooted(g, rt, h)
  BY ONLY <1>1, <1>5, <1>7 DEF Rooted
<1> QED BY <1>4, <1>8

\* The roots when a root a is hung below the root b.
Hung(rt, a, b) == [z \in Con!Elements |-> IF rt[z] = a THEN b ELSE rt[z]]

\* Hanging one root under another gives a forest again.
LEMMA Hangs ==
    ASSUME NEW f, NEW rt, NEW h, Rooted(f, rt, h), NEW x \in Con!Elements, NEW y \in Con!Elements,
           NEW a, a = rt[x], NEW b, b = rt[y]
    PROVE  \E k : Rooted([f EXCEPT ![a] = b], Hung(rt, a, b), k)
<1>1. /\ f \in [Con!Elements -> Con!Elements] /\ rt \in [Con!Elements -> Con!Elements]
      /\ h \in [Con!Elements -> Nat]
      /\ \A z \in Con!Elements : /\ rt[f[z]] = rt[z] /\ f[rt[z]] = rt[z]
                                 /\ f[z] = z => rt[z] = z
                                 /\ f[z] # z => h[f[z]] < h[z]
  BY DEF Rooted
<1>2. a \in Con!Elements /\ b \in Con!Elements /\ f[a] = a /\ f[b] = b /\ rt[a] = a /\ rt[b] = b
  BY <1>1
<1>3. PICK g, r : g = [f EXCEPT ![a] = b] /\ r = Hung(rt, a, b)
  OBVIOUS
<1>4. /\ g \in [Con!Elements -> Con!Elements] /\ r \in [Con!Elements -> Con!Elements]
      /\ g[a] = b /\ (\A z \in Con!Elements : z # a => g[z] = f[z])
      /\ \A z \in Con!Elements : r[z] = IF rt[z] = a THEN b ELSE rt[z]
  BY <1>1, <1>2, <1>3 DEF Hung
<1>5. CASE a = b
  <2>1. \A z \in Con!Elements : g[z] = f[z] /\ r[z] = rt[z]
    BY <1>2, <1>4, <1>5
  <2>2. g = f /\ r = rt
    BY ONLY <1>1, <1>4, <2>1
  <2> QED BY <1>3, <2>2
<1>6. CASE a # b
  <2>1. PICK k : k = [z \in Con!Elements |-> IF rt[z] = a THEN h[z] + h[b] + 1 ELSE h[z]]
    OBVIOUS
  <2>2. k \in [Con!Elements -> Nat]
        /\ \A z \in Con!Elements : k[z] = IF rt[z] = a THEN h[z] + h[b] + 1 ELSE h[z]
    BY <1>1, <1>2, <2>1
  <2>3. ASSUME NEW z \in Con!Elements
        PROVE  /\ r[g[z]] = r[z] /\ g[r[z]] = r[z]
               /\ g[z] = z => r[z] = z
               /\ g[z] # z => k[g[z]] < k[z]
    <3>1. f[z] \in Con!Elements /\ rt[z] \in Con!Elements /\ h[z] \in Nat /\ h[b] \in Nat /\ h[f[z]] \in Nat
      BY <1>1, <1>2
    <3>2. CASE z = a
      <4>1. r[z] = b /\ g[z] = b /\ r[b] = b /\ g[b] = b
        BY <1>2, <1>4, <1>6, <3>2
      <4>2. k[b] = h[b] /\ k[z] = h[z] + h[b] + 1
        BY <1>2, <1>6, <2>2, <3>2
      <4> QED BY <1>6, <3>1, <3>2, <4>1, <4>2
    <3>3. CASE z # a
      <4>1. g[z] = f[z] /\ rt[f[z]] = rt[z]
        BY <1>1, <1>4, <3>3
      <4>2. r[g[z]] = r[z]
        BY <1>4, <3>1, <4>1
      <4>3. g[r[z]] = r[z]
        <5>1. CASE rt[z] = a
          BY <1>2, <1>4, <1>6, <5>1
        <5>2. CASE rt[z] # a
          BY <1>1, <1>4, <3>1, <5>2
        <5> QED BY <5>1, <5>2
      <4>4. g[z] = z => r[z] = z
        BY <1>1, <1>4, <3>3, <4>1
      <4>5. ASSUME g[z] # z PROVE k[g[z]] < k[z]
        <5>1. h[f[z]] < h[z]
          BY <1>1, <4>1, <4>5
        <5>2. k[f[z]] = IF rt[z] = a THEN h[f[z]] + h[b] + 1 ELSE h[f[z]]
          BY <2>2, <3>1, <4>1
        <5>3. k[z] = IF rt[z] = a THEN h[z] + h[b] + 1 ELSE h[z]
          BY <2>2
        <5> QED BY ONLY <3>1, <4>1, <5>1, <5>2, <5>3
      <4> QED BY <4>2, <4>3, <4>4, <4>5
    <3> QED BY <3>2, <3>3
  <2>4. Rooted(g, r, k)
    BY ONLY <1>4, <2>2, <2>3 DEF Rooted
  <2> QED BY <1>3, <2>4
<1> QED BY <1>5, <1>6

\* The classes of the elements with one root.
ClassOf(rt, x) == {z \in Con!Elements : rt[z] = rt[x]}
Classes(rt) == {ClassOf(rt, x) : x \in Con!Elements}

\* The class the partition has for an element.
LEMMA ClassIs ==
    ASSUME NEW rt, held = Classes(rt), NEW x \in Con!Elements
    PROVE  Con!Class(x) = ClassOf(rt, x)
<1>1. ClassOf(rt, x) \in held /\ x \in ClassOf(rt, x)
  BY DEF Classes, ClassOf
<1>2. ASSUME NEW C \in held, x \in C PROVE C = ClassOf(rt, x)
  <2>1. PICK z \in Con!Elements : C = ClassOf(rt, z)
    BY <1>2 DEF Classes
  <2> QED BY <1>2, <2>1 DEF ClassOf
<1> QED BY <1>1, <1>2 DEF Con!Class

\* Merging two classes is hanging one root below the other.
LEMMA Merges ==
    ASSUME NEW rt \in [Con!Elements -> Con!Elements], held = Classes(rt),
           \A z \in Con!Elements : rt[rt[z]] = rt[z],
           NEW x \in Con!Elements, NEW y \in Con!Elements
    PROVE  Con!Merge(x, y) = Classes(Hung(rt, rt[x], rt[y]))
<1>1. PICK a, b, r : a = rt[x] /\ b = rt[y] /\ r = Hung(rt, a, b)
  OBVIOUS
<1>2. a \in Con!Elements /\ b \in Con!Elements /\ rt[a] = a /\ rt[b] = b
      /\ \A z \in Con!Elements : r[z] = IF rt[z] = a THEN b ELSE rt[z]
  BY <1>1 DEF Hung
<1>3. PICK A, B : A = ClassOf(rt, x) /\ B = ClassOf(rt, y)
  OBVIOUS
<1>4. Con!Merge(x, y) = (Classes(rt) \ {A, B}) \cup {A \cup B}
  <2>1. Con!Class(x) = A /\ Con!Class(y) = B
    BY <1>3, ClassIs
  <2> QED BY <2>1 DEF Con!Merge
<1>5. A = {z \in Con!Elements : rt[z] = a} /\ B = {z \in Con!Elements : rt[z] = b}
  BY <1>1, <1>3 DEF ClassOf
<1>6. \A z \in Con!Elements : z \in A \cup B => ClassOf(r, z) = A \cup B
  BY <1>2, <1>5 DEF ClassOf
<1>7. \A z \in Con!Elements : z \notin A \cup B => ClassOf(r, z) = ClassOf(rt, z)
  BY <1>2, <1>5 DEF ClassOf
<1>8. \A z \in Con!Elements : ClassOf(rt, z) \in {A, B} <=> z \in A \cup B
  BY <1>1, <1>3, <1>5 DEF ClassOf
<1>9. x \in A \cup B
  BY <1>1, <1>5
<1>10. ASSUME NEW C, C \in Classes(r) PROVE C \in (Classes(rt) \ {A, B}) \cup {A \cup B}
  <2>1. PICK z \in Con!Elements : C = ClassOf(r, z)
    BY <1>10 DEF Classes
  <2>2. CASE z \in A \cup B
    BY <1>6, <2>1, <2>2
  <2>3. CASE z \notin A \cup B
    <3>1. C = ClassOf(rt, z) /\ C \in Classes(rt)
      BY <1>7, <2>1, <2>3 DEF Classes
    <3> QED BY <1>8, <2>3, <3>1
  <2> QED BY <2>2, <2>3
<1>11. ASSUME NEW C, C \in (Classes(rt) \ {A, B}) \cup {A \cup B} PROVE C \in Classes(r)
  <2>1. CASE C = A \cup B
    <3>1. ClassOf(r, x) = C
      BY <1>6, <1>9, <2>1
    <3> QED BY <3>1 DEF Classes
  <2>2. CASE C \in Classes(rt) /\ C \notin {A, B}
    <3>1. PICK z \in Con!Elements : C = ClassOf(rt, z)
      BY <2>2 DEF Classes
    <3>2. z \notin A \cup B
      BY <1>8, <2>2, <3>1
    <3>3. ClassOf(r, z) = C
      BY <1>7, <3>1, <3>2
    <3> QED BY <3>3 DEF Classes
  <2> QED BY <1>11, <2>1, <2>2
<1>12. Classes(r) = (Classes(rt) \ {A, B}) \cup {A \cup B}
  BY ONLY <1>10, <1>11
<1> QED BY <1>1, <1>4, <1>12

\* The forest has roots, and the partition is that of its trees.
DsuInv ==
    /\ obj = [father |-> obj.father, compress |-> obj.compress]
    /\ \E rt, h : Rooted(obj.father, rt, h) /\ held = Classes(rt)
    /\ ret[1] = ret[2]

\* The first states of union-find have the invariant.
LEMMA DsuInits == DsuSize \in Nat /\ Con!DsuInit => DsuInv
<1> SUFFICES ASSUME DsuSize \in Nat, Con!DsuInit PROVE DsuInv
  OBVIOUS
<1>1. /\ obj \in [father : {[i \in Con!Elements |-> i]}, compress : BOOLEAN]
      /\ held = {{i} : i \in Con!Elements} /\ ret = <<FALSE, FALSE>>
  BY DEF Con!DsuInit
<1>2. obj = [father |-> obj.father, compress |-> obj.compress] /\ obj.father = [i \in Con!Elements |-> i]
  BY <1>1
<1>3. PICK f, h : f = [i \in Con!Elements |-> i] /\ h = [i \in Con!Elements |-> 0]
  OBVIOUS
<1>4. Rooted(f, f, h)
  <2>1. /\ f \in [Con!Elements -> Con!Elements] /\ h \in [Con!Elements -> Nat]
        /\ \A x \in Con!Elements : f[x] = x
    BY <1>3
  <2> QED BY ONLY <2>1 DEF Rooted
<1>5. Classes(f) = {{i} : i \in Con!Elements}
  <2>1. \A x \in Con!Elements : ClassOf(f, x) = {x}
    BY <1>3 DEF ClassOf
  <2> QED BY <2>1 DEF Classes
<1>6. ret[1] = ret[2]
  BY <1>1
<1> QED BY <1>1, <1>2, <1>3, <1>4, <1>5, <1>6 DEF DsuInv

\* The calls of union-find keep it.
LEMMA DsuSteps == DsuInv /\ DsuSize \in Nat /\ Con!DsuNext => DsuInv'
<1> SUFFICES ASSUME DsuInv, DsuSize \in Nat, NEW x \in Con!Elements, NEW y \in Con!Elements,
                    Con!Union(x, y) \/ Con!join(x, y) \/ Con!Joined(x, y)
             PROVE  DsuInv'
  BY DEF Con!DsuNext
<1>1. PICK f, c : obj = [father |-> f, compress |-> c] /\ obj.father = f
  BY DEF DsuInv
<1>2. PICK rt, h : Rooted(f, rt, h) /\ held = Classes(rt)
  BY <1>1 DEF DsuInv
<1>3. rt \in [Con!Elements -> Con!Elements] /\ \A z \in Con!Elements : rt[rt[z]] = rt[z]
  BY <1>2 DEF Rooted
<1>4. Con!find(f, x) = rt[x] /\ Con!find(f, y) = rt[y]
  BY <1>2, ClimbFinds
<1>5. PICK g : g = Con!findRoot(Con!findRoot(f, x), y)
  OBVIOUS
<1>6. Rooted(g, rt, h)
  BY <1>2, <1>5, Compresses
<1>7. ASSUME NEW k, NEW r, NEW d, obj' = [father |-> k, compress |-> d],
             \E l : Rooted(k, r, l), held' = Classes(r), ret'[1] = ret'[2]
      PROVE  DsuInv'
  <2>1. obj'.father = k /\ obj'.compress = d
    BY <1>7
  <2> QED BY <1>7, <2>1 DEF DsuInv
<1>8. PICK r : r = Hung(rt, rt[x], rt[y])
  OBVIOUS
<1>9. Con!Merge(x, y) = Classes(r)
  BY <1>2, <1>3, <1>8, Merges
<1>10. ret[1] = ret[2]
  BY DEF DsuInv
<1>11. ASSUME Con!Union(x, y) PROVE DsuInv'
  <2>1. obj' = [obj EXCEPT !.father = [g EXCEPT ![rt[x]] = rt[y]]] /\ held' = Con!Merge(x, y) /\ ret' = ret
    BY <1>1, <1>4, <1>5, <1>11 DEF Con!Union
  <2>2. obj' = [father |-> [g EXCEPT ![rt[x]] = rt[y]], compress |-> c]
    BY <1>1, <2>1
  <2>3. \E l : Rooted([g EXCEPT ![rt[x]] = rt[y]], r, l)
    BY <1>6, <1>8, Hangs
  <2> QED BY <1>7, <1>9, <1>10, <2>1, <2>2, <2>3
<1>12. ASSUME Con!join(x, y) PROVE DsuInv'
  <2>1. obj' = [obj EXCEPT !.father[rt[x]] = rt[y]] /\ held' = Con!Merge(x, y) /\ ret' = ret
    BY <1>1, <1>4, <1>12 DEF Con!join
  <2>2. obj' = [father |-> [f EXCEPT ![rt[x]] = rt[y]], compress |-> c]
    BY <1>1, <2>1
  <2>3. \E l : Rooted([f EXCEPT ![rt[x]] = rt[y]], r, l)
    BY <1>2, <1>8, Hangs
  <2> QED BY <1>7, <1>9, <1>10, <2>1, <2>2, <2>3
<1>13. ASSUME Con!Joined(x, y) PROVE DsuInv'
  <2>1. /\ ret' = <<rt[x] = rt[y], y \in Con!Class(x)>>
        /\ obj' = (IF obj.compress THEN [obj EXCEPT !.father = g] ELSE obj) /\ held' = held
    BY <1>1, <1>4, <1>5, <1>13 DEF Con!Joined
  <2>2. Con!Class(x) = ClassOf(rt, x)
    BY <1>2, ClassIs
  <2>3. (y \in ClassOf(rt, x)) = (rt[x] = rt[y])
    BY DEF ClassOf
  <2>4. ret'[1] = ret'[2]
    BY <2>1, <2>2, <2>3
  <2>5. obj' = [father |-> g, compress |-> c] \/ obj' = [father |-> f, compress |-> c]
    BY <1>1, <2>1
  <2> QED BY <1>2, <1>6, <1>7, <2>1, <2>4, <2>5
<1> QED BY <1>11, <1>12, <1>13

\* It implies the property of union-find.
LEMMA DsuIsSound == DsuInv /\ DsuSize \in Nat => Con!DsuSound
<1> SUFFICES ASSUME DsuInv, DsuSize \in Nat PROVE Con!DsuSound
  OBVIOUS
<1>1. PICK f : obj.father = f
  OBVIOUS
<1>2. PICK rt, h : Rooted(f, rt, h) /\ held = Classes(rt)
  BY <1>1 DEF DsuInv
<1>3. /\ rt \in [Con!Elements -> Con!Elements]
      /\ \A z \in Con!Elements : rt[rt[z]] = rt[z] /\ f[rt[z]] = rt[z]
  BY <1>2 DEF Rooted
<1>4. \A x \in Con!Elements : Con!find(f, x) = rt[x]
  BY <1>2, ClimbFinds
<1>5. \A x \in Con!Elements : LET r == Con!find(f, x) IN f[r] = r
  BY <1>3, <1>4
<1>6. \A x, y \in Con!Elements : Con!find(f, x) = Con!find(f, y) <=> y \in Con!Class(x)
  <2> SUFFICES ASSUME NEW x \in Con!Elements, NEW y \in Con!Elements
               PROVE  Con!find(f, x) = Con!find(f, y) <=> y \in Con!Class(x)
    OBVIOUS
  <2>1. Con!Class(x) = ClassOf(rt, x)
    BY <1>2, ClassIs
  <2>2. y \in ClassOf(rt, x) <=> rt[x] = rt[y]
    BY DEF ClassOf
  <2> QED BY <1>4, <2>1, <2>2
<1> DEFINE roots == {rt[i] : i \in Con!Elements}
           F == [r \in roots |-> ClassOf(rt, r)]
<1>7. Con!Provinces = Con!Cardinality(roots)
  <2>1. {Con!find(obj.father, i) : i \in Con!Elements} = roots
    BY <1>1, <1>4
  <2> QED BY <2>1 DEF Con!Provinces
<1>8. \A r \in roots : r \in Con!Elements /\ rt[r] = r
  BY <1>3
<1>9. F \in Bijection(roots, held)
  <2>1. F \in [roots -> held]
    BY <1>2, <1>8 DEF Classes
  <2>2. ASSUME NEW a \in roots, NEW b \in roots, F[a] = F[b] PROVE a = b
    <3>1. ClassOf(rt, a) = ClassOf(rt, b)
      BY <2>2
    <3>2. a \in ClassOf(rt, a)
      BY <1>8 DEF ClassOf
    <3> QED BY <1>8, <3>1, <3>2 DEF ClassOf
  <2>3. ASSUME NEW C \in held PROVE \E a \in roots : F[a] = C
    <3>1. PICK x \in Con!Elements : C = ClassOf(rt, x)
      BY <1>2 DEF Classes
    <3>2. rt[x] \in roots /\ ClassOf(rt, rt[x]) = C
      BY <1>3, <3>1 DEF ClassOf
    <3> QED BY <3>2
  <2> HIDE DEF F, roots
  <2> QED BY ONLY <2>1, <2>2, <2>3 DEF Bijection, Injection, IsInjective, Surjection
<1>10. IsFiniteSet(roots)
  <2>1. IsFiniteSet(Con!Elements)
    BY FS_Interval DEF Con!Elements
  <2>2. roots \in SUBSET Con!Elements
    BY <1>8
  <2> HIDE DEF roots
  <2> QED BY ONLY <2>1, <2>2, FS_Subset
<1>11. Cardinality(roots) = Cardinality(held)
  <2> HIDE DEF F, roots
  <2>1. ExistsBijection(roots, held)
    BY <1>9 DEF ExistsBijection
  <2> QED BY ONLY <1>10, <2>1, FS_Bijection
<1>12. Con!Provinces = Con!Cardinality(held)
  BY <1>7, <1>11, SameCount
<1>13. ret[1] = ret[2]
  BY DEF DsuInv
<1> QED BY <1>1, <1>5, <1>6, <1>12, <1>13 DEF Con!DsuSound

-----------------------------------------------------------------------------
(* Pointers that count. *)

\* Every counter of a living object is the number of its pointers.
SmartInv ==
    /\ obj \in [intrusive : BOOLEAN, ptr : [Handles -> Pointees \cup {-1, 0}], cnt : [Pointees -> Nat]]
    /\ held \subseteq Pointees /\ ret = {}
    /\ \A p \in Pointees : /\ p \in held => obj.cnt[p] = Number(Handles, obj.ptr, p)
                           /\ p \in held <=> Number(Handles, obj.ptr, p) # 0

\* The first states of the counting pointers have the invariant.
LEMMA SmartInits == Own!SmartInit => SmartInv
<1> SUFFICES ASSUME Own!SmartInit PROVE SmartInv
  OBVIOUS
<1>1. /\ obj \in [intrusive : BOOLEAN, ptr : [Handles -> Pointees \cup {-1, 0}], cnt : [Pointees -> Nat]]
      /\ obj.ptr = [h \in Handles |-> -1] /\ held = {} /\ ret = {}
  BY DEF Own!SmartInit, Own!SmartNone
<1>2. ASSUME NEW p \in Pointees PROVE Number(Handles, obj.ptr, p) = 0
  <2>1. \A h \in Handles : obj.ptr[h] # p
    BY <1>1, SequentialAssumption
  <2> QED BY <2>1, NoneRefers, SequentialAssumption
<1> QED BY <1>1, <1>2 DEF SmartInv

\* What a step of the counters does, when it moves variable h from old to new.
LEMMA SmartMoves ==
    ASSUME SmartInv, NEW h \in Handles, NEW new \in Pointees \cup {-1, 0}, NEW c \in [Pointees -> Int],
           new \in Pointees \ held => c[new] = 1,
           new # obj.ptr[h],
           obj' = [obj EXCEPT !.ptr[h] = new, !.cnt = c],
           \A p \in held : c[p] = obj.cnt[p] + (IF p = new THEN 1 ELSE IF p = obj.ptr[h] THEN -1 ELSE 0),
           \A p \in Pointees \ held : p # new => c[p] = obj.cnt[p],
           held' = (held \cup ({new} \ {-1, 0})) \
                       (IF obj.ptr[h] \in Pointees /\ c[obj.ptr[h]] = 0 THEN {obj.ptr[h]} ELSE {}),
           ret' = {}
    PROVE  SmartInv'
<1> DEFINE old == obj.ptr[h]
<1>1. /\ old \in Pointees \cup {-1, 0} /\ obj.ptr \in [Handles -> Pointees \cup {-1, 0}] /\ held \subseteq Pointees
      /\ obj' = [intrusive |-> obj.intrusive, ptr |-> [obj.ptr EXCEPT ![h] = new], cnt |-> c]
      /\ obj.intrusive \in BOOLEAN /\ obj.cnt \in [Pointees -> Nat]
  BY DEF SmartInv
<1>2. obj'.ptr = [x \in Handles |-> IF x = h THEN new ELSE obj.ptr[x]] /\ obj'.cnt = c
      /\ obj'.ptr \in [Handles -> Pointees \cup {-1, 0}] /\ obj'.intrusive \in BOOLEAN
  BY <1>1
<1> DEFINE N(p) == Number(Handles, obj.ptr, p)
           M(p) == Number(Handles, obj'.ptr, p)
<1> HIDE DEF N, M
<1>3. /\ \A p : N(p) \in Nat /\ M(p) \in Nat
      /\ M(new) = N(new) + 1 /\ N(old) = M(old) + 1
      /\ \A p : p # new /\ p # old => M(p) = N(p)
  <2>1. IsFiniteSet(Handles)
    BY SequentialAssumption
  <2> QED BY <1>2, <2>1, Repoint DEF N, M
<1>4. \A p \in Pointees : (p \in held => obj.cnt[p] = N(p)) /\ (p \in held <=> N(p) # 0)
  BY DEF SmartInv, N
<1>5. old \in Pointees => old \in held
  BY <1>3, <1>4
<1>6. -1 \notin Pointees /\ 0 \notin Pointees
  BY SequentialAssumption
<1>7. ASSUME NEW p \in Pointees
      PROVE  c[p] \in Nat /\ (p \in held' => c[p] = M(p)) /\ (p \in held' <=> M(p) # 0)
  <2>1. CASE p = new
    <3>1. p \in held'
      BY <1>6, <2>1
    <3>2. CASE p \in held
      BY <1>1, <1>3, <1>4, <2>1, <3>1, <3>2
    <3>3. CASE p \notin held
      <4>1. c[p] = 1 /\ N(p) = 0
        BY <1>4, <2>1, <3>3
      <4> QED BY <1>3, <2>1, <3>1, <4>1
    <3> QED BY <3>2, <3>3
  <2>2. CASE p = old
    <3>1. c[p] = obj.cnt[p] - 1 /\ obj.cnt[p] = N(p) /\ p # new
      BY <1>1, <1>4, <1>5, <2>2
    <3>2. c[p] = M(p)
      BY <1>3, <2>2, <3>1
    <3>3. p \in held' <=> c[p] # 0
      BY <1>5, <2>2, <3>1
    <3> QED BY <1>3, <3>2, <3>3
  <2>3. CASE p # new /\ p # old
    <3>1. c[p] = obj.cnt[p] /\ M(p) = N(p) /\ (p \in held' <=> p \in held)
      BY <1>1, <1>3, <2>3
    <3> QED BY <1>1, <1>4, <3>1
  <2> QED BY <2>1, <2>2, <2>3
<1>8. c \in [Pointees -> Nat] /\ held' \subseteq Pointees
  BY <1>1, <1>7
<1>9. obj' \in [intrusive : BOOLEAN, ptr : [Handles -> Pointees \cup {-1, 0}], cnt : [Pointees -> Nat]]
  BY <1>1, <1>2, <1>8
<1> QED BY <1>2, <1>7, <1>8, <1>9 DEF SmartInv, M

\* The calls of the counting pointers keep it.
LEMMA SmartSteps == SmartInv /\ Own!SmartNext => SmartInv'
<1> SUFFICES ASSUME SmartInv, Own!SmartNext PROVE SmartInv'
  OBVIOUS
<1> DEFINE N(p) == Number(Handles, obj.ptr, p)
<1> HIDE DEF N
<1> USE DEF Own!SmartNone, Own!NULL
<1>1. -1 \notin Pointees /\ 0 \notin Pointees
  BY SequentialAssumption
<1>2. /\ obj.ptr \in [Handles -> Pointees \cup {-1, 0}] /\ held \subseteq Pointees
      /\ obj.cnt \in [Pointees -> Nat] /\ obj.intrusive \in BOOLEAN /\ ret = {}
      /\ \A p \in Pointees : (p \in held => obj.cnt[p] = N(p)) /\ (p \in held <=> N(p) # 0)
      /\ obj \in [intrusive : BOOLEAN, ptr : [Handles -> Pointees \cup {-1, 0}], cnt : [Pointees -> Nat]]
  BY DEF SmartInv, N
<1>3. \A x \in Handles : obj.ptr[x] \in Pointees => obj.ptr[x] \in held
  <2> SUFFICES ASSUME NEW x \in Handles, obj.ptr[x] \in Pointees PROVE obj.ptr[x] \in held
    OBVIOUS
  <2>1. N(obj.ptr[x]) # 0
    BY NoneRefers, SequentialAssumption DEF N
  <2> QED BY <1>2, <2>1
<1>4. ASSUME NEW h \in Handles, NEW o \in Pointees, Own!Construct(h, o) PROVE SmartInv'
  <2> DEFINE c == [obj.cnt EXCEPT ![o] = 1]
  <2>1. /\ obj.ptr[h] = -1 /\ o \notin held /\ held' = held \cup {o} /\ ret' = {}
        /\ obj' = [obj EXCEPT !.ptr[h] = o, !.cnt = c]
    BY <1>2, <1>4 DEF Own!Construct
  <2>2. c \in [Pointees -> Int] /\ c[o] = 1 /\ \A p \in Pointees \ {o} : c[p] = obj.cnt[p]
    BY <1>2
  <2> HIDE DEF c
  <2>3. \A p \in held : c[p] = obj.cnt[p] + (IF p = o THEN 1 ELSE IF p = obj.ptr[h] THEN -1 ELSE 0)
    BY <1>1, <1>2, <2>1, <2>2
  <2>4. \A p \in Pointees \ held : p # o => c[p] = obj.cnt[p]
    BY <2>2
  <2>5. held' = (held \cup ({o} \ {-1, 0})) \
                    (IF obj.ptr[h] \in Pointees /\ c[obj.ptr[h]] = 0 THEN {obj.ptr[h]} ELSE {})
    BY <1>1, <2>1
  <2>6. o # obj.ptr[h]
    BY <1>1, <2>1
  <2>7. o \in Pointees \cup {-1, 0} /\ (o \in Pointees \ held => c[o] = 1)
    BY <2>2
  <2>8. obj' = [obj EXCEPT !.ptr[h] = o, !.cnt = c] /\ ret' = {}
    BY <2>1
  <2> QED BY <2>2, <2>3, <2>4, <2>5, <2>6, <2>7, <2>8, SmartMoves
<1>5. ASSUME NEW h \in Handles, NEW o \in held \cup {0}, obj.ptr[h] = -1,
             obj' = [obj EXCEPT !.ptr[h] = o, !.cnt = Own!Inc(o)], held' = held, ret' = ret
      PROVE  SmartInv'
  <2> DEFINE c == IF o = 0 THEN obj.cnt ELSE [obj.cnt EXCEPT ![o] = @ + 1]
  <2>1. obj' = [obj EXCEPT !.ptr[h] = o, !.cnt = c] /\ ret' = {}
    BY <1>2, <1>5 DEF Own!Inc
  <2>2. c \in [Pointees -> Int]
    BY <1>2
  <2>3. \A p \in Pointees : c[p] = obj.cnt[p] + (IF p = o THEN 1 ELSE 0)
    BY <1>1, <1>2
  <2> HIDE DEF c
  <2>4. \A p \in held : c[p] = obj.cnt[p] + (IF p = o THEN 1 ELSE IF p = obj.ptr[h] THEN -1 ELSE 0)
    BY <1>1, <1>2, <1>5, <2>3
  <2>5. \A p \in Pointees \ held : p # o => c[p] = obj.cnt[p]
    BY <1>2, <2>3
  <2>6. held' = (held \cup ({o} \ {-1, 0})) \
                    (IF obj.ptr[h] \in Pointees /\ c[obj.ptr[h]] = 0 THEN {obj.ptr[h]} ELSE {})
    BY <1>1, <1>2, <1>5
  <2>7. o # obj.ptr[h] /\ o \in Pointees \cup {-1, 0} /\ (o \in Pointees \ held => c[o] = 1)
    BY <1>1, <1>2, <1>5
  <2> QED BY <2>1, <2>2, <2>4, <2>5, <2>6, <2>7, SmartMoves
<1>6. ASSUME NEW h \in Handles, NEW o \in Pointees \cup {0}, Own!FromRaw(h, o) PROVE SmartInv'
  <2>1. /\ o \in held \cup {0} /\ obj.ptr[h] = -1 /\ held' = held /\ ret' = ret
        /\ obj' = [obj EXCEPT !.ptr[h] = o, !.cnt = Own!Inc(o)]
    BY <1>6 DEF Own!FromRaw
  <2> QED BY <1>5, <2>1
<1>7. ASSUME NEW h \in Handles, NEW g \in Handles, Own!Copy(h, g) PROVE SmartInv'
  <2>1. /\ obj.ptr[h] = -1 /\ obj.ptr[g] # -1 /\ held' = held /\ ret' = ret
        /\ obj' = [obj EXCEPT !.ptr[h] = obj.ptr[g], !.cnt = Own!Inc(obj.ptr[g])]
    BY <1>7 DEF Own!Copy
  <2>2. obj.ptr[g] \in held \cup {0}
    BY <1>2, <1>3, <2>1
  <2> QED BY <1>5, <2>1, <2>2
<1>8. ASSUME NEW c \in [Pointees -> Int], NEW o \in Pointees \cup {0}, Own!Gone(c, o),
             o \in Pointees => o \in held
      PROVE  held' = held \ (IF o \in Pointees /\ c[o] = 0 THEN {o} ELSE {}) /\ ret' = {}
  <2>1. Own!SmartDeletes(c, o) = IF o \in Pointees /\ c[o] = 0 THEN {o} ELSE {}
    BY <1>1 DEF Own!SmartDeletes
  <2> HIDE DEF Own!SmartNone, Own!NULL
  <2>2. Own!SmartDeletes(c, o) \ held = {}
    BY <1>8, <2>1
  <2> QED BY <1>2, <1>8, <2>1, <2>2 DEF Own!Gone
<1>9. ASSUME NEW h \in Handles, Own!SmartDestroy(h) PROVE SmartInv'
  <2>1. obj.ptr[h] \in Pointees \cup {0} /\ obj.ptr[h] # -1
    BY <1>2, <1>9 DEF Own!SmartDestroy
  <2> DEFINE old == obj.ptr[h]
             c == IF old = 0 THEN obj.cnt ELSE [obj.cnt EXCEPT ![old] = @ - 1]
  <2>2. obj' = [obj EXCEPT !.ptr[h] = -1, !.cnt = c] /\ Own!Gone(c, old)
    BY <1>9 DEF Own!SmartDestroy, Own!Dec
  <2>3. c \in [Pointees -> Int]
    <3>1. old \in Pointees => obj.cnt[old] - 1 \in Int
      BY <1>2
    <3> QED BY <1>2, <2>1, <3>1
  <2>4. \A p \in Pointees : c[p] = obj.cnt[p] + (IF p = old THEN -1 ELSE 0)
    BY <1>1, <1>2, <2>1
  <2> HIDE DEF c
  <2>5. held' = held \ (IF old \in Pointees /\ c[old] = 0 THEN {old} ELSE {}) /\ ret' = {}
    BY <1>3, <1>8, <2>1, <2>2, <2>3
  <2>6. \A p \in held : c[p] = obj.cnt[p] + (IF p = -1 THEN 1 ELSE IF p = old THEN -1 ELSE 0)
    BY <1>1, <1>2, <2>4
  <2>7. \A p \in Pointees \ held : p # -1 => c[p] = obj.cnt[p]
    BY <1>2, <1>3, <2>4
  <2>8. held' = (held \cup ({-1} \ {-1, 0})) \
                    (IF old \in Pointees /\ c[old] = 0 THEN {old} ELSE {})
    BY <2>5
  <2>9. -1 \in Pointees \cup {-1, 0} /\ -1 # old
        /\ (-1 \in Pointees \ held => c[-1] = 1)
    BY <1>1, <2>1
  <2> QED BY <2>2, <2>3, <2>5, <2>6, <2>7, <2>8, <2>9, SmartMoves
<1>10. ASSUME NEW h \in Handles, NEW g \in Handles, Own!Assign(h, g) PROVE SmartInv'
  <2> DEFINE old == obj.ptr[h]
             temp == obj.ptr[g]
             c1 == IF temp = 0 THEN obj.cnt ELSE [obj.cnt EXCEPT ![temp] = @ + 1]
             c == IF old = 0 THEN c1 ELSE [c1 EXCEPT ![old] = @ - 1]
  <2>1. /\ old \in Pointees \cup {0} /\ temp \in Pointees \cup {0}
        /\ (old \in Pointees => old \in held) /\ (temp \in Pointees => temp \in held)
    BY <1>2, <1>3, <1>10 DEF Own!Assign
  <2>2. obj' = [obj EXCEPT !.ptr[h] = temp, !.cnt = c] /\ Own!Gone(c, old)
    BY <1>10 DEF Own!Assign, Own!Dec, Own!Inc
  <2>3. c1 \in [Pointees -> Int] /\ \A p \in Pointees : c1[p] = obj.cnt[p] + (IF p = temp THEN 1 ELSE 0)
    BY <1>1, <1>2, <2>1
  <2> HIDE DEF c1
  <2>4. c \in [Pointees -> Int] /\ \A p \in Pointees : c[p] = c1[p] - (IF p = old THEN 1 ELSE 0)
    BY <1>1, <2>1, <2>3
  <2> HIDE DEF c
  <2>5. held' = held \ (IF old \in Pointees /\ c[old] = 0 THEN {old} ELSE {}) /\ ret' = {}
    BY <1>8, <2>1, <2>2, <2>4
  <2>6. CASE temp = old
    <3>1. \A p \in Pointees : c[p] = obj.cnt[p]
      BY <1>2, <2>3, <2>4, <2>6
    <3>2. c = obj.cnt
      BY <1>2, <2>4, <3>1
    <3>3. obj' = [obj EXCEPT !.ptr[h] = old, !.cnt = obj.cnt]
      BY <2>2, <2>6, <3>2
    <3>4. obj' = obj
      BY <1>2, <3>3
    <3>5. old \in Pointees => c[old] # 0
      BY <1>2, <2>1, <3>1
    <3>6. held' = held
      BY <2>5, <3>5
    <3> QED BY <1>2, <2>5, <3>4, <3>6 DEF SmartInv
  <2>7. CASE temp # old
    <3>1. \A p \in held : c[p] = obj.cnt[p] + (IF p = temp THEN 1 ELSE IF p = old THEN -1 ELSE 0)
      BY <1>2, <2>3, <2>4, <2>7
    <3>2. \A p \in Pointees \ held : p # temp => c[p] = obj.cnt[p]
      BY <1>2, <2>1, <2>3, <2>4
    <3>3. held' = (held \cup ({temp} \ {-1, 0})) \
                      (IF old \in Pointees /\ c[old] = 0 THEN {old} ELSE {})
      BY <2>1, <2>5
    <3>4. temp \in Pointees \cup {-1, 0}
          /\ (temp \in Pointees \ held => c[temp] = 1)
      BY <2>1
    <3> QED BY <2>2, <2>4, <2>5, <2>7, <3>1, <3>2, <3>3, <3>4, SmartMoves
  <2> QED BY <2>6, <2>7
<1> QED BY <1>4, <1>6, <1>7, <1>9, <1>10 DEF Own!SmartNext

\* It implies the property of the counting pointers.
LEMMA SmartIsSound == SmartInv => Own!SmartSound
<1> SUFFICES ASSUME SmartInv PROVE Own!SmartSound
  OBVIOUS
<1>1. /\ held \subseteq Pointees /\ ret = {}
      /\ \A p \in Pointees : /\ p \in held => obj.cnt[p] = Number(Handles, obj.ptr, p)
                             /\ p \in held <=> Number(Handles, obj.ptr, p) # 0
  BY DEF SmartInv
<1>2. \A p \in Pointees : p \in held <=> \E h \in Handles : obj.ptr[h] = p
  BY <1>1, NoneRefers, SequentialAssumption
<1>3. held = {o \in Pointees : \E h \in Handles : obj.ptr[h] = o}
  BY <1>1, <1>2
<1>4. \A o \in held : obj.cnt[o] = Own!Cardinality({h \in Handles : obj.ptr[h] = o})
  BY <1>1, SameCount DEF Number, Referring
<1> QED BY <1>1, <1>3, <1>4 DEF Own!SmartSound

-----------------------------------------------------------------------------
(* Shared and weak pointers. *)

\* The object a SharePtr keeps alive; how many do; who uses a Counter.
Owner(share, null) == [h \in Shares |-> IF h \in null THEN -1 ELSE share[h]]
Owners(share, null, c) == Number(Shares, Owner(share, null), c)
InUse(share, weak, c) == (\E h \in Shares : share[h] = c) \/ \E k \in Weaks : weak[k] = c

\* The invariant of the counters, of the state given by its parts.
CountersInv(share, weak, null, s, w, objects, counters) ==
    /\ share \in [Shares -> Counted \cup {-1}] /\ weak \in [Weaks -> Counted \cup {-1, 0}]
    /\ null \subseteq Shares /\ s \in [Counted -> Int] /\ w \in [Counted -> Int]
    /\ objects \subseteq Counted /\ counters \subseteq Counted
    /\ \A c \in Counted : InUse(share, weak, c) =>
          c \in counters /\ s[c] = Owners(share, null, c) /\ w[c] = Number(Weaks, weak, c)
    /\ \A c \in Counted : c \in objects <=> Owners(share, null, c) # 0
    /\ \A h \in null : /\ share[h] # -1
                       /\ \A g \in Shares : share[g] = share[h] => g = h
                       /\ \A k \in Weaks : weak[k] # share[h]

\* An owner counts as one.
LEMMA OwnersOf ==
    ASSUME NEW share, NEW null, NEW c \in Counted
    PROVE  /\ Owners(share, null, c) \in Nat
           /\ Owners(share, null, c) # 0 <=> \E h \in Shares : h \notin null /\ share[h] = c
<1> DEFINE f == Owner(share, null)
<1>1. Number(Shares, f, c) \in Nat /\ (Number(Shares, f, c) = 0 <=> \A x \in Shares : f[x] # c)
  BY NoneRefers, SequentialAssumption
<1>2. c # -1
  BY SequentialAssumption
<1>3. \A x \in Shares : f[x] = c <=> x \notin null /\ share[x] = c
  BY <1>2 DEF Owner
<1> HIDE DEF f
<1> QED BY <1>1, <1>3 DEF Owners, f

\* A SharePtr is destroyed.
LEMMA ShareGoes ==
    ASSUME NEW share, NEW weak, NEW null, NEW s, NEW w, NEW objects, NEW counters,
           CountersInv(share, weak, null, s, w, objects, counters),
           NEW h \in Shares, share[h] # -1,
           NEW share1, share1 = [share EXCEPT ![h] = -1],
           NEW s1, s1 = [s EXCEPT ![share[h]] = s[share[h]] - 1],
           NEW D, D = (IF s[share[h]] - 1 < 1 THEN {share[h]} ELSE {}),
           NEW E, E = (IF s[share[h]] - 1 < 1 /\ w[share[h]] < 1 THEN {share[h]} ELSE {})
    PROVE  CountersInv(share1, weak, null \ {h}, s1, w, objects \ D, counters \ E)
<1> DEFINE o == share[h]
           null1 == null \ {h}
           N(c) == Owners(share, null, c)
           N1(c) == Owners(share1, null1, c)
<1>1. /\ share \in [Shares -> Counted \cup {-1}] /\ weak \in [Weaks -> Counted \cup {-1, 0}]
      /\ null \subseteq Shares /\ s \in [Counted -> Int] /\ w \in [Counted -> Int]
      /\ objects \subseteq Counted /\ counters \subseteq Counted
      /\ \A c \in Counted : InUse(share, weak, c) =>
            c \in counters /\ s[c] = N(c) /\ w[c] = Number(Weaks, weak, c)
      /\ \A c \in Counted : c \in objects <=> N(c) # 0
      /\ \A x \in null : /\ share[x] # -1
                         /\ \A g \in Shares : share[g] = share[x] => g = x
                         /\ \A k \in Weaks : weak[k] # share[x]
  BY DEF CountersInv
<1>2. o \in Counted /\ -1 \notin Counted /\ 0 \notin Counted
  BY <1>1, SequentialAssumption
<1>3. InUse(share, weak, o)
  BY DEF InUse
<1>4. /\ share1 \in [Shares -> Counted \cup {-1}] /\ share1[h] = -1
      /\ \A x \in Shares \ {h} : share1[x] = share[x]
  BY <1>1
<1>5. s1 \in [Counted -> Int] /\ s1[o] = s[o] - 1 /\ \A c \in Counted \ {o} : s1[c] = s[c]
  BY <1>1, <1>2
<1>6. /\ \A c \in Counted : N(c) \in Nat /\ N1(c) \in Nat
      /\ \A c \in Counted : c # o => N1(c) = N(c)
      /\ h \notin null => N(o) = N1(o) + 1
      /\ h \in null => N(o) = 0 /\ N1(o) = 0
  <2> DEFINE f == Owner(share, null)
             g == Owner(share1, null1)
  <2>1. \A c \in Counted : N(c) \in Nat /\ N1(c) \in Nat
    BY OwnersOf
  <2>2. g = [x \in Shares |-> IF x = h THEN -1 ELSE f[x]]
    BY <1>4 DEF Owner
  <2>3. CASE h \notin null
    <3>1. f[h] = o /\ f[h] # -1
      BY <2>3 DEF Owner
    <3>0. IsFiniteSet(Shares)
      BY SequentialAssumption
    <3> HIDE DEF f, g
    <3>2. /\ Number(Shares, f, f[h]) = Number(Shares, g, f[h]) + 1
          /\ \A p : p # -1 /\ p # f[h] => Number(Shares, g, p) = Number(Shares, f, p)
      BY ONLY <2>2, <3>0, <3>1, Repoint, h \in Shares
    <3> QED BY <1>2, <2>1, <2>3, <3>1, <3>2 DEF Owners, f, g
  <2>4. CASE h \in null
    <3>1. f[h] = -1
      BY <2>4 DEF Owner
    <3>2. f = [x \in Shares |-> f[x]]
      BY DEF Owner
    <3> HIDE DEF f, g
    <3>3. f = g
      BY <2>2, <3>1, <3>2
    <3>4. \A c \in Counted : N(c) = N1(c)
      BY <3>3 DEF Owners, f, g
    <3>5. N(o) = 0
      BY <1>1, <1>2, <2>4, OwnersOf
    <3> QED BY <1>2, <2>1, <2>4, <3>4, <3>5
  <2> QED BY <2>3, <2>4
<1>7. ASSUME NEW c \in Counted, InUse(share1, weak, c)
      PROVE  c \in counters \ E /\ s1[c] = N1(c) /\ w[c] = Number(Weaks, weak, c)
  <2>1. InUse(share, weak, c)
    BY <1>2, <1>4, <1>7 DEF InUse
  <2>2. CASE c # o
    BY <1>1, <1>5, <1>6, <2>1, <2>2
  <2>3. CASE c = o
    <3>1. h \notin null
      <4> SUFFICES ASSUME h \in null PROVE FALSE
        OBVIOUS
      <4>1. PICK x \in Shares : share1[x] = o
        BY <1>1, <1>7, <2>3 DEF InUse
      <4>2. x # h /\ share[x] = share[h]
        BY <1>2, <1>4, <4>1
      <4> QED BY <1>1, <4>2
    <3>2. s1[c] = N1(c)
      <4>1. s[o] = N(o)
        BY <1>1, <1>2, <1>3
      <4> HIDE DEF N, N1
      <4>2. N(o) = N1(o) + 1 /\ N1(o) \in Nat
        BY <1>2, <1>6, <3>1
      <4> QED BY <1>5, <2>3, <4>1, <4>2
    <3>3. c \notin E
      <4>1. CASE \E k \in Weaks : weak[k] = c
        <5>1. w[o] \in Nat /\ w[o] # 0
          BY <1>1, <1>2, <1>3, <2>3, <4>1, NoneRefers, SequentialAssumption
        <5> QED BY <2>3, <5>1
      <4>2. CASE \E x \in Shares : share1[x] = c
        <5>1. PICK x \in Shares : share1[x] = o
          BY <2>3, <4>2
        <5>2. x # h /\ share[x] = share[h]
          BY <1>2, <1>4, <5>1
        <5>3. x \notin null1
          BY <1>1, <5>2
        <5>4. N1(o) # 0
          <6>1. \E y \in Shares : y \notin null1 /\ share1[y] = o
            BY <5>1, <5>3
          <6> QED BY ONLY <1>2, <6>1, OwnersOf
        <5>5. s[o] - 1 = N1(o) /\ N1(o) \in Nat
          BY <1>2, <1>5, <1>6, <2>3, <3>2
        <5> QED BY <2>3, <5>4, <5>5
      <4> QED BY <1>7, <4>1, <4>2 DEF InUse
    <3> QED BY <1>1, <2>1, <3>2, <3>3
  <2> QED BY <2>2, <2>3
<1>8. ASSUME NEW c \in Counted PROVE c \in objects \ D <=> N1(c) # 0
  <2>1. CASE c # o
    BY <1>1, <1>6, <2>1
  <2>2. CASE c = o
    <3>1. s[o] = N(o)
      BY <1>1, <1>2, <1>3
    <3> HIDE DEF N, N1
    <3>2. CASE h \in null
      BY <1>1, <1>2, <1>6, <2>2, <3>1, <3>2
    <3>3. CASE h \notin null
      <4>1. s[o] - 1 = N1(o) /\ N1(o) \in Nat /\ N(o) # 0
        BY <1>2, <1>6, <3>1, <3>3
      <4> QED BY <1>1, <1>2, <2>2, <4>1
    <3> QED BY <3>2, <3>3
  <2> QED BY <2>1, <2>2
<1>9. \A x \in null1 : /\ share1[x] # -1
                       /\ \A g \in Shares : share1[g] = share1[x] => g = x
                       /\ \A k \in Weaks : weak[k] # share1[x]
  BY <1>1, <1>4
<1> HIDE DEF N, N1
<1> QED BY <1>1, <1>4, <1>5, <1>7, <1>8, <1>9 DEF CountersInv, N1

\* A SharePtr is constructed for an object that has an owner.
LEMMA ShareComes ==
    ASSUME NEW share, NEW weak, NEW null, NEW s, NEW w, NEW objects, NEW counters,
           CountersInv(share, weak, null, s, w, objects, counters),
           NEW h \in Shares, share[h] = -1,
           NEW o \in Counted, NEW x \in Shares, x \notin null, share[x] = o,
           NEW share1, share1 = [share EXCEPT ![h] = o],
           NEW s1, s1 = [s EXCEPT ![o] = s[o] + 1]
    PROVE  CountersInv(share1, weak, null, s1, w, objects, counters) /\ o \in counters
<1> DEFINE N(c) == Owners(share, null, c)
           N1(c) == Owners(share1, null, c)
<1>1. /\ share \in [Shares -> Counted \cup {-1}] /\ weak \in [Weaks -> Counted \cup {-1, 0}]
      /\ null \subseteq Shares /\ s \in [Counted -> Int] /\ w \in [Counted -> Int]
      /\ objects \subseteq Counted /\ counters \subseteq Counted
      /\ \A c \in Counted : InUse(share, weak, c) =>
            c \in counters /\ s[c] = N(c) /\ w[c] = Number(Weaks, weak, c)
      /\ \A c \in Counted : c \in objects <=> N(c) # 0
      /\ \A y \in null : /\ share[y] # -1
                         /\ \A g \in Shares : share[g] = share[y] => g = y
                         /\ \A k \in Weaks : weak[k] # share[y]
  BY DEF CountersInv
<1>2. -1 \notin Counted /\ h \notin null /\ x # h
  BY <1>1, SequentialAssumption
<1>3. InUse(share, weak, o) /\ N(o) # 0
  BY OwnersOf DEF InUse
<1>4. /\ share1 \in [Shares -> Counted \cup {-1}] /\ share1[h] = o
      /\ \A y \in Shares \ {h} : share1[y] = share[y]
  BY <1>1
<1>5. s1 \in [Counted -> Int] /\ s1[o] = s[o] + 1 /\ \A c \in Counted \ {o} : s1[c] = s[c]
  BY <1>1
<1>6. /\ \A c \in Counted : N(c) \in Nat /\ N1(c) \in Nat
      /\ \A c \in Counted : c # o => N1(c) = N(c)
      /\ N1(o) = N(o) + 1
  <2> DEFINE f == Owner(share, null)
             g == Owner(share1, null)
  <2>1. \A c \in Counted : N(c) \in Nat /\ N1(c) \in Nat
    BY OwnersOf
  <2>2. g = [y \in Shares |-> IF y = h THEN o ELSE f[y]]
    BY <1>2, <1>4 DEF Owner
  <2>3. f[h] = -1 /\ f[h] # o /\ IsFiniteSet(Shares)
    BY <1>2, SequentialAssumption DEF Owner
  <2> HIDE DEF f, g
  <2>4. /\ Number(Shares, g, o) = Number(Shares, f, o) + 1
        /\ \A p : p # o /\ p # f[h] => Number(Shares, g, p) = Number(Shares, f, p)
    <3>1. f[h] # o /\ IsFiniteSet(Shares) /\ h \in Shares
      BY <2>3
    <3> QED BY ONLY <2>2, <3>1, Repoint
  <2> QED BY <1>2, <2>1, <2>3, <2>4 DEF Owners, f, g
<1>7. ASSUME NEW c \in Counted, InUse(share1, weak, c)
      PROVE  c \in counters /\ s1[c] = N1(c) /\ w[c] = Number(Weaks, weak, c)
  <2>1. InUse(share, weak, c)
    BY <1>3, <1>4, <1>7 DEF InUse
  <2> HIDE DEF N, N1
  <2> QED BY <1>1, <1>5, <1>6, <2>1
<1>8. \A c \in Counted : c \in objects <=> N1(c) # 0
  <2> HIDE DEF N, N1
  <2> QED BY <1>1, <1>3, <1>6
<1>9. \A y \in null : /\ share1[y] # -1
                      /\ \A g \in Shares : share1[g] = share1[y] => g = y
                      /\ \A k \in Weaks : weak[k] # share1[y]
  <2> SUFFICES ASSUME NEW y \in null
               PROVE  /\ share1[y] # -1
                      /\ \A g \in Shares : share1[g] = share1[y] => g = y
                      /\ \A k \in Weaks : weak[k] # share1[y]
    OBVIOUS
  <2>1. y \in Shares /\ y # h /\ share1[y] = share[y] /\ share[y] # o
    BY <1>1, <1>2, <1>4
  <2> QED BY <1>1, <1>4, <2>1
<1> HIDE DEF N, N1
<1> QED BY <1>1, <1>3, <1>4, <1>5, <1>7, <1>8, <1>9 DEF CountersInv, N1

\* The changes of a new SharePtr h for o: the counter of o is 1, or 0 if its object is null.
Started(share, null, s, w, objects, h, o, isNull, share1, null1, s1, w1, objects1) ==
    /\ share1 = [share EXCEPT ![h] = o] /\ null1 = (IF isNull THEN null \cup {h} ELSE null)
    /\ s1 = [s EXCEPT ![o] = IF isNull THEN 0 ELSE 1] /\ w1 = [w EXCEPT ![o] = 0]
    /\ objects1 = (IF isNull THEN objects ELSE objects \cup {o})

\* A SharePtr is constructed from a pointer, with a new Counter.
LEMMA ShareStarts ==
    ASSUME NEW share, NEW weak, NEW null, NEW s, NEW w, NEW objects, NEW counters,
           CountersInv(share, weak, null, s, w, objects, counters),
           NEW h \in Shares, share[h] = -1,
           NEW o \in Counted, ~ InUse(share, weak, o), NEW isNull \in BOOLEAN,
           NEW share1, NEW null1, NEW s1, NEW w1, NEW objects1,
           Started(share, null, s, w, objects, h, o, isNull, share1, null1, s1, w1, objects1)
    PROVE  CountersInv(share1, weak, null1, s1, w1, objects1, counters \cup {o})
<1> DEFINE N(c) == Owners(share, null, c)
           N1(c) == Owners(share1, null1, c)
<1>0. /\ share1 = [share EXCEPT ![h] = o] /\ null1 = (IF isNull THEN null \cup {h} ELSE null)
      /\ s1 = [s EXCEPT ![o] = IF isNull THEN 0 ELSE 1] /\ w1 = [w EXCEPT ![o] = 0]
      /\ objects1 = (IF isNull THEN objects ELSE objects \cup {o})
  BY DEF Started
<1>1. /\ share \in [Shares -> Counted \cup {-1}] /\ weak \in [Weaks -> Counted \cup {-1, 0}]
      /\ null \subseteq Shares /\ s \in [Counted -> Int] /\ w \in [Counted -> Int]
      /\ objects \subseteq Counted /\ counters \subseteq Counted
      /\ \A c \in Counted : InUse(share, weak, c) =>
            c \in counters /\ s[c] = N(c) /\ w[c] = Number(Weaks, weak, c)
      /\ \A c \in Counted : c \in objects <=> N(c) # 0
      /\ \A y \in null : /\ share[y] # -1
                         /\ \A g \in Shares : share[g] = share[y] => g = y
                         /\ \A k \in Weaks : weak[k] # share[y]
  BY DEF CountersInv
<1> USE <1>0
<1>2. -1 \notin Counted /\ h \notin null
  BY <1>1, SequentialAssumption
<1>3. (\A y \in Shares : share[y] # o) /\ (\A k \in Weaks : weak[k] # o) /\ N(o) = 0
  <2>1. (\A y \in Shares : share[y] # o) /\ (\A k \in Weaks : weak[k] # o)
    BY DEF InUse
  <2> QED BY <2>1, OwnersOf
<1>4. /\ share1 \in [Shares -> Counted \cup {-1}] /\ share1[h] = o
      /\ \A y \in Shares \ {h} : share1[y] = share[y]
  BY <1>1
<1>5. /\ s1 \in [Counted -> Int] /\ s1[o] = (IF isNull THEN 0 ELSE 1)
      /\ \A c \in Counted \ {o} : s1[c] = s[c]
      /\ w1 \in [Counted -> Int] /\ w1[o] = 0 /\ \A c \in Counted \ {o} : w1[c] = w[c]
  BY <1>1
<1>6. /\ \A c \in Counted : N(c) \in Nat /\ N1(c) \in Nat
      /\ \A c \in Counted : c # o => N1(c) = N(c)
      /\ N1(o) = IF isNull THEN 0 ELSE 1
  <2> DEFINE f == Owner(share, null)
             g == Owner(share1, null1)
  <2>1. \A c \in Counted : N(c) \in Nat /\ N1(c) \in Nat
    BY OwnersOf
  <2>2. g = [y \in Shares |-> IF y = h THEN IF isNull THEN -1 ELSE o ELSE f[y]]
    BY <1>2, <1>4 DEF Owner
  <2>3. f[h] = -1 /\ f[h] # o /\ IsFiniteSet(Shares)
    BY <1>2, SequentialAssumption DEF Owner
  <2>4. f = [y \in Shares |-> f[y]]
    BY DEF Owner
  <2> HIDE DEF f, g
  <2>5. CASE isNull
    <3>1. f = g
      BY <2>2, <2>3, <2>4, <2>5
    <3>2. \A c : N(c) = N1(c)
      BY <3>1 DEF Owners, f, g
    <3> QED BY <1>3, <2>1, <2>5, <3>2
  <2>6. CASE ~ isNull
    <3>1. g = [y \in Shares |-> IF y = h THEN o ELSE f[y]]
      BY <2>2, <2>6
    <3>2. /\ Number(Shares, g, o) = Number(Shares, f, o) + 1
          /\ \A p : p # o /\ p # f[h] => Number(Shares, g, p) = Number(Shares, f, p)
      <4>1. f[h] # o /\ IsFiniteSet(Shares) /\ h \in Shares
        BY <2>3
      <4> QED BY ONLY <3>1, <4>1, Repoint
    <3>3. N1(o) = N(o) + 1 /\ \A c \in Counted : c # o => N1(c) = N(c)
      BY <1>2, <2>3, <3>2 DEF Owners, f, g
    <3> HIDE DEF N, N1
    <3> QED BY <1>3, <2>1, <2>6, <3>3
  <2> QED BY <2>5, <2>6
<1>7. ASSUME NEW c \in Counted, InUse(share1, weak, c)
      PROVE  c \in counters \cup {o} /\ s1[c] = N1(c) /\ w1[c] = Number(Weaks, weak, c)
  <2> HIDE DEF N, N1
  <2>1. CASE c = o
    <3>1. Number(Weaks, weak, o) = 0
      BY <1>3, NoneRefers, SequentialAssumption
    <3> QED BY <1>5, <1>6, <2>1, <3>1
  <2>2. CASE c # o
    <3>1. InUse(share, weak, c)
      BY <1>4, <1>7, <2>2 DEF InUse
    <3> QED BY <1>1, <1>5, <1>6, <2>2, <3>1
  <2> QED BY <2>1, <2>2
<1>8. objects1 \subseteq Counted /\ \A c \in Counted : c \in objects1 <=> N1(c) # 0
  <2> HIDE DEF N, N1
  <2> QED BY <1>1, <1>3, <1>6
<1>9. \A y \in null1 : /\ share1[y] # -1
                       /\ \A g \in Shares : share1[g] = share1[y] => g = y
                       /\ \A k \in Weaks : weak[k] # share1[y]
  <2> SUFFICES ASSUME NEW y \in null1
               PROVE  /\ share1[y] # -1
                      /\ \A g \in Shares : share1[g] = share1[y] => g = y
                      /\ \A k \in Weaks : weak[k] # share1[y]
    OBVIOUS
  <2>1. CASE y = h
    BY <1>2, <1>3, <1>4, <2>1
  <2>2. CASE y # h
    <3>1. y \in null /\ y \in Shares /\ share1[y] = share[y] /\ share[y] # o
      BY <1>1, <1>3, <1>4, <2>2
    <3> QED BY <1>1, <1>4, <3>1
  <2> QED BY <2>1, <2>2
<1>10. null1 \subseteq Shares /\ counters \cup {o} \subseteq Counted
  BY <1>1
<1> HIDE DEF N, N1
<1> QED BY <1>1, <1>4, <1>5, <1>7, <1>8, <1>9, <1>10 DEF CountersInv, N1

\* A WeakPtr is destroyed.
LEMMA WeakGoes ==
    ASSUME NEW share, NEW weak, NEW null, NEW s, NEW w, NEW objects, NEW counters,
           CountersInv(share, weak, null, s, w, objects, counters),
           NEW k \in Weaks,
           NEW weak1, weak1 = [weak EXCEPT ![k] = -1],
           NEW w1, w1 = (IF weak[k] \in Counted THEN [w EXCEPT ![weak[k]] = w[weak[k]] - 1] ELSE w)
    PROVE  /\ CountersInv(share, weak1, null, s, w1, objects, counters)
           /\ weak[k] \in Counted => weak[k] \in counters
<1> DEFINE N(c) == Number(Weaks, weak, c)
           N1(c) == Number(Weaks, weak1, c)
           S(c) == Owners(share, null, c)
           o == weak[k]
<1> HIDE DEF N, N1, S
<1>1. /\ share \in [Shares -> Counted \cup {-1}] /\ weak \in [Weaks -> Counted \cup {-1, 0}]
      /\ null \subseteq Shares /\ s \in [Counted -> Int] /\ w \in [Counted -> Int]
      /\ objects \subseteq Counted /\ counters \subseteq Counted
      /\ \A c \in Counted : InUse(share, weak, c) => c \in counters /\ s[c] = S(c) /\ w[c] = N(c)
      /\ \A c \in Counted : c \in objects <=> S(c) # 0
      /\ \A y \in null : /\ share[y] # -1
                         /\ \A g \in Shares : share[g] = share[y] => g = y
                         /\ \A l \in Weaks : weak[l] # share[y]
  BY DEF CountersInv, N, S
<1>2. -1 \notin Counted /\ 0 \notin Counted /\ IsFiniteSet(Weaks)
  BY SequentialAssumption
<1>3. /\ weak1 \in [Weaks -> Counted \cup {-1, 0}] /\ weak1[k] = -1
      /\ \A l \in Weaks \ {k} : weak1[l] = weak[l]
  BY <1>1
<1>4. /\ \A c \in Counted : N(c) \in Nat /\ N1(c) \in Nat
      /\ \A c \in Counted : c # o => N1(c) = N(c)
      /\ o \in Counted => N(o) = N1(o) + 1
  <2>1. CASE o = -1
    <3>1. weak1 = weak
      BY <1>1, <2>1
    <3> QED BY <1>2, <2>1, <3>1, NoneRefers DEF N, N1
  <2>2. CASE o # -1
    <3>1. weak1 = [l \in Weaks |-> IF l = k THEN -1 ELSE weak[l]]
      BY <1>1
    <3> HIDE DEF o
    <3>2. /\ \A p : Number(Weaks, weak, p) \in Nat /\ Number(Weaks, weak1, p) \in Nat
          /\ Number(Weaks, weak, weak[k]) = Number(Weaks, weak1, weak[k]) + 1
          /\ \A p : p # -1 /\ p # weak[k] => Number(Weaks, weak1, p) = Number(Weaks, weak, p)
      <4>1. PICK m : m = -1
        OBVIOUS
      <4>2. weak1 = [l \in Weaks |-> IF l = k THEN m ELSE weak[l]]
        BY <3>1, <4>1
      <4>3. weak[k] # m /\ IsFiniteSet(Weaks) /\ k \in Weaks
        BY <1>2, <2>2, <4>1 DEF o
      <4>4. /\ \A p : Number(Weaks, weak, p) \in Nat /\ Number(Weaks, weak1, p) \in Nat
            /\ Number(Weaks, weak, weak[k]) = Number(Weaks, weak1, weak[k]) + 1
            /\ \A p : p # m /\ p # weak[k] => Number(Weaks, weak1, p) = Number(Weaks, weak, p)
        BY ONLY <4>2, <4>3, Repoint
      <4> QED BY ONLY <4>1, <4>4
    <3> QED BY <1>2, <3>2 DEF N, N1, o
  <2> QED BY <2>1, <2>2
<1>5. w1 \in [Counted -> Int]
      /\ \A c \in Counted : w1[c] = IF c = o THEN w[c] - 1 ELSE w[c]
  <2>1. CASE o \in Counted
    BY <1>1, <2>1
  <2>2. CASE o \notin Counted
    BY <1>1, <2>2
  <2> QED BY <2>1, <2>2
<1>6. ASSUME NEW c \in Counted, InUse(share, weak1, c)
      PROVE  c \in counters /\ s[c] = S(c) /\ w1[c] = N1(c)
  <2>1. InUse(share, weak, c)
    BY <1>2, <1>3, <1>6 DEF InUse
  <2> QED BY <1>1, <1>4, <1>5, <2>1
<1>7. o \in Counted => o \in counters
  BY <1>1 DEF InUse
<1>8. \A y \in null : /\ share[y] # -1
                      /\ \A g \in Shares : share[g] = share[y] => g = y
                      /\ \A l \in Weaks : weak1[l] # share[y]
  BY <1>1, <1>2, <1>3
<1> QED BY <1>1, <1>3, <1>5, <1>6, <1>7, <1>8 DEF CountersInv, N1, S

\* A WeakPtr is constructed: for an object in use, or empty.
LEMMA WeakComes ==
    ASSUME NEW share, NEW weak, NEW null, NEW s, NEW w, NEW objects, NEW counters,
           CountersInv(share, weak, null, s, w, objects, counters),
           NEW k \in Weaks, weak[k] = -1,
           NEW o \in Counted \cup {0}, o # 0 => InUse(share, weak, o), \A h \in null : share[h] # o,
           NEW weak1, weak1 = [weak EXCEPT ![k] = o],
           NEW w1, w1 = (IF o = 0 THEN w ELSE [w EXCEPT ![o] = w[o] + 1])
    PROVE  /\ CountersInv(share, weak1, null, s, w1, objects, counters)
           /\ o # 0 => o \in counters
<1> DEFINE N(c) == Number(Weaks, weak, c)
           N1(c) == Number(Weaks, weak1, c)
           S(c) == Owners(share, null, c)
<1> HIDE DEF N, N1, S
<1>1. /\ share \in [Shares -> Counted \cup {-1}] /\ weak \in [Weaks -> Counted \cup {-1, 0}]
      /\ null \subseteq Shares /\ s \in [Counted -> Int] /\ w \in [Counted -> Int]
      /\ objects \subseteq Counted /\ counters \subseteq Counted
      /\ \A c \in Counted : InUse(share, weak, c) => c \in counters /\ s[c] = S(c) /\ w[c] = N(c)
      /\ \A c \in Counted : c \in objects <=> S(c) # 0
      /\ \A y \in null : /\ share[y] # -1
                         /\ \A g \in Shares : share[g] = share[y] => g = y
                         /\ \A l \in Weaks : weak[l] # share[y]
  BY DEF CountersInv, N, S
<1>2. -1 \notin Counted /\ 0 \notin Counted /\ IsFiniteSet(Weaks) /\ o # -1
  BY SequentialAssumption
<1>3. /\ weak1 \in [Weaks -> Counted \cup {-1, 0}] /\ weak1[k] = o
      /\ \A l \in Weaks \ {k} : weak1[l] = weak[l]
  BY <1>1
<1>4. /\ \A c \in Counted : N(c) \in Nat /\ N1(c) \in Nat
      /\ \A c \in Counted : c # o => N1(c) = N(c)
      /\ N1(o) = N(o) + 1
  <2>1. weak1 = [l \in Weaks |-> IF l = k THEN o ELSE weak[l]]
    BY <1>1
  <2>2. weak[k] # o
    BY <1>2
  <2>3. /\ \A p : Number(Weaks, weak, p) \in Nat /\ Number(Weaks, weak1, p) \in Nat
        /\ Number(Weaks, weak1, o) = Number(Weaks, weak, o) + 1
        /\ \A p : p # o /\ p # weak[k] => Number(Weaks, weak1, p) = Number(Weaks, weak, p)
    BY ONLY <1>2, <2>1, <2>2, Repoint, k \in Weaks
  <2> QED BY <1>2, <2>3 DEF N, N1
<1>5. w1 \in [Counted -> Int]
      /\ \A c \in Counted : w1[c] = IF c = o THEN w[c] + 1 ELSE w[c]
  <2>1. CASE o \in Counted
    BY <1>1, <1>2, <2>1
  <2>2. CASE o \notin Counted
    BY <1>1, <2>2
  <2> QED BY <2>1, <2>2
<1>6. ASSUME NEW c \in Counted, InUse(share, weak1, c)
      PROVE  c \in counters /\ s[c] = S(c) /\ w1[c] = N1(c)
  <2>1. InUse(share, weak, c)
    BY <1>2, <1>3, <1>6 DEF InUse
  <2> QED BY <1>1, <1>4, <1>5, <2>1
<1>7. o # 0 => o \in counters
  BY <1>1
<1>8. \A y \in null : /\ share[y] # -1
                      /\ \A g \in Shares : share[g] = share[y] => g = y
                      /\ \A l \in Weaks : weak1[l] # share[y]
  BY <1>1, <1>2, <1>3
<1> QED BY <1>1, <1>3, <1>5, <1>6, <1>7, <1>8 DEF CountersInv, N1, S

\* The state by its parts.
WeakInv ==
    /\ obj = [share |-> obj.share, weak |-> obj.weak, null |-> obj.null, s |-> obj.s, w |-> obj.w]
    /\ held = [objects |-> held.objects, counters |-> held.counters]
    /\ ret = {}
    /\ CountersInv(obj.share, obj.weak, obj.null, obj.s, obj.w, held.objects, held.counters)

\* The first states of the shared and weak pointers have the invariant.
LEMMA WeakInits == Own!WeakInit => WeakInv
<1> SUFFICES ASSUME Own!WeakInit PROVE WeakInv
  OBVIOUS
<1> USE DEF Own!WeakInit, Own!WeakNone
<1>1. /\ obj.share = [h \in Shares |-> -1] /\ obj.weak = [k \in Weaks |-> -1] /\ obj.null = {}
      /\ obj.s = [c \in Counted |-> 0] /\ obj.w = [c \in Counted |-> 0]
      /\ held.objects = {} /\ held.counters = {} /\ ret = {}
      /\ obj = [share |-> obj.share, weak |-> obj.weak, null |-> obj.null, s |-> obj.s, w |-> obj.w]
      /\ held = [objects |-> held.objects, counters |-> held.counters]
  OBVIOUS
<1> HIDE DEF Own!WeakInit
<1>2. -1 \notin Counted
  BY SequentialAssumption
<1>3. \A c \in Counted : ~ InUse(obj.share, obj.weak, c)
  BY <1>1, <1>2 DEF InUse
<1>4. \A c \in Counted : Owners(obj.share, obj.null, c) = 0
  <2> SUFFICES ASSUME NEW c \in Counted PROVE Owners(obj.share, obj.null, c) = 0
    OBVIOUS
  <2>1. ~ \E h \in Shares : h \notin obj.null /\ obj.share[h] = c
    BY <1>3 DEF InUse
  <2> QED BY <2>1, OwnersOf
<1>5. /\ obj.share \in [Shares -> Counted \cup {-1}] /\ obj.weak \in [Weaks -> Counted \cup {-1, 0}]
      /\ obj.s \in [Counted -> Int] /\ obj.w \in [Counted -> Int]
  BY <1>1
<1>6. CountersInv(obj.share, obj.weak, obj.null, obj.s, obj.w, held.objects, held.counters)
  BY <1>1, <1>3, <1>4, <1>5 DEF CountersInv
<1> QED BY <1>1, <1>6 DEF WeakInv

\* The invariant from the parts of the next state.
LEMMA WeakInvNext ==
    ASSUME NEW share, NEW weak, NEW null, NEW s, NEW w, NEW objects, NEW counters,
           CountersInv(share, weak, null, s, w, objects, counters),
           obj' = [share |-> share, weak |-> weak, null |-> null, s |-> s, w |-> w],
           held' = [objects |-> objects, counters |-> counters], ret' = {}
    PROVE  WeakInv'
<1>1. /\ obj'.share = share /\ obj'.weak = weak /\ obj'.null = null /\ obj'.s = s /\ obj'.w = w
      /\ held'.objects = objects /\ held'.counters = counters
  OBVIOUS
<1> QED BY <1>1 DEF WeakInv

\* The calls of the shared and weak pointers keep it.
LEMMA WeakSteps == WeakInv /\ Own!WeakNext => WeakInv'
<1> SUFFICES ASSUME WeakInv, Own!WeakNext PROVE WeakInv'
  OBVIOUS
<1> USE DEF Own!WeakNone, Own!NoCounter
<1>1. PICK share, weak, null, s, w, objects, counters :
         /\ obj = [share |-> share, weak |-> weak, null |-> null, s |-> s, w |-> w]
         /\ held = [objects |-> objects, counters |-> counters]
         /\ CountersInv(share, weak, null, s, w, objects, counters)
  BY DEF WeakInv
<1>2. /\ obj.share = share /\ obj.weak = weak /\ obj.null = null /\ obj.s = s /\ obj.w = w
      /\ held.objects = objects /\ held.counters = counters /\ ret = {}
  BY <1>1 DEF WeakInv
<1>3. /\ share \in [Shares -> Counted \cup {-1}] /\ weak \in [Weaks -> Counted \cup {-1, 0}]
      /\ null \subseteq Shares /\ s \in [Counted -> Int] /\ w \in [Counted -> Int]
      /\ \A c \in Counted : InUse(share, weak, c) => c \in counters
      /\ \A h \in null : /\ share[h] # -1
                         /\ \A g \in Shares : share[g] = share[h] => g = h
                         /\ \A k \in Weaks : weak[k] # share[h]
  BY <1>1 DEF CountersInv
<1>4. -1 \notin Counted /\ 0 \notin Counted
  BY SequentialAssumption
<1>5. ASSUME NEW h \in Shares, share[h] # -1
      PROVE  share[h] \in Counted /\ share[h] \in counters
  BY <1>3, <1>5 DEF InUse
<1>6. \A h \in Shares : Own!Holds(h) <=> share[h] # -1 /\ h \notin null
  BY <1>2 DEF Own!Holds
<1>7. ASSUME NEW C, C \subseteq counters \cup {0}, Own!Used(C) PROVE ret' = {}
  BY <1>2, <1>7 DEF Own!Used
\* The parts of the next state after Release().
<1>8. ASSUME NEW h \in Shares, share[h] # -1
      PROVE  LET r == Own!Release(obj, h)
                 o == share[h]
             IN  /\ r.o = [share |-> share, weak |-> weak, null |-> null \ {h},
                           s |-> [s EXCEPT ![o] = s[o] - 1], w |-> w]
                 /\ r.objects = IF s[o] - 1 < 1 THEN {o} ELSE {}
                 /\ r.counters = IF s[o] - 1 < 1 /\ w[o] < 1 THEN {o} ELSE {}
  BY <1>1, <1>2 DEF Own!Release
<1>9. ASSUME NEW h \in Shares, Own!DestroyShare(h) PROVE WeakInv'
  <2> DEFINE o == share[h]
             s1 == [s EXCEPT ![o] = s[o] - 1]
             share1 == [share EXCEPT ![h] = -1]
             D == IF s[o] - 1 < 1 THEN {o} ELSE {}
             E == IF s[o] - 1 < 1 /\ w[o] < 1 THEN {o} ELSE {}
             r == Own!Release(obj, h)
  <2>1. /\ share[h] # -1 /\ obj' = [r.o EXCEPT !.share[h] = -1]
        /\ Own!Used({share[h]}) /\ Own!WeakDeletes(r)
    BY <1>2, <1>9 DEF Own!DestroyShare
  <2>2. /\ r.o = [share |-> share, weak |-> weak, null |-> null \ {h}, s |-> s1, w |-> w]
        /\ r.objects = D /\ r.counters = E
    BY <1>8, <2>1
  <2>3. ret' = {}
    BY <1>5, <1>7, <2>1
  <2> HIDE DEF r
  <2>4. held' = [objects |-> objects \ D, counters |-> counters \ E]
    BY <1>2, <2>1, <2>2 DEF Own!WeakDeletes
  <2>5. obj' = [share |-> share1, weak |-> weak, null |-> null \ {h}, s |-> s1, w |-> w]
    <3>1. r.o.share = share
      BY ONLY <2>2
    <3> QED BY ONLY <2>1, <2>2, <3>1
  <2>6. CountersInv(share1, weak, null \ {h}, s1, w, objects \ D, counters \ E)
    BY <1>1, <2>1, ShareGoes
  <2> HIDE DEF s1, share1, D, E
  <2> QED BY <2>3, <2>4, <2>5, <2>6, WeakInvNext
<1>10. ASSUME NEW h \in Shares, NEW g \in Shares, Own!AssignShare(h, g) PROVE WeakInv'
  <2> DEFINE o == share[h]
             c == share[g]
             s1 == [s EXCEPT ![o] = s[o] - 1]
             share1 == [share EXCEPT ![h] = -1]
             s2 == [s1 EXCEPT ![c] = s1[c] + 1]
             share2 == [share1 EXCEPT ![h] = c]
             D == IF s[o] - 1 < 1 THEN {o} ELSE {}
             E == IF s[o] - 1 < 1 /\ w[o] < 1 THEN {o} ELSE {}
             r == Own!Release(obj, h)
  <2>1. /\ h # g /\ share[h] # -1 /\ share[g] # -1 /\ g \notin null
        /\ obj' = [r.o EXCEPT !.s[c] = @ + 1, !.share[h] = c]
        /\ Own!Used({share[h], c}) /\ Own!WeakDeletes(r)
    BY <1>2, <1>6, <1>10 DEF Own!AssignShare
  <2>2. /\ r.o = [share |-> share, weak |-> weak, null |-> null \ {h}, s |-> s1, w |-> w]
        /\ r.objects = D /\ r.counters = E
    BY <1>8, <2>1
  <2>3. ret' = {}
    <3>1. {share[h], c} \subseteq counters \cup {0}
      BY <1>5, <2>1
    <3> QED BY <1>7, <2>1, <3>1
  <2> HIDE DEF r
  <2>4. held' = [objects |-> objects \ D, counters |-> counters \ E]
    BY <1>2, <2>1, <2>2 DEF Own!WeakDeletes
  <2>5. CountersInv(share1, weak, null \ {h}, s1, w, objects \ D, counters \ E)
    BY <1>1, <2>1, ShareGoes
  <2>6. share1[h] = -1 /\ c \in Counted /\ g \notin null \ {h} /\ share1[g] = c
    BY <1>3, <1>5, <2>1
  <2>7. share2 = [share EXCEPT ![h] = c]
    BY <1>3
  <2>8. obj' = [share |-> share2, weak |-> weak, null |-> null \ {h}, s |-> s2, w |-> w]
    <3>1. r.o.s = s1 /\ r.o.share = share
      BY <2>2
    <3> HIDE DEF s1, share2, share1, c, o, D, E
    <3>2. obj' = [r.o EXCEPT !.s = s2, !.share = share2]
      BY <2>1, <2>7, <3>1
    <3>3. PICK ro : ro = r.o
      OBVIOUS
    <3>4. ro = [share |-> share, weak |-> weak, null |-> null \ {h}, s |-> s1, w |-> w]
      BY <2>2, <3>3
    <3>5. obj' = [ro EXCEPT !.s = s2, !.share = share2]
      BY <3>2, <3>3
    <3> HIDE DEF s2
    <3> QED BY ONLY <3>4, <3>5
  <2> HIDE DEF s1, share1, D, E
  <2>9. CountersInv(share2, weak, null \ {h}, s2, w, objects \ D, counters \ E)
    BY <2>5, <2>6, ShareComes
  <2> HIDE DEF s2, share2
  <2> QED BY <2>3, <2>4, <2>8, <2>9, WeakInvNext
<1>11. ASSUME NEW h \in Shares, NEW o \in Counted, NEW x \in Shares, x \notin null, share[x] = o,
              Own!CopyShare(h, o)
       PROVE  WeakInv'
  <2> DEFINE s1 == [s EXCEPT ![o] = s[o] + 1]
             share1 == [share EXCEPT ![h] = o]
  <2>1. /\ share[h] = -1 /\ obj' = [obj EXCEPT !.share[h] = o, !.s[o] = @ + 1]
        /\ Own!Used({o}) /\ held' = held
    BY <1>2, <1>11 DEF Own!CopyShare
  <2>2. CountersInv(share1, weak, null, s1, w, objects, counters) /\ o \in counters
    BY <1>1, <1>11, <2>1, ShareComes
  <2>3. ret' = {}
    BY <1>7, <2>1, <2>2
  <2>4. obj' = [share |-> share1, weak |-> weak, null |-> null, s |-> s1, w |-> w]
    BY <1>1, <1>2, <2>1
  <2>5. held' = [objects |-> objects, counters |-> counters]
    BY <1>1, <2>1
  <2> HIDE DEF s1, share1
  <2> QED BY <2>2, <2>3, <2>4, <2>5, WeakInvNext
<1>12. ASSUME NEW h \in Shares, NEW o \in Counted, NEW isNull \in BOOLEAN, Own!NewShare(h, o, isNull)
       PROVE  WeakInv'
  <2> DEFINE share1 == [share EXCEPT ![h] = o]
             null1 == IF isNull THEN null \cup {h} ELSE null
             s1 == [s EXCEPT ![o] = IF isNull THEN 0 ELSE 1]
             w1 == [w EXCEPT ![o] = 0]
             objects1 == IF isNull THEN objects ELSE objects \cup {o}
  <2>1. /\ share[h] = -1 /\ Own!Users(o) = {}
        /\ obj' = [obj EXCEPT !.share[h] = o, !.s[o] = IF isNull THEN 0 ELSE 1, !.w[o] = 0,
                              !.null = IF isNull THEN @ \cup {h} ELSE @]
        /\ held' = [objects |-> objects1, counters |-> counters \cup {o}]
    BY <1>2, <1>12 DEF Own!NewShare
  <2>2. ~ InUse(share, weak, o)
    BY <1>2, <2>1 DEF InUse, Own!Users
  <2>3. CountersInv(share1, weak, null1, s1, w1, objects1, counters \cup {o})
    <3>1. Started(share, null, s, w, objects, h, o, isNull, share1, null1, s1, w1, objects1)
      BY DEF Started
    <3>2. share[h] = -1 /\ CountersInv(share, weak, null, s, w, objects, counters)
      BY <1>1, <2>1
    <3> HIDE DEF s1, share1, null1, w1, objects1
    <3> QED BY ONLY <2>2, <3>1, <3>2, ShareStarts, h \in Shares, o \in Counted, isNull \in BOOLEAN
  <2>4. ret' = {}
    BY <1>2, <1>12 DEF Own!NewShare
  <2>5. obj' = [share |-> share1, weak |-> weak, null |-> null1, s |-> s1, w |-> w1]
    BY <1>1, <1>2, <2>1
  <2>6. held' = [objects |-> objects1, counters |-> counters \cup {o}]
    BY <2>1
  <2> HIDE DEF s1, share1, null1, w1, objects1
  <2> QED BY <2>3, <2>4, <2>5, <2>6, WeakInvNext
<1>13. ASSUME NEW k \in Weaks, NEW w1, NEW o,
              w1 = (IF weak[k] \in Counted THEN [w EXCEPT ![weak[k]] = w[weak[k]] - 1] ELSE w),
              weak[k] # -1
       PROVE  /\ Own!WeakRelease(obj, k) = [share |-> share, weak |-> weak, null |-> null, s |-> s, w |-> w1]
              /\ weak[k] \in counters \cup {0}
              /\ CountersInv(share, [weak EXCEPT ![k] = -1], null, s, w1, objects, counters)
  <2>1. weak[k] = 0 \/ weak[k] \in Counted
    BY <1>3, <1>13
  <2>2. CountersInv(share, [weak EXCEPT ![k] = -1], null, s, w1, objects, counters)
        /\ (weak[k] \in Counted => weak[k] \in counters)
    BY <1>1, <1>13, WeakGoes
  <2>3. CASE weak[k] = 0
    <3>1. w1 = w
      BY <1>4, <1>13, <2>3
    <3>2. Own!WeakRelease(obj, k) = obj
      BY <1>2, <2>3 DEF Own!WeakRelease
    <3> QED BY <1>1, <2>2, <2>3, <3>1, <3>2
  <2>4. CASE weak[k] \in Counted
    <3>1. Own!WeakRelease(obj, k) = [obj EXCEPT !.w[weak[k]] = @ - 1]
      BY <1>2, <1>4, <2>4 DEF Own!WeakRelease
    <3>2. Own!WeakRelease(obj, k) = [share |-> share, weak |-> weak, null |-> null, s |-> s, w |-> w1]
      BY <1>1, <1>13, <2>4, <3>1
    <3> QED BY <2>2, <2>4, <3>2
  <2> QED BY <2>1, <2>3, <2>4
<1>14. ASSUME NEW k \in Weaks, Own!DestroyWeak(k) PROVE WeakInv'
  <2>1. PICK w1 : w1 = IF weak[k] \in Counted THEN [w EXCEPT ![weak[k]] = w[weak[k]] - 1] ELSE w
    OBVIOUS
  <2>2. /\ weak[k] # -1 /\ obj' = [Own!WeakRelease(obj, k) EXCEPT !.weak[k] = -1]
        /\ Own!Used({weak[k]}) /\ held' = held
    BY <1>2, <1>14 DEF Own!DestroyWeak
  <2>3. /\ Own!WeakRelease(obj, k) = [share |-> share, weak |-> weak, null |-> null, s |-> s, w |-> w1]
        /\ weak[k] \in counters \cup {0}
        /\ CountersInv(share, [weak EXCEPT ![k] = -1], null, s, w1, objects, counters)
    BY <1>13, <2>1, <2>2
  <2>4. obj' = [share |-> share, weak |-> [weak EXCEPT ![k] = -1], null |-> null, s |-> s, w |-> w1]
    BY <2>2, <2>3
  <2>5. ret' = {} /\ held' = [objects |-> objects, counters |-> counters]
    BY <1>1, <1>7, <2>2, <2>3
  <2> QED BY <2>3, <2>4, <2>5, WeakInvNext
<1>15. ASSUME NEW k \in Weaks, NEW o \in Counted \cup {0}, o # 0 => InUse(share, weak, o),
              \A h \in null : share[h] # o, Own!NewWeak(k, o)
       PROVE  WeakInv'
  <2>1. PICK w1 : w1 = IF o = 0 THEN w ELSE [w EXCEPT ![o] = w[o] + 1]
    OBVIOUS
  <2>2. /\ weak[k] = -1 /\ Own!Used({o}) /\ held' = held
        /\ obj' = IF o = 0 THEN [obj EXCEPT !.weak[k] = o]
                  ELSE [obj EXCEPT !.weak[k] = o, !.w[o] = @ + 1]
    BY <1>2, <1>15 DEF Own!NewWeak
  <2>3. CountersInv(share, [weak EXCEPT ![k] = o], null, s, w1, objects, counters)
        /\ (o # 0 => o \in counters)
    BY <1>1, <1>15, <2>1, <2>2, WeakComes
  <2>4. obj' = [share |-> share, weak |-> [weak EXCEPT ![k] = o], null |-> null, s |-> s, w |-> w1]
    <3>1. CASE o = 0
      BY <1>1, <2>1, <2>2, <3>1
    <3>2. CASE o # 0
      BY <1>1, <2>1, <2>2, <3>2
    <3> QED BY <3>1, <3>2
  <2>5. ret' = {} /\ held' = [objects |-> objects, counters |-> counters]
    <3>1. {o} \subseteq counters \cup {0}
      BY <2>3
    <3> QED BY <1>1, <1>7, <2>2, <3>1
  <2> QED BY <2>3, <2>4, <2>5, WeakInvNext
<1>16. ASSUME NEW k \in Weaks, NEW o \in Counted,
              (\E h \in Shares : share[h] = o) \/ \E l \in Weaks \ {k} : weak[l] = o,
              \A h \in null : share[h] # o, Own!AssignWeak(k, o)
       PROVE  WeakInv'
  <2>1. PICK w1 : w1 = IF weak[k] \in Counted THEN [w EXCEPT ![weak[k]] = w[weak[k]] - 1] ELSE w
    OBVIOUS
  <2> DEFINE weak1 == [weak EXCEPT ![k] = -1]
             weak2 == [weak1 EXCEPT ![k] = o]
             w2 == [w1 EXCEPT ![o] = w1[o] + 1]
  <2>2. /\ weak[k] # -1 /\ obj' = [Own!WeakRelease(obj, k) EXCEPT !.weak[k] = o, !.w[o] = @ + 1]
        /\ Own!Used({o, weak[k]}) /\ held' = held
    BY <1>2, <1>16 DEF Own!AssignWeak
  <2>3. /\ Own!WeakRelease(obj, k) = [share |-> share, weak |-> weak, null |-> null, s |-> s, w |-> w1]
        /\ weak[k] \in counters \cup {0}
        /\ CountersInv(share, weak1, null, s, w1, objects, counters)
    BY <1>13, <2>1, <2>2
  <2>4. weak1[k] = -1 /\ InUse(share, weak1, o)
    <3>1. weak1[k] = -1 /\ \A l \in Weaks \ {k} : weak1[l] = weak[l]
      BY <1>3
    <3> QED BY <1>16, <3>1 DEF InUse
  <2>5. weak2 = [weak EXCEPT ![k] = o]
    BY <1>3
  <2>6. o # 0
    BY <1>4
  <2> HIDE DEF weak1
  <2>7. CountersInv(share, weak2, null, s, w2, objects, counters) /\ o \in counters
    BY <1>16, <2>3, <2>4, <2>6, WeakComes
  <2>8. obj' = [share |-> share, weak |-> weak2, null |-> null, s |-> s, w |-> w2]
    <3>1. PICK o1 : o1 = Own!WeakRelease(obj, k)
      OBVIOUS
    <3>2. o1 = [share |-> share, weak |-> weak, null |-> null, s |-> s, w |-> w1]
      BY <2>3, <3>1
    <3>3. o1.weak = weak /\ o1.w = w1
      BY <3>2
    <3>4. obj' = [o1 EXCEPT !.weak = [weak EXCEPT ![k] = o], !.w = w2]
      BY <2>2, <3>1, <3>3
    <3> HIDE DEF w2, weak2
    <3>5. obj' = [o1 EXCEPT !.weak = weak2, !.w = w2]
      BY <2>5, <3>4
    <3> QED BY ONLY <3>2, <3>5
  <2>9. ret' = {} /\ held' = [objects |-> objects, counters |-> counters]
    <3>1. {o, weak[k]} \subseteq counters \cup {0}
      BY <2>3, <2>7
    <3> QED BY <1>1, <1>7, <2>2, <3>1
  <2> HIDE DEF weak2, w2
  <2> QED BY <2>7, <2>8, <2>9, WeakInvNext
<1>17. ASSUME NEW k \in Weaks, ~ Own!expired(k)
       PROVE  weak[k] \in Counted /\ \E x \in Shares : x \notin null /\ share[x] = weak[k]
  <2>1. weak[k] \in Counted /\ s[weak[k]] > 0
    BY <1>2, <1>17 DEF Own!expired
  <2>2. s[weak[k]] = Owners(share, null, weak[k])
    BY <1>1, <2>1 DEF CountersInv, InUse
  <2>3. Owners(share, null, weak[k]) # 0
    BY <2>1, <2>2
  <2> QED BY <2>1, <2>3, OwnersOf
<1>18. ASSUME NEW h \in Shares, Own!ShareStep(h) PROVE WeakInv'
  <2>1. CASE Own!DestroyShare(h)
    BY <1>9, <2>1
  <2>2. CASE \E c \in Counted, isNull \in BOOLEAN : Own!NewShare(h, c, isNull)
    BY <1>12, <2>2
  <2>3. ASSUME NEW g \in Shares, Own!AssignShare(h, g) PROVE WeakInv'
    BY <1>10, <2>3
  <2>4. ASSUME NEW g \in Shares, Own!Holds(g), Own!CopyShare(h, obj.share[g]) PROVE WeakInv'
    <3>1. obj.share[g] = share[g] /\ share[g] \in Counted /\ g \notin null
      BY <1>2, <1>5, <1>6, <2>4
    <3> QED BY <1>11, <2>4, <3>1
  <2>5. ASSUME NEW k \in Weaks, ~ Own!expired(k), Own!CopyShare(h, obj.weak[k]) PROVE WeakInv'
    <3>1. obj.weak[k] = weak[k] /\ weak[k] \in Counted
          /\ \E x \in Shares : x \notin null /\ share[x] = weak[k]
      BY <1>2, <1>17, <2>5
    <3> QED BY <1>11, <2>5, <3>1
  <2> QED BY <1>18, <2>1, <2>2, <2>3, <2>4, <2>5 DEF Own!ShareStep
<1>19. ASSUME NEW k \in Weaks, Own!WeakStep(k) PROVE WeakInv'
  <2>1. CASE Own!DestroyWeak(k)
    BY <1>14, <2>1
  <2>2. CASE Own!NewWeak(k, 0)
    <3>1. \A h \in null : share[h] # 0
      BY <1>3, <1>4
    <3> QED BY <1>15, <2>2, <3>1
  <2>3. ASSUME NEW g \in Shares, Own!Holds(g), Own!NewWeak(k, obj.share[g]) \/ Own!AssignWeak(k, obj.share[g])
        PROVE  WeakInv'
    <3>1. obj.share[g] = share[g] /\ share[g] \in Counted /\ InUse(share, weak, share[g])
          /\ g \notin null
      BY <1>2, <1>5, <1>6, <2>3 DEF InUse
    <3>2. \A h \in null : share[h] # share[g]
      BY <1>3, <3>1
    <3> QED BY <1>15, <1>16, <2>3, <3>1, <3>2
  <2>4. ASSUME NEW l \in Weaks \ {k}, obj.weak[l] \in Counted,
               Own!NewWeak(k, obj.weak[l]) \/ Own!AssignWeak(k, obj.weak[l])
        PROVE  WeakInv'
    <3>1. obj.weak[l] = weak[l] /\ weak[l] \in Counted /\ InUse(share, weak, weak[l])
      BY <1>2, <2>4 DEF InUse
    <3>2. \A h \in null : share[h] # weak[l]
      BY <1>3
    <3> QED BY <1>15, <1>16, <2>4, <3>1, <3>2
  <2> QED BY <1>19, <2>1, <2>2, <2>3, <2>4 DEF Own!WeakStep
<1> QED BY <1>18, <1>19 DEF Own!WeakNext

\* It implies the property of the shared and weak pointers.
LEMMA WeakIsSound == WeakInv => Own!WeakSound
<1> SUFFICES ASSUME WeakInv PROVE Own!WeakSound
  OBVIOUS
<1>1. CountersInv(obj.share, obj.weak, obj.null, obj.s, obj.w, held.objects, held.counters) /\ ret = {}
  BY DEF WeakInv
<1>2. -1 \notin Counted
  BY SequentialAssumption
<1>3. \A h \in Shares : Own!Holds(h) <=> obj.share[h] \in Counted /\ h \notin obj.null
  BY <1>1, <1>2 DEF CountersInv, Own!Holds, Own!WeakNone
<1>4. held.objects = {obj.share[h] : h \in {h \in Shares : Own!Holds(h)}}
  <2>1. \A c \in Counted : c \in held.objects <=> \E h \in Shares : h \notin obj.null /\ obj.share[h] = c
    BY <1>1, OwnersOf DEF CountersInv
  <2>2. held.objects \subseteq Counted
    BY <1>1 DEF CountersInv
  <2> QED BY <1>3, <2>1, <2>2
<1>5. ASSUME NEW c \in Counted, Own!Users(c) # {}
      PROVE  /\ c \in held.counters
             /\ obj.s[c] = Own!Cardinality({h \in Shares : obj.share[h] = c /\ Own!Holds(h)})
             /\ obj.w[c] = Own!Cardinality({k \in Weaks : obj.weak[k] = c})
  <2>1. InUse(obj.share, obj.weak, c)
    BY <1>5 DEF InUse, Own!Users
  <2>2. /\ c \in held.counters /\ obj.s[c] = Owners(obj.share, obj.null, c)
        /\ obj.w[c] = Number(Weaks, obj.weak, c)
    BY <1>1, <2>1 DEF CountersInv
  <2>3. {h \in Shares : obj.share[h] = c /\ Own!Holds(h)} = Referring(Shares, Owner(obj.share, obj.null), c)
    BY <1>2, <1>3 DEF Referring, Owner
  <2>4. {k \in Weaks : obj.weak[k] = c} = Referring(Weaks, obj.weak, c)
    BY DEF Referring
  <2> QED BY <2>2, <2>3, <2>4, SameCount DEF Owners, Number
<1> QED BY <1>1, <1>4, <1>5 DEF Own!WeakSound

-----------------------------------------------------------------------------
(* The input-event reader. *)

\* The types of what a device keeps and of the reader.
Events == Seq(Own!Kinds)
Shorts == -(ShortMax + 1) .. ShortMax
Reader == [pc : {"scan", "loop", "events", "failed", "left"}, todo : SUBSET Devices, n : Nat,
           open : SUBSET Devices, watched : SUBSET Devices, batch : Events, x : Shorts, y : Shorts]

\* A multiple of the range of a short.
Whole(n) == \E p \in Nat : n = (2 * (ShortMax + 1)) * p
\* What was read, less what is still in the batch or in the sums, has been reported; what
\* movements lost so far is a multiple of the range of a short.
Reported(r, b, x, y) ==
    /\ r \in [Own!Kinds -> Int]
    /\ \A k \in {"key", "wheel"} : r[k] = Own!CountOf(b, k)
    /\ Whole(r["x"] - x - Own!CountOf(b, "x")) /\ Whole(r["y"] - y - Own!CountOf(b, "y"))
Watching(o) == o.pc \in {"scan", "loop", "events"} => o.open = o.watched
Between(o) == o.pc # "events" => o.batch = <<>> /\ o.x = 0 /\ o.y = 0
InputInv ==
    /\ obj \in Reader /\ Watching(obj) /\ Between(obj)
    /\ held \in [Devices -> Events \cup {Own!Pulled}]
    /\ Reported(ret, obj.batch, obj.x, obj.y)

\* How many events of a batch are of a kind.
LEMMA CountIsNat ==
    ASSUME NEW S, NEW s \in Seq(S), NEW k
    PROVE  Own!CountOf(s, k) \in Nat
<1>1. {i \in DOMAIN s : s[i] = k} \in SUBSET (1 .. Len(s)) /\ Len(s) \in Nat
  OBVIOUS
<1>2. IsFiniteSet(1 .. Len(s))
  BY <1>1, FS_Interval
<1>3. IsFiniteSet({i \in DOMAIN s : s[i] = k})
  BY ONLY <1>1, <1>2, FS_Subset
<1>4. Cardinality({i \in DOMAIN s : s[i] = k}) \in Nat
  BY ONLY <1>3, FS_CardinalityType
<1> QED BY <1>4, SameCount DEF Own!CountOf

\* The empty batch has none.
LEMMA CountNone == \A k : Own!CountOf(<<>>, k) = 0
<1>1. \A k : {i \in DOMAIN <<>> : <<>>[i] = k} = {}
  OBVIOUS
<1>2. Cardinality({}) = 0
  BY FS_EmptySet
<1> QED BY <1>1, <1>2, SameCount DEF Own!CountOf

\* The first event of a batch and the others.
LEMMA CountHead ==
    ASSUME NEW S, NEW s \in Seq(S), s # <<>>, NEW k
    PROVE  /\ Head(s) \in S /\ Tail(s) \in Seq(S) /\ Own!CountOf(Tail(s), k) \in Nat
           /\ Own!CountOf(s, k) = Own!CountOf(Tail(s), k) + (IF Head(s) = k THEN 1 ELSE 0)
<1>1. PICK t \in Seq(S) : t = Tail(s)
  BY HeadTailProperties
<1>0. PICK n \in Nat : n = Len(t)
  BY <1>1, LenProperties
<1>2. /\ Head(s) \in S /\ t \in Seq(S) /\ Len(s) = n + 1 /\ Head(s) = s[1]
      /\ \A i \in 1 .. n : t[i] = s[i + 1]
  BY <1>0, <1>1, HeadTailProperties
<1>3. PICK A, B, C : /\ A = {i \in DOMAIN s : s[i] = k} /\ B = {i \in DOMAIN t : t[i] = k}
                     /\ C = A \ {1}
  OBVIOUS
<1>4. DOMAIN s = 1 .. n + 1 /\ DOMAIN t = 1 .. n
  BY <1>0, <1>1, <1>2
<1>5. IsFiniteSet(1 .. n) /\ IsFiniteSet(1 .. n + 1)
  BY FS_Interval
<1>6. B \in SUBSET (1 .. n) /\ C \in SUBSET (1 .. n + 1)
  BY <1>3, <1>4
<1>7. IsFiniteSet(B) /\ IsFiniteSet(C)
  BY ONLY <1>5, <1>6, FS_Subset
<1>8. Cardinality(C) = Cardinality(B)
  <2>1. PICK f : f = [i \in B |-> i + 1]
    OBVIOUS
  <2>2. ASSUME NEW i \in B PROVE i + 1 \in C
    BY <1>2, <1>3, <1>4
  <2>3. ASSUME NEW j \in C PROVE \E i \in B : j = i + 1
    <3>1. j - 1 \in 1 .. n /\ (j - 1) + 1 = j /\ s[j] = k
      BY <1>3, <1>4
    <3>2. j - 1 \in B
      BY <1>2, <1>3, <1>4, <3>1
    <3> QED BY <3>1, <3>2
  <2>4. f \in Bijection(B, C)
    <3>1. f \in [B -> C]
      BY ONLY <2>1, <2>2
    <3>2. \A i, j \in B : f[i] = f[j] => i = j
      BY ONLY <1>6, <2>1, n \in Nat
    <3>3. \A j \in C : \E i \in B : f[i] = j
      BY ONLY <2>1, <2>3
    <3> QED BY ONLY <3>1, <3>2, <3>3 DEF Bijection, Injection, IsInjective, Surjection
  <2>5. ExistsBijection(B, C)
    BY ONLY <2>4 DEF ExistsBijection
  <2> QED BY ONLY <1>7, <2>5, FS_Bijection
<1>9. Own!CountOf(s, k) = Cardinality(A) /\ Own!CountOf(Tail(s), k) = Cardinality(B)
  BY <1>1, <1>3, SameCount DEF Own!CountOf
<1>10. CASE Head(s) = k
  <2>1. 1 \notin C /\ A = C \cup {1}
    BY <1>2, <1>3, <1>4, <1>10
  <2>2. Cardinality(A) = Cardinality(C) + 1 /\ Cardinality(C) \in Nat
    BY ONLY <1>7, <2>1, OneMore
  <2> QED BY <1>1, <1>2, <1>8, <1>9, <1>10, <2>2
<1>11. CASE Head(s) # k
  <2>1. A = C
    BY <1>2, <1>3, <1>4, <1>11
  <2>2. Cardinality(C) \in Nat
    BY ONLY <1>7, FS_CardinalityType
  <2> QED BY <1>1, <1>2, <1>8, <1>9, <1>11, <2>1, <2>2
<1> QED BY <1>10, <1>11

\* A movement added to a sum in a short: the sum stays or loses the range.
LEMMA ShortWraps ==
    ASSUME ShortMax \in Nat, NEW x \in Shorts
    PROVE  Own!Short(x + 1) \in Shorts /\ Whole(x + 1 - Own!Short(x + 1))
<1>1. PICK M \in Nat \ {0}, n \in Nat : M = 2 * (ShortMax + 1) /\ n = (x + 1) + ShortMax + 1 /\ x \in Int
  BY DEF Shorts
<1>2. Own!Short(x + 1) = (n % M) - (ShortMax + 1)
  BY <1>1 DEF Own!Short
<1>3. CASE x < ShortMax
  <2>1. n = M * 0 + n /\ n \in 0 .. M - 1 /\ 0 \in Int
    BY <1>1, <1>3 DEF Shorts
  <2>2. n % M = n
    BY ONLY <2>1, M \in Nat \ {0}, n \in Nat, ModUnique
  <2>3. Own!Short(x + 1) = x + 1
    BY <1>1, <1>2, <2>2
  <2>4. x + 1 \in Shorts /\ x + 1 - (x + 1) = (2 * (ShortMax + 1)) * 0
    BY <1>1, <1>3 DEF Shorts
  <2> QED BY <2>3, <2>4 DEF Whole
<1>4. CASE x = ShortMax
  <2>1. n = M * 1 + 0 /\ 0 \in 0 .. M - 1 /\ 1 \in Int
    BY <1>1, <1>4
  <2>2. n % M = 0
    BY ONLY <2>1, M \in Nat \ {0}, n \in Nat, ModUnique
  <2>3. Own!Short(x + 1) = -(ShortMax + 1)
    BY <1>2, <2>2
  <2>4. -(ShortMax + 1) \in Shorts /\ x + 1 - (-(ShortMax + 1)) = (2 * (ShortMax + 1)) * 1
    BY <1>4 DEF Shorts
  <2> QED BY <2>3, <2>4 DEF Whole
<1>5. x < ShortMax \/ x = ShortMax
  BY <1>1 DEF Shorts
<1> QED BY <1>3, <1>4, <1>5

\* Multiples add up.
LEMMA WholeSum ==
    ASSUME ShortMax \in Nat, NEW m, NEW n, Whole(m), Whole(n)
    PROVE  m \in Int /\ Whole(m + n)
<1>1. PICK M \in Nat : M = 2 * (ShortMax + 1)
  OBVIOUS
<1>2. PICK p \in Nat, g \in Nat : m = M * p /\ n = M * g
  BY <1>1 DEF Whole
<1>3. M * p + M * g = M * (p + g) /\ p + g \in Nat /\ M * p \in Int
  OBVIOUS
<1> QED BY <1>1, <1>2, <1>3 DEF Whole

\* The first states of the event reader have the invariant.
LEMMA InputInits == ShortMax \in Nat /\ Own!InputInit => InputInv
<1> SUFFICES ASSUME ShortMax \in Nat, Own!InputInit PROVE InputInv
  OBVIOUS
<1>1. /\ obj = [pc |-> "scan", todo |-> Devices, n |-> 0, open |-> {}, watched |-> {},
                batch |-> <<>>, x |-> 0, y |-> 0]
      /\ held = [d \in Devices |-> <<>>] /\ ret = [k \in Own!Kinds |-> 0]
  BY DEF Own!InputInit
<1>2. <<>> \in Events /\ 0 \in Shorts
  BY DEF Events, Shorts
<1>3. obj \in Reader /\ Watching(obj) /\ Between(obj)
  BY <1>1, <1>2 DEF Reader, Watching, Between
<1>4. held \in [Devices -> Events \cup {Own!Pulled}]
  BY <1>1, <1>2
<1>5. \A k \in {"key", "wheel", "x", "y"} : k \in Own!Kinds
  BY DEF Own!Kinds
<1>6. 0 - 0 - 0 = (2 * (ShortMax + 1)) * 0
  OBVIOUS
<1>7. Whole(0 - 0 - 0)
  BY <1>6 DEF Whole
<1>8. ret \in [Own!Kinds -> Int] /\ \A k \in {"key", "wheel", "x", "y"} : ret[k] = 0
  BY <1>1, <1>5
<1>9. Reported(ret, <<>>, 0, 0)
  BY <1>7, <1>8, CountNone DEF Reported
<1>10. obj.batch = <<>> /\ obj.x = 0 /\ obj.y = 0
  BY <1>1
<1> QED BY <1>3, <1>4, <1>9, <1>10 DEF InputInv

\* read() takes the first events of a device that are pending.
LEMMA Reads ==
    ASSUME InputInv, ShortMax \in Nat, Batch \in Nat, NEW d \in Devices, held[d] # Own!Pulled,
           obj.pc = "loop", Own!readInputEvent(d)
    PROVE  InputInv'
<1>1. PICK s \in Events : s = held[d]
  BY DEF InputInv
<1>2. PICK len : len = IF Len(s) < Batch THEN Len(s) ELSE Batch
  OBVIOUS
<1>3. len \in 0 .. Len(s)
  BY <1>1, <1>2 DEF Events
<1>4. PICK got, rest : got = SubSeq(s, 1, len) /\ rest = SubSeq(s, len + 1, Len(s))
  OBVIOUS
<1>5. got \in Events /\ rest \in Events
  BY ONLY <1>3, <1>4, s \in Events, CutInTwo DEF Events
<1>6. /\ obj' = [obj EXCEPT !.pc = "events", !.batch = got]
      /\ held' = [held EXCEPT ![d] = rest]
      /\ ret' = [k \in Own!Kinds |-> ret[k] + Own!CountOf(got, k)]
  BY <1>1, <1>2, <1>4 DEF Own!readInputEvent
<1>7. held' \in [Devices -> Events \cup {Own!Pulled}]
  BY <1>5, <1>6 DEF InputInv
<1>8. obj \in Reader /\ obj.open = obj.watched /\ obj.batch = <<>> /\ obj.x = 0 /\ obj.y = 0
  BY DEF InputInv, Watching, Between
<1>9. /\ obj' \in Reader /\ obj'.pc = "events" /\ obj'.open = obj'.watched
      /\ obj'.batch = got /\ obj'.x = 0 /\ obj'.y = 0
  <2>1. PICK t, n, o : t = obj.todo /\ n = obj.n /\ o = obj.open
    OBVIOUS
  <2>2. obj' = [pc |-> "events", todo |-> t, n |-> n, open |-> o, watched |-> o, batch |-> got, x |-> 0, y |-> 0]
    BY <1>6, <1>8, <2>1 DEF Reader
  <2>3. t \subseteq Devices /\ n \in Nat /\ o \subseteq Devices /\ 0 \in Shorts
    BY <1>8, <2>1 DEF Reader
  <2> QED BY <1>5, <2>2, <2>3 DEF Reader
<1>10. Reported(ret', got, 0, 0)
  <2>1. /\ ret \in [Own!Kinds -> Int] /\ ret["key"] = 0 /\ ret["wheel"] = 0
        /\ Whole(ret["x"] - 0 - 0) /\ Whole(ret["y"] - 0 - 0)
    BY <1>8, CountNone DEF InputInv, Reported
  <2>2. \A k \in {"key", "wheel", "x", "y"} : k \in Own!Kinds
    BY DEF Own!Kinds
  <2>3. ASSUME NEW k \in Own!Kinds PROVE ret[k] \in Int /\ Own!CountOf(got, k) \in Nat
    BY <1>5, <2>1, CountIsNat DEF Events
  <2>4. ret' \in [Own!Kinds -> Int] /\ \A k \in Own!Kinds : ret'[k] = ret[k] + Own!CountOf(got, k)
    BY <1>6, <2>3
  <2>5. \A k \in {"key", "wheel"} : ret'[k] = Own!CountOf(got, k)
    BY <2>1, <2>2, <2>3, <2>4
  <2>6. ASSUME NEW k \in {"x", "y"} PROVE ret'[k] - 0 - Own!CountOf(got, k) = ret[k] - 0 - 0
    BY <2>2, <2>3, <2>4
  <2>7. Whole(ret'["x"] - 0 - Own!CountOf(got, "x")) /\ Whole(ret'["y"] - 0 - Own!CountOf(got, "y"))
    BY <2>1, <2>6
  <2> QED BY ONLY <2>4, <2>5, <2>7 DEF Reported
<1>11. Watching(obj') /\ Between(obj')
  BY <1>9 DEF Watching, Between
<1> QED BY <1>7, <1>9, <1>10, <1>11 DEF InputInv

\* One event of the batch: what is left of a kind is one less, and it is reported or added
\* to its sum.
LEMMA TakesOne ==
    ASSUME InputInv, ShortMax \in Nat, Own!OneEvent
    PROVE  InputInv'
<1>1. PICK b, k, x, y : b = obj.batch /\ k = Head(obj.batch) /\ x = obj.x /\ y = obj.y
  OBVIOUS
<1>2. obj \in Reader /\ obj.open = obj.watched /\ obj.pc = "events" /\ b # <<>> /\ Reported(ret, b, x, y)
  BY <1>1 DEF InputInv, Watching, Own!OneEvent
<1>3. b \in Seq(Own!Kinds) /\ x \in Shorts /\ y \in Shorts
  BY <1>1, <1>2 DEF Reader, Events
<1>4. PICK X, Y, t : /\ X = (IF k = "x" THEN Own!Short(x + 1) ELSE x)
                     /\ Y = (IF k = "y" THEN Own!Short(y + 1) ELSE y) /\ t = Tail(b)
  OBVIOUS
<1>5. /\ obj' = [obj EXCEPT !.batch = t, !.x = X, !.y = Y]
      /\ ret' = IF k \in {"x", "y"} THEN ret ELSE [ret EXCEPT ![k] = @ - 1]
      /\ held' = held
  BY <1>1, <1>4 DEF Own!OneEvent
<1>6. /\ k \in Own!Kinds /\ t \in Seq(Own!Kinds)
      /\ \A j : Own!CountOf(t, j) \in Nat /\ Own!CountOf(b, j) = Own!CountOf(t, j) + (IF k = j THEN 1 ELSE 0)
  <2>1. \A j : /\ Head(b) \in Own!Kinds /\ Tail(b) \in Seq(Own!Kinds) /\ Own!CountOf(Tail(b), j) \in Nat
               /\ Own!CountOf(b, j) = Own!CountOf(Tail(b), j) + (IF Head(b) = j THEN 1 ELSE 0)
    BY ONLY <1>2, <1>3, CountHead
  <2> QED BY ONLY <1>1, <1>4, <2>1
<1>7. X \in Shorts /\ Y \in Shorts
  BY <1>3, <1>4, ShortWraps
<1>8. ret \in [Own!Kinds -> Int] /\ \A j \in {"key", "wheel", "x", "y"} : j \in Own!Kinds /\ ret[j] \in Int
  BY <1>2 DEF Reported, Own!Kinds
<1>9. ret' \in [Own!Kinds -> Int]
  BY <1>5, <1>6, <1>8
<1>10. ASSUME NEW j \in {"key", "wheel"} PROVE ret'[j] = Own!CountOf(t, j)
  <2>1. ret[j] = Own!CountOf(b, j)
    BY <1>2 DEF Reported
  <2>2. CASE k = j
    <3>1. ret'[j] = ret[j] - 1
      BY <1>5, <1>8, <2>2
    <3>2. Own!CountOf(b, j) = Own!CountOf(t, j) + 1 /\ Own!CountOf(t, j) \in Nat
      BY <1>6, <2>2
    <3> QED BY ONLY <2>1, <3>1, <3>2
  <2>3. CASE k # j
    <3>1. ret'[j] = ret[j]
      BY <1>5, <1>8, <2>3
    <3>2. Own!CountOf(b, j) = Own!CountOf(t, j) + 0 /\ Own!CountOf(t, j) \in Nat
      BY <1>6, <2>3
    <3> QED BY ONLY <2>1, <3>1, <3>2
  <2> QED BY <2>2, <2>3
<1>11. ASSUME NEW j \in {"x", "y"}, NEW v \in Shorts, NEW w,
              w = (IF k = j THEN Own!Short(v + 1) ELSE v), Whole(ret[j] - v - Own!CountOf(b, j))
       PROVE  Whole(ret'[j] - w - Own!CountOf(t, j))
  <2>1. ret'[j] = ret[j] /\ ret[j] \in Int
    BY <1>5, <1>6, <1>8
  <2>2. v \in Int
    BY DEF Shorts
  <2>3. PICK r \in Int, m \in Nat, n \in Nat :
           r = ret[j] /\ m = Own!CountOf(b, j) /\ n = Own!CountOf(t, j) /\ m = n + (IF k = j THEN 1 ELSE 0)
    BY <1>6, <2>1
  <2>4. CASE k = j
    <3>1. w \in Int /\ Whole(v + 1 - w)
      BY <1>11, <2>4, ShortWraps DEF Shorts
    <3>2. Whole((r - v - m) + (v + 1 - w))
      BY <1>11, <2>3, <3>1, WholeSum
    <3>3. (r - v - m) + (v + 1 - w) = r - w - n
      BY ONLY <2>2, <2>3, <2>4, <3>1
    <3> QED BY <2>1, <2>3, <3>2, <3>3
  <2>5. CASE k # j
    <3>1. w = v /\ m = n
      BY <1>11, <2>3, <2>5
    <3> QED BY <1>11, <2>1, <2>3, <3>1
  <2> QED BY <2>4, <2>5
<1>12. Whole(ret'["x"] - X - Own!CountOf(t, "x")) /\ Whole(ret'["y"] - Y - Own!CountOf(t, "y"))
  BY <1>2, <1>3, <1>4, <1>11 DEF Reported
<1>13. Reported(ret', t, X, Y)
  BY ONLY <1>9, <1>10, <1>12 DEF Reported
<1>14. /\ obj' \in Reader /\ obj'.pc = "events" /\ obj'.open = obj'.watched
       /\ obj'.batch = t /\ obj'.x = X /\ obj'.y = Y
  <2>1. PICK d, n, o : d = obj.todo /\ n = obj.n /\ o = obj.open
    OBVIOUS
  <2>2. obj' = [pc |-> "events", todo |-> d, n |-> n, open |-> o, watched |-> o, batch |-> t, x |-> X, y |-> Y]
    BY <1>2, <1>5, <2>1 DEF Reader
  <2>3. d \subseteq Devices /\ n \in Nat /\ o \subseteq Devices
    BY <1>2, <2>1 DEF Reader
  <2> QED BY <1>6, <1>7, <2>2, <2>3 DEF Reader, Events
<1>15. held' \in [Devices -> Events \cup {Own!Pulled}]
  BY <1>5 DEF InputInv
<1> QED BY <1>13, <1>14, <1>15 DEF InputInv, Watching, Between

\* Behind the loop the sums are reported, if there is something in them.
LEMMA ReportsSums ==
    ASSUME InputInv, ShortMax \in Nat, Own!Report
    PROVE  InputInv'
<1>1. PICK x, y, n : x = obj.x /\ y = obj.y /\ n = obj.n
  OBVIOUS
<1>2. obj \in Reader /\ obj.open = obj.watched /\ obj.pc = "events" /\ obj.batch = <<>>
      /\ Reported(ret, <<>>, x, y)
  BY <1>1 DEF InputInv, Watching, Own!Report
<1>3. x \in Int /\ y \in Int /\ n \in Nat
  BY <1>1, <1>2 DEF Reader, Shorts
<1>4. /\ obj' = [obj EXCEPT !.pc = "loop", !.n = n + 1, !.x = 0, !.y = 0] /\ held' = held
      /\ ret' = IF x # 0 \/ y # 0 THEN [ret EXCEPT !["x"] = @ - x, !["y"] = @ - y] ELSE ret
  BY <1>1 DEF Own!Report, Own!Moved
<1>5. ret \in [Own!Kinds -> Int] /\ \A k \in {"key", "wheel", "x", "y"} : k \in Own!Kinds /\ ret[k] \in Int
  BY <1>2 DEF Reported, Own!Kinds
<1>6. /\ ret' \in [Own!Kinds -> Int] /\ ret'["x"] = ret["x"] - x /\ ret'["y"] = ret["y"] - y
      /\ ret'["key"] = ret["key"] /\ ret'["wheel"] = ret["wheel"]
  BY <1>3, <1>4, <1>5
<1>7. ret'["x"] - 0 - 0 = ret["x"] - x - 0 /\ ret'["y"] - 0 - 0 = ret["y"] - y - 0
  BY <1>3, <1>5, <1>6
<1>8. Reported(ret', <<>>, 0, 0)
  BY <1>2, <1>6, <1>7, CountNone DEF Reported
<1>9. /\ obj' \in Reader /\ obj'.pc = "loop" /\ obj'.open = obj'.watched
      /\ obj'.batch = <<>> /\ obj'.x = 0 /\ obj'.y = 0
  <2>1. PICK d, o : d = obj.todo /\ o = obj.open
    OBVIOUS
  <2>2. obj' = [pc |-> "loop", todo |-> d, n |-> n + 1, open |-> o, watched |-> o, batch |-> <<>>, x |-> 0, y |-> 0]
    BY <1>2, <1>4, <2>1 DEF Reader
  <2>3. d \subseteq Devices /\ n + 1 \in Nat /\ o \subseteq Devices /\ <<>> \in Events /\ 0 \in Shorts
    BY <1>2, <1>3, <2>1 DEF Reader, Events, Shorts
  <2> QED BY <2>2, <2>3 DEF Reader
<1>10. held' \in [Devices -> Events \cup {Own!Pulled}]
  BY <1>4 DEF InputInv
<1> QED BY <1>8, <1>9, <1>10 DEF InputInv, Watching, Between

\* The calls of the event reader keep it.
LEMMA InputSteps == InputInv /\ ShortMax \in Nat /\ Batch \in Nat /\ Own!InputNext => InputInv'
<1> SUFFICES ASSUME InputInv, ShortMax \in Nat, Batch \in Nat, Own!InputNext PROVE InputInv'
  OBVIOUS
<1>1. PICK t, n, o, w, b, x, y :
         /\ t = obj.todo /\ n = obj.n /\ o = obj.open /\ w = obj.watched
         /\ b = obj.batch /\ x = obj.x /\ y = obj.y
  OBVIOUS
<1>2. /\ t \subseteq Devices /\ n \in Nat /\ o \subseteq Devices /\ w \subseteq Devices
      /\ b \in Events /\ x \in Shorts /\ y \in Shorts
  BY <1>1 DEF InputInv, Reader
<1>0. \A p : obj.pc = p => obj = [pc |-> p, todo |-> t, n |-> n, open |-> o, watched |-> w,
                                  batch |-> b, x |-> x, y |-> y]
  BY <1>1 DEF InputInv, Reader
<1>3. ASSUME NEW p \in {"scan", "loop", "failed", "left"}, NEW T \in SUBSET Devices, NEW m \in Nat,
             NEW O \in SUBSET Devices, NEW W \in SUBSET Devices, p \in {"scan", "loop"} => O = W,
             obj' = [pc |-> p, todo |-> T, n |-> m, open |-> O, watched |-> W,
                     batch |-> b, x |-> x, y |-> y],
             obj.pc # "events", held' = held, ret' = ret
      PROVE  InputInv'
  <2>1. b = <<>> /\ x = 0 /\ y = 0
    BY <1>1, <1>3 DEF InputInv, Between
  <2>2. obj' \in Reader
    BY <1>2, <1>3 DEF Reader
  <2>3. Watching(obj') /\ Between(obj')
    BY <1>3, <2>1 DEF Watching, Between
  <2>4. obj'.batch = b /\ obj'.x = x /\ obj'.y = y
    BY <1>3
  <2> QED BY <1>1, <1>3, <2>2, <2>3, <2>4 DEF InputInv
<1>4. obj.pc \in {"scan", "loop"} => o = w
  BY <1>1 DEF InputInv, Watching
<1>5. ASSUME Own!Scan PROVE InputInv'
  <2>1. PICK d \in t : Own!openInputEvent(d)
    BY <1>1, <1>5 DEF Own!Scan
  <2>2. obj.pc = "scan" /\ held' = held /\ ret' = ret /\ d \in Devices
    BY <1>2, <1>5 DEF Own!Scan
  <2>3. obj = [pc |-> "scan", todo |-> t, n |-> n, open |-> o, watched |-> w, batch |-> b, x |-> x, y |-> y]
    BY <1>0, <2>2
  <2>4. CASE obj' = [obj EXCEPT !.todo = @ \ {d}]
    <3>1. obj' = [pc |-> "scan", todo |-> t \ {d}, n |-> n, open |-> o, watched |-> w,
                  batch |-> b, x |-> x, y |-> y]
      BY <2>3, <2>4
    <3> QED BY <1>2, <1>3, <1>4, <2>2, <3>1
  <2>5. CASE obj' = [obj EXCEPT !.todo = @ \ {d}, !.n = @ + 1, !.open = @ \cup {d}, !.watched = @ \cup {d}]
    <3>1. obj' = [pc |-> "scan", todo |-> t \ {d}, n |-> n + 1, open |-> o \cup {d}, watched |-> w \cup {d},
                  batch |-> b, x |-> x, y |-> y]
      BY <2>3, <2>5
    <3>2. t \ {d} \subseteq Devices /\ n + 1 \in Nat /\ o \cup {d} \subseteq Devices /\ o \cup {d} = w \cup {d}
      BY <1>2, <1>4, <2>2
    <3> QED BY <1>3, <2>2, <3>1, <3>2
  <2> QED BY <2>1, <2>4, <2>5 DEF Own!openInputEvent
<1>6. ASSUME Own!Scanned PROVE InputInv'
  <2>1. obj.pc = "scan" /\ held' = held /\ ret' = ret
        /\ obj' = IF obj.n < 1 THEN [obj EXCEPT !.pc = "failed", !.watched = {}]
                  ELSE [obj EXCEPT !.pc = "loop", !.n = 0]
    BY <1>6 DEF Own!Scanned
  <2>2. obj = [pc |-> "scan", todo |-> t, n |-> n, open |-> o, watched |-> w, batch |-> b, x |-> x, y |-> y]
    BY <1>0, <2>1
  <2>3. \/ obj' = [pc |-> "failed", todo |-> t, n |-> n, open |-> o, watched |-> {}, batch |-> b, x |-> x, y |-> y]
        \/ obj' = [pc |-> "loop", todo |-> t, n |-> 0, open |-> o, watched |-> w, batch |-> b, x |-> x, y |-> y]
    BY <2>1, <2>2
  <2> QED BY <1>2, <1>3, <1>4, <2>1, <2>3
<1>7. ASSUME Own!Round PROVE InputInv'
  <2>1. obj.pc = "loop" /\ obj.pc # "events" /\ o = w
    <3>1. obj.pc = "loop"
      BY <1>7, Zenon DEF Own!Round
    <3> QED BY <1>4, <3>1
  <2>2. obj = [pc |-> "loop", todo |-> t, n |-> n, open |-> o, watched |-> w, batch |-> b, x |-> x, y |-> y]
    BY <1>0, <2>1
  <2>3. ASSUME NEW d \in Devices, held[d] # Own!Pulled, Own!readInputEvent(d) PROVE InputInv'
    BY <2>1, <2>3, Reads
  <2>4. ASSUME NEW d \in Devices, obj' = [obj EXCEPT !.n = @ + 1, !.open = @ \ {d}, !.watched = @ \ {d}],
               held' = held, ret' = ret
        PROVE  InputInv'
    <3>1. obj' = [pc |-> "loop", todo |-> t, n |-> n + 1, open |-> o \ {d}, watched |-> o \ {d},
                  batch |-> b, x |-> x, y |-> y]
      BY ONLY <2>1, <2>2, <2>4
    <3>2. n + 1 \in Nat /\ o \ {d} \in SUBSET Devices /\ t \in SUBSET Devices
          /\ "loop" \in {"scan", "loop", "failed", "left"}
      BY ONLY <1>2
    <3>3. held' = held /\ ret' = ret
      BY ONLY <2>4
    <3> QED BY ONLY <1>3, <2>1, <3>1, <3>2, <3>3
  <2>5. ASSUME obj' = [obj EXCEPT !.n = @ + 1], held' = held, ret' = ret PROVE InputInv'
    <3>1. obj' = [pc |-> "loop", todo |-> t, n |-> n + 1, open |-> o, watched |-> o,
                  batch |-> b, x |-> x, y |-> y]
      BY ONLY <2>1, <2>2, <2>5
    <3>2. n + 1 \in Nat /\ o \in SUBSET Devices /\ t \in SUBSET Devices
          /\ "loop" \in {"scan", "loop", "failed", "left"}
      BY ONLY <1>2
    <3>3. held' = held /\ ret' = ret
      BY ONLY <2>5
    <3> QED BY ONLY <1>3, <2>1, <3>1, <3>2, <3>3
  <2> QED BY ONLY <1>7, <2>3, <2>4, <2>5, Zenon DEF Own!Round
<1>8. ASSUME Own!Leave PROVE InputInv'
  <2>1. obj' = [obj EXCEPT !.pc = "left", !.watched = {}] /\ held' = held /\ ret' = ret
        /\ obj.pc = "loop" /\ obj.pc # "events"
    BY <1>8 DEF Own!Leave
  <2>2. obj = [pc |-> "loop", todo |-> t, n |-> n, open |-> o, watched |-> w, batch |-> b, x |-> x, y |-> y]
    BY <1>0, <2>1
  <2>3. obj' = [pc |-> "left", todo |-> t, n |-> n, open |-> o, watched |-> {}, batch |-> b, x |-> x, y |-> y]
    BY ONLY <2>1, <2>2
  <2>4. o \in SUBSET Devices /\ t \in SUBSET Devices /\ {} \in SUBSET Devices /\ n \in Nat
        /\ "left" \in {"scan", "loop", "failed", "left"} /\ "left" \notin {"scan", "loop"}
    BY ONLY <1>2
  <2> QED BY ONLY <1>3, <2>1, <2>3, <2>4
<1>9. ASSUME NEW d \in Devices, Own!Pull(d) PROVE InputInv'
  <2>1. held' = [held EXCEPT ![d] = Own!Pulled] /\ obj' = obj /\ ret' = ret
    BY <1>9 DEF Own!Pull
  <2>2. held' \in [Devices -> Events \cup {Own!Pulled}]
    BY <2>1 DEF InputInv
  <2> QED BY <2>1, <2>2 DEF InputInv
<1>10. ASSUME NEW d \in Devices, NEW k \in Own!Kinds, Own!Event(d, k) PROVE InputInv'
  <2>1. held[d] # Own!Pulled /\ held' = [held EXCEPT ![d] = Append(@, k)] /\ obj' = obj /\ ret' = ret
    BY <1>10 DEF Own!Event
  <2>2. PICK s \in Events : s = held[d]
    BY <2>1 DEF InputInv
  <2>3. PICK u : u = Append(s, k)
    OBVIOUS
  <2>4. u \in Events
    BY ONLY <2>3, s \in Events, k \in Own!Kinds, AppendProperties DEF Events
  <2>5. held' = [held EXCEPT ![d] = u]
    BY <2>1, <2>2, <2>3
  <2>6. held' \in [Devices -> Events \cup {Own!Pulled}]
    BY <2>4, <2>5 DEF InputInv
  <2> QED BY <2>1, <2>6 DEF InputInv
<1> QED BY <1>5, <1>6, <1>7, <1>8, <1>9, <1>10, TakesOne, ReportsSums DEF Own!InputNext

\* It implies the property of the event reader.
LEMMA InputIsSound == InputInv /\ ShortMax \in Nat => Own!InputSound
<1> SUFFICES ASSUME InputInv, ShortMax \in Nat PROVE Own!InputSound
  OBVIOUS
<1>1. ASSUME obj.pc # "events", NEW k \in {"x", "y"} PROVE ret[k] % (2 * (ShortMax + 1)) = 0
  <2>1. ret[k] \in Int /\ Whole(ret[k] - 0 - 0)
    BY <1>1, CountNone DEF InputInv, Between, Reported, Own!Kinds
  <2>2. PICK r \in Int, p \in Nat : r = ret[k] /\ r = (2 * (ShortMax + 1)) * p
    <3>1. PICK r \in Int : r = ret[k]
      BY <2>1
    <3>2. PICK p \in Nat : r - 0 - 0 = (2 * (ShortMax + 1)) * p
      BY <2>1, <3>1 DEF Whole
    <3>3. r - 0 - 0 = r
      OBVIOUS
    <3> QED BY ONLY <3>1, <3>2, <3>3, p \in Nat, r \in Int
  <2>3. PICK M \in Nat \ {0}, n \in Nat : M = 2 * (ShortMax + 1) /\ n = r
    <3>1. PICK M \in Nat \ {0} : M = 2 * (ShortMax + 1)
      OBVIOUS
    <3>2. M * p \in Nat
      OBVIOUS
    <3> QED BY ONLY <2>2, <3>1, <3>2, M \in Nat \ {0}
  <2>4. n = M * p + 0 /\ 0 \in 0 .. M - 1 /\ p \in Int
    BY <2>2, <2>3
  <2>5. n % M = 0
    BY ONLY <2>4, n \in Nat, M \in Nat \ {0}, ModUnique
  <2> QED BY <2>2, <2>3, <2>5
<1>2. ASSUME obj.pc # "events", NEW k \in {"key", "wheel"} PROVE ret[k] = 0
  BY <1>2, CountNone DEF InputInv, Between, Reported
<1> QED BY <1>1, <1>2 DEF InputInv, Watching, Own!InputSound

-----------------------------------------------------------------------------
(* The class String. *)

\* The addresses of the heap; a function on the variables.
Addrs == 0 .. Cardinality(Objects) + 1
OnObjects(f) == f = [v \in Objects |-> f[v]]

\* The objects in S that are alive own distinct buffers, which are those of the heap and hold
\* their values.
Owned(S, data, len, heap, val) ==
    /\ data \in [Objects -> Addrs] /\ OnObjects(len) /\ OnObjects(val)
    /\ \A v, w \in S : v # w /\ data[v] # 0 => data[v] # data[w]
    /\ DOMAIN heap = {data[v] : v \in {w \in S : data[w] # 0}}
    /\ \A v \in S : data[v] # 0 => heap[data[v]] = val[v] /\ len[v] = Len(val[v])

\* The variables own their buffers, which hold their values.
StrInv ==
    /\ obj = [data |-> obj.data, size |-> obj.size, heap |-> obj.heap]
    /\ Owned(Objects, obj.data, obj.size, obj.heap, held)
    /\ ret[1] = ret[2]

\* The first states of String have the invariant.
LEMMA StrInits == IsFiniteSet(Objects) /\ Strings!StrInit => StrInv
<1> SUFFICES ASSUME IsFiniteSet(Objects), Strings!StrInit PROVE StrInv
  OBVIOUS
<1>1. /\ obj = [data |-> [v \in Objects |-> 0], size |-> [v \in Objects |-> 0], heap |-> [a \in {} |-> <<>>]]
      /\ held = [v \in Objects |-> <<>>] /\ ret = <<FALSE, FALSE>>
  BY DEF Strings!StrInit, Strings!NULL
<1>2. obj.data = [v \in Objects |-> 0] /\ obj.size = [v \in Objects |-> 0] /\ obj.heap = [a \in {} |-> <<>>]
  BY <1>1
<1>3. 0 \in Addrs
  BY FS_CardinalityType DEF Addrs
<1>4. obj.data \in [Objects -> Addrs] /\ \A v \in Objects : obj.data[v] = 0
  BY <1>2, <1>3
<1>5. DOMAIN obj.heap = {}
  BY <1>2
<1>6. OnObjects(obj.size) /\ OnObjects(held)
  BY <1>1, <1>2 DEF OnObjects
<1>7. Owned(Objects, obj.data, obj.size, obj.heap, held)
  BY <1>4, <1>5, <1>6 DEF Owned
<1>8. ret[1] = ret[2]
  BY <1>1
<1> QED BY <1>1, <1>2, <1>7, <1>8 DEF StrInv

\* new[] finds an address that is not in use, one of the first.
LEMMA FreeAddress ==
    ASSUME NEW h, IsFiniteSet(DOMAIN h)
    PROVE  /\ Cardinality(DOMAIN h) \in Nat
           /\ Strings!NewBuffer(h) \in 1 .. Cardinality(DOMAIN h) + 1
           /\ Strings!NewBuffer(h) \notin DOMAIN h
<1>1. PICK D : D = DOMAIN h
  OBVIOUS
<1>2. PICK C \in Nat : C = Cardinality(D)
  BY <1>1, FS_CardinalityType
<1>3. IsFiniteSet(1 .. C + 1) /\ Cardinality(1 .. C + 1) = C + 1
  <2>1. IsFiniteSet(1 .. C + 1) /\ Cardinality(1 .. C + 1) = IF 1 > C + 1 THEN 0 ELSE (C + 1) - 1 + 1
    BY ONLY FS_Interval, C \in Nat
  <2> QED BY <2>1
<1>4. ASSUME 1 .. C + 1 \subseteq D PROVE FALSE
  <2>1. Cardinality(1 .. C + 1) <= Cardinality(D)
    BY ONLY <1>1, <1>4, FS_Subset, IsFiniteSet(DOMAIN h)
  <2> QED BY <1>2, <1>3, <2>1
<1>5. Strings!NewBuffer(h) = CHOOSE a \in 1 .. C + 1 : a \notin DOMAIN h
  BY <1>1, <1>2, SameCount DEF Strings!NewBuffer
<1>6. \E a \in 1 .. C + 1 : a \notin DOMAIN h
  BY <1>1, <1>4
<1> QED BY <1>1, <1>2, <1>5, <1>6

\* The buffers are those of the other variables, so that one of the addresses is left.
LEMMA BufferLeft ==
    ASSUME IsFiniteSet(Objects), NEW u \in Objects, NEW data, NEW len, NEW h, NEW val,
           Owned(Objects \ {u}, data, len, h, val)
    PROVE  Strings!NewBuffer(h) \in Addrs \ {0} /\ Strings!NewBuffer(h) \notin DOMAIN h
<1>1. PICK C \in Nat : C = Cardinality(Objects)
  BY FS_CardinalityType
<1> DEFINE S == {w \in Objects \ {u} : data[w] # 0}
           D == {data[v] : v \in S}
           f == [v \in S |-> data[v]]
<1>2. DOMAIN h = D
  BY DEF Owned
<1>3. IsFiniteSet(S) /\ Cardinality(S) <= C
  <2>1. S \in SUBSET Objects
    OBVIOUS
  <2> HIDE DEF S
  <2> QED BY <1>1, <2>1, FS_Subset
<1>4. f \in Surjection(S, D)
  BY DEF Surjection
<1>5. IsFiniteSet(D) /\ Cardinality(D) <= Cardinality(S)
  <2> HIDE DEF f, D, S
  <2> QED BY ONLY <1>3, <1>4, FS_Surjection
<1>6. Cardinality(S) \in Nat
  <2> HIDE DEF D, S
  <2> QED BY <1>3, FS_CardinalityType
<1> HIDE DEF D, S, f
<1>7. /\ Cardinality(DOMAIN h) \in Nat /\ Cardinality(DOMAIN h) <= C
      /\ Strings!NewBuffer(h) \in 1 .. Cardinality(DOMAIN h) + 1
      /\ Strings!NewBuffer(h) \notin DOMAIN h
  BY <1>1, <1>2, <1>3, <1>5, <1>6, FreeAddress
<1> QED BY <1>1, <1>7 DEF Addrs

\* An object gets a new buffer with a text.
LEMMA BufferGot ==
    ASSUME IsFiniteSet(Objects), NEW u \in Objects, NEW data, NEW len, NEW h, NEW val,
           Owned(Objects \ {u}, data, len, h, val),
           NEW a, a = Strings!NewBuffer(h), NEW text,
           NEW d, d = [data EXCEPT ![u] = a], NEW l, l = [len EXCEPT ![u] = Len(text)],
           NEW g, g = Strings!Stored(h, a, text), NEW x, x = [val EXCEPT ![u] = text]
    PROVE  Owned(Objects, d, l, g, x)
<1>1. a \in Addrs /\ a # 0 /\ a \notin DOMAIN h
  BY BufferLeft
<1> DEFINE S == Objects \ {u}
<1>2. /\ data \in [Objects -> Addrs] /\ OnObjects(len) /\ OnObjects(val)
      /\ \A v, w \in S : v # w /\ data[v] # 0 => data[v] # data[w]
      /\ DOMAIN h = {data[v] : v \in {w \in S : data[w] # 0}}
      /\ \A v \in S : data[v] # 0 => h[data[v]] = val[v] /\ len[v] = Len(val[v])
  BY DEF Owned
<1>3. d \in [Objects -> Addrs] /\ d[u] = a /\ \A v \in S : d[v] = data[v]
  BY <1>1, <1>2
<1>4. OnObjects(l) /\ l[u] = Len(text) /\ \A v \in S : l[v] = len[v]
  BY <1>2 DEF OnObjects
<1>5. OnObjects(x) /\ x[u] = text /\ \A v \in S : x[v] = val[v]
  BY <1>2 DEF OnObjects
<1>6. g = [b \in DOMAIN h \cup {a} |-> IF b = a THEN text ELSE h[b]]
  BY DEF Strings!Stored
<1>7. DOMAIN g = DOMAIN h \cup {a} /\ g[a] = text /\ \A b \in DOMAIN h : g[b] = h[b]
  BY <1>1, <1>6
<1>8. \A v \in S : data[v] # 0 => data[v] \in DOMAIN h
  BY <1>2
<1>9. \A v \in S : data[v] # a
  BY <1>1, <1>8
<1>10. \A v, w \in Objects : v # w /\ d[v] # 0 => d[v] # d[w]
  <2> SUFFICES ASSUME NEW v \in Objects, NEW w \in Objects, v # w, d[v] # 0 PROVE d[v] # d[w]
    OBVIOUS
  <2>1. CASE v = u
    <3>1. w \in S
      BY <2>1
    <3> QED BY <1>3, <1>9, <2>1, <3>1
  <2>2. CASE v # u /\ w = u
    <3>1. v \in S
      BY <2>2
    <3> QED BY <1>3, <1>9, <2>2, <3>1
  <2>3. CASE v # u /\ w # u
    <3>1. v \in S /\ w \in S
      BY <2>3
    <3> QED BY <1>2, <1>3, <3>1
  <2> QED BY <2>1, <2>2, <2>3
<1>11. DOMAIN g = {d[v] : v \in {w \in Objects : d[w] # 0}}
  BY <1>1, <1>2, <1>3, <1>7
<1>12. \A v \in Objects : d[v] # 0 => g[d[v]] = x[v] /\ l[v] = Len(x[v])
  <2> SUFFICES ASSUME NEW v \in Objects, d[v] # 0 PROVE g[d[v]] = x[v] /\ l[v] = Len(x[v])
    OBVIOUS
  <2>1. CASE v = u
    BY <1>3, <1>4, <1>5, <1>7, <2>1
  <2>2. CASE v # u
    <3>1. v \in S
      BY <2>2
    <3>2. d[v] = data[v] /\ data[v] # 0 /\ data[v] \in DOMAIN h
      BY <1>3, <1>8, <3>1
    <3> QED BY <1>2, <1>4, <1>5, <1>7, <3>1, <3>2
  <2> QED BY <2>1, <2>2
<1> QED BY ONLY <1>3, <1>4, <1>5, <1>10, <1>11, <1>12 DEF Owned

\* delete[] of the buffer of an object that is alive; one that is not has none.
LEMMA BufferGone ==
    ASSUME NEW u \in Objects, NEW data, NEW len, NEW heap, NEW val,
           Owned(Objects, data, len, heap, val),
           NEW h, h = IF data[u] = 0 THEN heap ELSE Strings!Freed(heap, data[u])
    PROVE  Owned(Objects \ {u}, data, len, h, val)
<1> DEFINE S == Objects \ {u}
<1>2. /\ data \in [Objects -> Addrs] /\ OnObjects(len) /\ OnObjects(val)
      /\ \A v, w \in Objects : v # w /\ data[v] # 0 => data[v] # data[w]
      /\ DOMAIN heap = {data[v] : v \in {w \in Objects : data[w] # 0}}
      /\ \A v \in Objects : data[v] # 0 => heap[data[v]] = val[v] /\ len[v] = Len(val[v])
  BY DEF Owned
<1>3. CASE data[u] = 0
  <2>1. DOMAIN h = {data[v] : v \in {w \in S : data[w] # 0}}
    BY <1>2, <1>3
  <2>2. \A v \in S : data[v] # 0 => h[data[v]] = val[v] /\ len[v] = Len(val[v])
    BY <1>2, <1>3
  <2>3. \A v, w \in S : v # w /\ data[v] # 0 => data[v] # data[w]
    BY <1>2
  <2> QED BY <1>2, <2>1, <2>2, <2>3 DEF Owned
<1>4. CASE data[u] # 0
  <2>1. h = [b \in DOMAIN heap \ {data[u]} |-> heap[b]]
    BY <1>4 DEF Strings!Freed
  <2>2. \A v \in S : data[v] # 0 => data[v] # data[u] /\ data[v] \in DOMAIN heap
    BY <1>2
  <2>3. DOMAIN h = {data[v] : v \in {w \in S : data[w] # 0}}
    <3>1. DOMAIN h = DOMAIN heap \ {data[u]}
      BY <2>1
    <3> QED BY <1>2, <2>2, <3>1
  <2>4. \A v \in S : data[v] # 0 => h[data[v]] = val[v] /\ len[v] = Len(val[v])
    BY <1>2, <2>1, <2>2
  <2>5. \A v, w \in S : v # w /\ data[v] # 0 => data[v] # data[w]
    BY <1>2
  <2> QED BY <1>2, <2>3, <2>4, <2>5 DEF Owned
<1> QED BY <1>3, <1>4

\* The calls of String keep it.
LEMMA StrSteps == StrInv /\ IsFiniteSet(Objects) /\ Strings!StrNext => StrInv'
<1> SUFFICES ASSUME StrInv, IsFiniteSet(Objects), Strings!StrNext PROVE StrInv'
  OBVIOUS
<1>1. PICK data, len, heap : data = obj.data /\ len = obj.size /\ heap = obj.heap
  OBVIOUS
<1>2. /\ obj = [data |-> data, size |-> len, heap |-> heap] /\ Owned(Objects, data, len, heap, held)
      /\ ret[1] = ret[2]
  BY <1>1 DEF StrInv
<1>3. \A v \in Objects : v \in Strings!Alive <=> data[v] # 0
  BY <1>1 DEF Strings!Alive, Strings!NULL
<1>4. \A v \in Objects : data[v] # 0 => heap[data[v]] = held[v] /\ len[v] = Len(held[v])
  BY <1>2 DEF Owned
\* The object v gets the text, after its own buffer has been released if it had one.
<1>5. ASSUME NEW v \in Objects, NEW h, NEW text,
             h = IF data[v] = 0 THEN heap ELSE Strings!Freed(heap, data[v]),
             Strings!Owns(v, h, text), held' = [held EXCEPT ![v] = text]
      PROVE  StrInv'
  <2>1. PICK a, d, l, g : /\ a = Strings!NewBuffer(h) /\ d = [data EXCEPT ![v] = a]
                          /\ l = [len EXCEPT ![v] = Len(text)] /\ g = Strings!Stored(h, a, text)
    OBVIOUS
  <2>2. obj' = [data |-> d, size |-> l, heap |-> g] /\ ret' = ret
    BY <1>1, <1>5, <2>1 DEF Strings!Owns
  <2>3. Owned(Objects \ {v}, data, len, h, held)
    BY <1>2, <1>5, BufferGone
  <2>4. PICK x : x = held'
    OBVIOUS
  <2>5. x = [held EXCEPT ![v] = text]
    BY <1>5, <2>4
  <2>6. Owned(Objects, d, l, g, x)
    BY ONLY <2>1, <2>3, <2>5, IsFiniteSet(Objects), v \in Objects, BufferGot
  <2>7. obj'.data = d /\ obj'.size = l /\ obj'.heap = g
    BY <2>2
  <2> QED BY <1>2, <2>2, <2>4, <2>6, <2>7 DEF StrInv
<1>6. ASSUME NEW v \in Objects, Strings!StrDestroy(v) PROVE StrInv'
  <2>1. /\ data[v] # 0 /\ held' = [held EXCEPT ![v] = <<>>] /\ ret' = ret
        /\ obj' = [obj EXCEPT !.data[v] = 0, !.size[v] = 0, !.heap = Strings!Freed(@, obj.data[v])]
    BY <1>3, <1>6 DEF Strings!StrDestroy, Strings!NULL
  <2>2. PICK d, l, h, x : /\ d = [data EXCEPT ![v] = 0] /\ l = [len EXCEPT ![v] = 0]
                          /\ h = Strings!Freed(heap, data[v]) /\ x = [held EXCEPT ![v] = <<>>]
    OBVIOUS
  <2>3. obj' = [data |-> d, size |-> l, heap |-> h]
    BY <1>1, <1>2, <2>1, <2>2
  <2>4. Owned(Objects \ {v}, data, len, h, held)
    BY <1>2, <2>1, <2>2, BufferGone
  <2> DEFINE S == Objects \ {v}
  <2>5. /\ data \in [Objects -> Addrs] /\ OnObjects(len) /\ OnObjects(held)
        /\ \A u, w \in S : u # w /\ data[u] # 0 => data[u] # data[w]
        /\ DOMAIN h = {data[u] : u \in {w \in S : data[w] # 0}}
        /\ \A u \in S : data[u] # 0 => h[data[u]] = held[u] /\ len[u] = Len(held[u])
    BY <2>4 DEF Owned
  <2>6. 0 \in Addrs
    BY FS_CardinalityType DEF Addrs
  <2>7. /\ d \in [Objects -> Addrs] /\ d[v] = 0 /\ OnObjects(l) /\ OnObjects(x)
        /\ \A u \in S : d[u] = data[u] /\ l[u] = len[u] /\ x[u] = held[u]
    BY <2>2, <2>5, <2>6 DEF OnObjects
  <2>8. \A u, w \in Objects : u # w /\ d[u] # 0 => d[u] # d[w]
    <3> SUFFICES ASSUME NEW u \in Objects, NEW w \in Objects, u # w, d[u] # 0 PROVE d[u] # d[w]
      OBVIOUS
    <3>1. u \in S /\ (w \in S \/ w = v)
      BY <2>7
    <3> QED BY <2>5, <2>7, <3>1
  <2>9. DOMAIN h = {d[u] : u \in {w \in Objects : d[w] # 0}}
    BY <2>5, <2>7
  <2>10. \A u \in Objects : d[u] # 0 => h[d[u]] = x[u] /\ l[u] = Len(x[u])
    BY <2>5, <2>7
  <2>11. Owned(Objects, d, l, h, x)
    BY ONLY <2>7, <2>8, <2>9, <2>10 DEF Owned
  <2>12. obj'.data = d /\ obj'.size = l /\ obj'.heap = h
    BY <2>3
  <2>13. held' = x
    BY <2>1, <2>2
  <2> QED BY <1>2, <2>1, <2>3, <2>11, <2>12, <2>13 DEF StrInv
<1>7. ASSUME NEW v \in Objects, NEW str, Strings!Construct(v, str) PROVE StrInv'
  <2>1. data[v] = 0 /\ Strings!Owns(v, heap, str) /\ held' = [held EXCEPT ![v] = str]
    BY <1>1, <1>3, <1>7 DEF Strings!Construct
  <2> QED BY <1>5, <2>1
<1>8. ASSUME NEW v \in Objects, NEW str, Strings!AssignText(v, str) PROVE StrInv'
  <2>1. data[v] # 0 /\ Strings!Owns(v, Strings!Freed(heap, data[v]), str) /\ held' = [held EXCEPT ![v] = str]
    BY <1>1, <1>3, <1>8 DEF Strings!AssignText
  <2> QED BY <1>5, <2>1
<1>9. ASSUME NEW v \in Objects, NEW w \in Objects, Strings!Copy(v, w) PROVE StrInv'
  <2>1. data[v] = 0 /\ data[w] # 0 /\ Strings!Owns(v, heap, heap[data[w]]) /\ held' = [held EXCEPT ![v] = held[w]]
    BY <1>1, <1>3, <1>9 DEF Strings!Copy
  <2>2. heap[data[w]] = held[w]
    BY <1>4, <2>1
  <2> QED BY <1>5, <2>1, <2>2
<1>10. ASSUME NEW v \in Objects, NEW w \in Objects, Strings!StrAssign(v, w) PROVE StrInv'
  <2>1. /\ data[v] # 0 /\ data[w] # 0 /\ held' = [held EXCEPT ![v] = held[w]]
        /\ IF data[v] = data[w] THEN obj' = obj /\ ret' = ret
           ELSE Strings!Owns(v, Strings!Freed(heap, data[v]), Strings!Freed(heap, data[v])[data[w]])
    BY <1>1, <1>3, <1>10 DEF Strings!StrAssign
  <2>2. CASE data[v] = data[w]
    <3>1. v = w
      BY <1>2, <2>1, <2>2 DEF Owned
    <3>2. held = [u \in Objects |-> held[u]]
      BY <1>2 DEF Owned, OnObjects
    <3>3. held' = held
      BY <2>1, <3>1, <3>2
    <3> QED BY <2>1, <2>2, <3>3 DEF StrInv
  <2>3. CASE data[v] # data[w]
    <3>1. Strings!Freed(heap, data[v])[data[w]] = held[w]
      <4>1. PICK h : h = IF data[v] = 0 THEN heap ELSE Strings!Freed(heap, data[v])
        OBVIOUS
      <4>2. Owned(Objects \ {v}, data, len, h, held)
        BY <1>2, <4>1, BufferGone
      <4>3. w \in Objects \ {v}
        BY <2>3
      <4>4. h[data[w]] = held[w]
        BY ONLY <2>1, <4>2, <4>3 DEF Owned
      <4> QED BY <2>1, <4>1, <4>4
    <3> QED BY <1>5, <2>1, <2>3, <3>1
  <2> QED BY <2>2, <2>3
<1>11. ASSUME NEW v \in Objects, NEW w \in Objects, Strings!Equals(v, w) PROVE StrInv'
  <2>1. /\ data[v] # 0 /\ data[w] # 0 /\ obj' = obj /\ held' = held
        /\ ret' = <<heap[data[v]] = heap[data[w]], held[v] = held[w]>>
    BY <1>1, <1>3, <1>11 DEF Strings!Equals
  <2>2. heap[data[v]] = held[v] /\ heap[data[w]] = held[w]
    BY <1>4, <2>1
  <2>3. ret'[1] = ret'[2]
    BY <2>1, <2>2
  <2> QED BY <2>1, <2>3 DEF StrInv
<1>12. ASSUME NEW v \in Objects, NEW w \in Objects, NEW x \in Objects, Strings!StrPlus(v, w, x) PROVE StrInv'
  <2>1. /\ data[v] = 0 /\ data[w] # 0 /\ data[x] # 0 /\ held' = [held EXCEPT ![v] = held[w] \o held[x]]
        /\ Strings!Owns(v, heap, heap[data[w]] \o heap[data[x]])
    BY <1>1, <1>3, <1>12 DEF Strings!StrPlus
  <2>2. heap[data[w]] = held[w] /\ heap[data[x]] = held[x]
    BY <1>4, <2>1
  <2>3. PICK t : t = held[w] \o held[x]
    OBVIOUS
  <2>4. Strings!Owns(v, heap, t) /\ held' = [held EXCEPT ![v] = t]
    BY <2>1, <2>2, <2>3
  <2> QED BY <1>5, <2>1, <2>4
<1>13. ASSUME NEW v \in Objects, NEW w \in Objects, NEW start, NEW n, Strings!StrSubstr(v, w, start, n) PROVE StrInv'
  <2>1. /\ data[v] = 0 /\ data[w] # 0 /\ held' = [held EXCEPT ![v] = SubSeq(held[w], start + 1, start + n)]
        /\ Strings!Owns(v, heap, SubSeq(heap[data[w]], start + 1, start + n))
    BY <1>1, <1>3, <1>13 DEF Strings!StrSubstr
  <2>2. heap[data[w]] = held[w]
    BY <1>4, <2>1
  <2>3. PICK t : t = SubSeq(held[w], start + 1, start + n)
    OBVIOUS
  <2>4. Strings!Owns(v, heap, t) /\ held' = [held EXCEPT ![v] = t]
    BY <2>1, <2>2, <2>3
  <2> QED BY <1>5, <2>1, <2>4
<1> QED BY <1>6, <1>7, <1>8, <1>9, <1>10, <1>11, <1>12, <1>13 DEF Strings!StrNext

\* It implies the property of String.
LEMMA StrIsSound == StrInv => Strings!StrSound
<1> SUFFICES ASSUME StrInv PROVE Strings!StrSound
  OBVIOUS
<1>1. PICK data, len, heap : data = obj.data /\ len = obj.size /\ heap = obj.heap
  OBVIOUS
<1>2. /\ data \in [Objects -> Addrs]
      /\ \A v, w \in Objects : v # w /\ data[v] # 0 => data[v] # data[w]
      /\ DOMAIN heap = {data[v] : v \in {w \in Objects : data[w] # 0}}
      /\ \A v \in Objects : data[v] # 0 => heap[data[v]] = held[v] /\ len[v] = Len(held[v])
      /\ ret[1] = ret[2]
  BY <1>1 DEF StrInv, Owned
<1>3. Strings!Alive = {v \in Objects : data[v] # 0}
  BY <1>1 DEF Strings!Alive, Strings!NULL
<1>4. \A v, w \in Strings!Alive : v # w => obj.data[v] # obj.data[w]
  BY <1>1, <1>2, <1>3
<1>5. {obj.data[v] : v \in Strings!Alive} = DOMAIN obj.heap
  BY <1>1, <1>2, <1>3
<1>6. \A v \in Strings!Alive : obj.heap[obj.data[v]] = held[v] /\ obj.size[v] = Len(held[v])
  BY <1>1, <1>2, <1>3
<1> QED BY ONLY <1>2, <1>4, <1>5, <1>6 DEF Strings!StrSound

-----------------------------------------------------------------------------
(* The object pools. *)

\* f leads from the header through the list and ends.
Links(f, header, list) ==
    /\ header = IF Len(list) = 0 THEN 0 ELSE list[1]
    /\ \A i \in 1 .. Len(list) :
          list[i] # 0 /\ list[i] \in DOMAIN f /\ f[list[i]] = IF i = Len(list) THEN 0 ELSE list[i + 1]

\* A walk through a list finds the list.
LEMMA WalkFinds ==
    ASSUME NEW S, NEW list \in Seq(S), NEW f, NEW header, Links(f, header, list), 0 \notin DOMAIN f,
           NEW n \in Nat, Len(list) <= n
    PROVE  Own!Walk(f, header, n) = list
<1>1. PICK L \in Nat : L = Len(list) /\ L <= n
  OBVIOUS
<1>2. /\ header = IF L = 0 THEN 0 ELSE list[1]
      /\ \A i \in 1 .. L :
          list[i] # 0 /\ list[i] \in DOMAIN f /\ f[list[i]] = IF i = L THEN 0 ELSE list[i + 1]
  BY <1>1 DEF Links
<1>3. PICK c : c = [k \in 1 .. n |-> IF k <= L THEN list[k] ELSE 0]
  OBVIOUS
<1>4. ASSUME NEW k \in 1 .. n
      PROVE  c[k] = IF k = 1 THEN header ELSE IF c[k - 1] \in DOMAIN f THEN f[c[k - 1]] ELSE 0
  <2>1. CASE k = 1
    BY <1>2, <1>3, <2>1
  <2>2. CASE k # 1
    <3>1. k - 1 \in 1 .. n /\ (k - 1) + 1 = k
      BY <2>2
    <3>2. CASE k - 1 <= L
      <4>1. k - 1 \in 1 .. L /\ c[k - 1] = list[k - 1]
        BY <1>3, <3>1, <3>2
      <4>2. c[k - 1] \in DOMAIN f /\ f[c[k - 1]] = IF k - 1 = L THEN 0 ELSE list[(k - 1) + 1]
        BY <1>2, <4>1
      <4>3. c[k] = IF k - 1 = L THEN 0 ELSE list[k]
        BY <1>3, <3>2
      <4> QED BY <2>2, <3>1, <4>2, <4>3
    <3>3. CASE ~ (k - 1 <= L)
      <4>1. c[k - 1] = 0 /\ c[k] = 0
        BY <1>3, <3>1, <3>3
      <4> QED BY <2>2, <4>1
    <3> QED BY <3>2, <3>3
  <2> QED BY <2>1, <2>2
<1>5. c = [k \in 1 .. n |-> IF k = 1 THEN header ELSE IF c[k - 1] \in DOMAIN f THEN f[c[k - 1]] ELSE 0]
  <2>1. PICK e : e = [k \in 1 .. n |-> IF k = 1 THEN header ELSE IF c[k - 1] \in DOMAIN f THEN f[c[k - 1]] ELSE 0]
    OBVIOUS
  <2>2. \A k \in 1 .. n : c[k] = e[k]
    BY <1>4, <2>1
  <2>3. c = [k \in 1 .. n |-> c[k]] /\ e = [k \in 1 .. n |-> e[k]]
    BY <1>3, <2>1
  <2>4. c = e
    BY ONLY <2>2, <2>3
  <2> QED BY <2>1, <2>4
<1> DEFINE C == CHOOSE at : at = [k \in 1 .. n |-> IF k = 1 THEN header ELSE IF at[k - 1] \in DOMAIN f THEN f[at[k - 1]] ELSE 0]
           m == CHOOSE x \in 0 .. n : \A k \in 1 .. n : C[k] # 0 <=> k <= x
<1>6. C = [k \in 1 .. n |-> IF k = 1 THEN header ELSE IF C[k - 1] \in DOMAIN f THEN f[C[k - 1]] ELSE 0]
  BY <1>5
<1>7. Own!Walk(f, header, n) = [k \in 1 .. m |-> C[k]]
  BY DEF Own!Walk, Own!NoNode
<1> HIDE DEF C
<1>8. \A k \in 1 .. n : C[k] = c[k]
  <2> DEFINE T == {k \in Nat : k \in 1 .. n /\ C[k] # c[k]}
  <2> SUFFICES ASSUME T # {} PROVE FALSE
    OBVIOUS
  <2>1. PICK k \in T : \A j \in T : k <= j
    <3>1. T \in SUBSET Nat
      OBVIOUS
    <3> HIDE DEF T
    <3> QED BY <3>1, Least
  <2>2. k \in 1 .. n /\ C[k] # c[k]
    BY <2>1
  <2>3. C[k] = IF k = 1 THEN header ELSE IF C[k - 1] \in DOMAIN f THEN f[C[k - 1]] ELSE 0
    BY <1>6, <2>2
  <2>4. k # 1
    BY <1>4, <2>2, <2>3
  <2>5. k - 1 \in 1 .. n /\ k - 1 \in Nat /\ ~ (k <= k - 1)
    BY <2>2, <2>4
  <2>6. C[k - 1] = c[k - 1]
    BY <2>1, <2>5
  <2> QED BY <1>4, <2>2, <2>3, <2>4, <2>6
<1>9. \A k \in 1 .. n : C[k] # 0 <=> k <= L
  <2> SUFFICES ASSUME NEW k \in 1 .. n PROVE C[k] # 0 <=> k <= L
    OBVIOUS
  <2>1. C[k] = IF k <= L THEN list[k] ELSE 0
    BY <1>3, <1>8
  <2>2. k <= L => k \in 1 .. L
    OBVIOUS
  <2> QED BY <1>2, <2>1, <2>2
<1>10. m = L
  <2>1. L \in 0 .. n
    BY <1>1
  <2>2. m \in 0 .. n /\ \A k \in 1 .. n : C[k] # 0 <=> k <= m
    BY <1>9, <2>1
  <2> HIDE DEF m
  <2>3. ASSUME m < L PROVE FALSE
    <3>1. L \in 1 .. n /\ L <= L /\ ~ (L <= m)
      BY <1>1, <2>2, <2>3
    <3> QED BY <1>9, <2>2, <3>1
  <2>4. ASSUME L < m PROVE FALSE
    <3>1. m \in 1 .. n /\ m <= m /\ ~ (m <= L)
      BY <1>1, <2>2, <2>4
    <3> QED BY <1>9, <2>2, <3>1
  <2> QED BY <2>2, <2>3, <2>4
<1> HIDE DEF m
<1>11. PICK w : w = [k \in 1 .. L |-> C[k]]
  OBVIOUS
<1>12. \A k \in 1 .. L : w[k] = list[k]
  <2> SUFFICES ASSUME NEW k \in 1 .. L PROVE w[k] = list[k]
    OBVIOUS
  <2>1. k \in 1 .. n /\ k <= L
    BY <1>1
  <2> QED BY <1>3, <1>8, <1>11, <2>1
<1>13. w = list
  <2>1. list = [k \in 1 .. L |-> list[k]] /\ w = [k \in 1 .. L |-> w[k]]
    BY <1>1, <1>11
  <2> QED BY ONLY <1>12, <2>1
<1> QED BY <1>7, <1>10, <1>11, <1>13

\* The nodes of the first B blocks.
LEMMA NodesOfBlocks ==
    ASSUME NumofObjects \in Nat \ {0}, NEW B \in Nat
    PROVE  UNION {Own!NodesOf(b) : b \in 1 .. B} = 1 .. B * NumofObjects
<1>1. PICK N \in Nat \ {0} : N = NumofObjects
  OBVIOUS
<1>2. ASSUME NEW n, n \in 1 .. B * N PROVE \E b \in 1 .. B : n \in Own!NodesOf(b)
  <2>1. n \in Nat /\ n - 1 \in Nat /\ B * N \in Nat
    BY <1>2
  <2>2. PICK d \in Nat : d * N \in Nat /\ d * N <= n - 1 /\ n - 1 < d * N + N
    BY <2>1, RoundDown
  <2>3. ~ (B <= d)
    <3>1. B <= d => B * N <= d * N
      BY TimesMono
    <3> QED BY <1>2, <2>1, <2>2, <3>1
  <2>4. d + 1 \in 1 .. B /\ (d + 1) * N = d * N + N /\ (d + 1) - 1 = d
    BY <2>3, TimesMono
  <2>5. n \in ((d + 1) - 1) * N + 1 .. (d + 1) * N
    BY <2>1, <2>2, <2>4
  <2>6. n \in Own!NodesOf(d + 1)
    BY <1>1, <2>5 DEF Own!NodesOf
  <2> QED BY <2>4, <2>6
<1>3. ASSUME NEW b \in 1 .. B, NEW n \in Own!NodesOf(b) PROVE n \in 1 .. B * N
  <2>1. n \in (b - 1) * N + 1 .. b * N
    BY <1>1 DEF Own!NodesOf
  <2>2. b - 1 \in Nat /\ (b - 1) * N \in Nat /\ b * N <= B * N /\ B * N \in Nat /\ b * N \in Nat
    <3>1. b <= B /\ b \in Int /\ b - 1 \in Nat
      OBVIOUS
    <3> QED BY <3>1, TimesMono
  <2> QED BY <2>1, <2>2
<1>4. UNION {Own!NodesOf(b) : b \in 1 .. B} \subseteq 1 .. B * N
  BY <1>3
<1>5. 1 .. B * N \subseteq UNION {Own!NodesOf(b) : b \in 1 .. B}
  BY <1>2
<1> QED BY <1>1, <1>4, <1>5

\* The elements of a list.
On(list) == {list[i] : i \in 1 .. Len(list)}

\* The free list has every node of the B blocks that is not in use, once.
FreeOK(nx, hd, B, list, used) ==
    /\ B \in 0 .. MaxBlocks /\ nx = [n \in Own!Nodes |-> nx[n]]
    /\ list \in Seq(Own!Nodes) /\ Links(nx, hd, list)
    /\ \A i, j \in 1 .. Len(list) : list[i] = list[j] => i = j
    /\ On(list) \cap used = {} /\ On(list) \cup used = 1 .. B * NumofObjects
\* The blocks are linked from the last to the first.
BlocksOK(linked, mb, bn, B) ==
    /\ bn = [b \in 1 .. MaxBlocks |-> bn[b]]
    /\ linked => mb = B /\ \A b \in 1 .. B : bn[b] = b - 1

\* There are finitely many nodes, and a mark that is none.
LEMMA NodeNumbers ==
    ASSUME NumofObjects \in Nat \ {0}, MaxBlocks \in Nat \ {0}
    PROVE  /\ MaxBlocks * NumofObjects \in Nat /\ 0 \notin Own!Nodes /\ Own!Nodes \subseteq Nat
           /\ IsFiniteSet(Own!Nodes) /\ Cardinality(Own!Nodes) < Own!Scribbled
           /\ Own!Scribbled \in Nat
<1>1. PICK M \in Nat : M = MaxBlocks * NumofObjects
  OBVIOUS
<1>2. IsFiniteSet(1 .. M) /\ Cardinality(1 .. M) = IF 1 > M THEN 0 ELSE M - 1 + 1
  BY ONLY FS_Interval, M \in Nat
<1>3. Cardinality(1 .. M) < M + 1
  BY <1>2
<1> QED BY <1>1, <1>2, <1>3 DEF Own!Nodes, Own!Scribbled

\* Taking the first node.
LEMMA TakeNode ==
    ASSUME NumofObjects \in Nat \ {0}, MaxBlocks \in Nat \ {0},
           NEW nx, NEW hd, NEW B, NEW list, NEW used, FreeOK(nx, hd, B, list, used), hd # 0,
           NEW x, NEW new, new = [nx EXCEPT ![hd] = x]
    PROVE  FreeOK(new, nx[hd], B, Tail(list), used \cup {hd})
<1>1. PICK L \in Nat : L = Len(list)
  BY DEF FreeOK
<1>2. /\ list \in Seq(Own!Nodes) /\ hd = (IF L = 0 THEN 0 ELSE list[1])
      /\ \A i \in 1 .. L : list[i] # 0 /\ list[i] \in DOMAIN nx /\ nx[list[i]] = IF i = L THEN 0 ELSE list[i + 1]
      /\ \A i, j \in 1 .. L : list[i] = list[j] => i = j
      /\ On(list) \cap used = {} /\ On(list) \cup used = 1 .. B * NumofObjects
      /\ nx = [n \in Own!Nodes |-> nx[n]] /\ B \in 0 .. MaxBlocks
      /\ On(list) = {list[i] : i \in 1 .. L}
      /\ \A i \in 1 .. L : list[i] \in Own!Nodes
  BY <1>1 DEF FreeOK, Links, On
<1>3. L # 0 /\ L \in 1 .. L /\ 1 \in 1 .. L /\ hd = list[1] /\ hd \in Own!Nodes
  BY <1>2
<1>4. PICK t : t = Tail(list)
  OBVIOUS
<1>5. t \in Seq(Own!Nodes) /\ Len(t) = L - 1 /\ \A i \in 1 .. L - 1 : t[i] = list[i + 1]
  <2>1. list # <<>> /\ list \in Seq(Own!Nodes)
    BY <1>1, <1>2, <1>3, EmptySeq
  <2> QED BY ONLY <1>1, <1>4, <2>1, HeadTailProperties
<1>6. DOMAIN new = DOMAIN nx /\ (\A n \in Own!Nodes : n # hd => new[n] = nx[n])
      /\ new = [n \in Own!Nodes |-> new[n]]
  BY <1>2, <1>3
<1>7. nx[hd] = IF L = 1 THEN 0 ELSE list[2]
  <2>1. nx[list[1]] = IF 1 = L THEN 0 ELSE list[1 + 1]
    BY <1>2, <1>3
  <2> QED BY <1>3, <2>1
<1>8. nx[hd] = IF Len(t) = 0 THEN 0 ELSE t[1]
  <2>1. CASE L = 1
    BY <1>5, <1>7, <2>1
  <2>2. CASE L # 1
    <3>1. 1 \in 1 .. L - 1 /\ Len(t) # 0
      BY <1>3, <1>5, <2>2
    <3>2. t[1] = list[1 + 1]
      BY <1>5, <3>1
    <3> QED BY <1>7, <2>2, <3>1, <3>2
  <2> QED BY <2>1, <2>2
<1>9. ASSUME NEW i \in 1 .. L - 1
      PROVE  t[i] # 0 /\ t[i] \in DOMAIN new /\ new[t[i]] = IF i = L - 1 THEN 0 ELSE t[i + 1]
  <2>1. PICK j \in 1 .. L : j = i + 1 /\ j # 1
    OBVIOUS
  <2>2. t[i] = list[j] /\ list[j] # list[1] /\ list[j] \in Own!Nodes
    BY <1>2, <1>3, <1>5, <2>1
  <2>3. new[list[j]] = nx[list[j]]
    BY <1>3, <1>6, <2>2
  <2>4. nx[list[j]] = IF j = L THEN 0 ELSE list[j + 1]
    BY <1>2
  <2>5. i # L - 1 => t[i + 1] = list[j + 1]
    <3> SUFFICES ASSUME i # L - 1 PROVE t[i + 1] = list[j + 1]
      OBVIOUS
    <3>1. i + 1 \in 1 .. L - 1 /\ (i + 1) + 1 = j + 1
      BY <2>1
    <3> QED BY <1>5, <3>1
  <2> QED BY <1>2, <1>6, <2>1, <2>2, <2>3, <2>4, <2>5
<1>10. ASSUME NEW i \in 1 .. L - 1, NEW j \in 1 .. L - 1, t[i] = t[j] PROVE i = j
  <2>1. i + 1 \in 1 .. L /\ j + 1 \in 1 .. L /\ list[i + 1] = list[j + 1]
    BY <1>5, <1>10
  <2>2. i + 1 = j + 1
    BY <1>2, <2>1
  <2> QED BY <2>2
<1>11. On(list) = On(t) \cup {hd} /\ hd \notin On(t)
  <2>1. On(t) = {t[i] : i \in 1 .. L - 1}
    BY <1>5 DEF On
  <2>2. ASSUME NEW i \in 1 .. L - 1 PROVE t[i] \in On(list) /\ t[i] # hd
    <3>1. PICK j \in 1 .. L : j = i + 1 /\ j # 1
      OBVIOUS
    <3>2. t[i] = list[j]
      BY <1>5, <3>1
    <3>3. list[j] # list[1]
      BY <1>2, <1>3, <3>1
    <3>4. list[j] \in On(list)
      BY ONLY <1>2, j \in 1 .. L
    <3> QED BY <1>3, <3>2, <3>3, <3>4
  <2>3. ASSUME NEW j \in 1 .. L, j # 1 PROVE list[j] \in On(t)
    <3>1. PICK i \in 1 .. L - 1 : j = i + 1
      BY <2>3
    <3> QED BY <1>5, <2>1, <3>1
  <2>4. On(t) \subseteq On(list) /\ hd \in On(list) /\ hd \notin On(t)
    <3>1. hd \in On(list)
      BY ONLY <1>2, <1>3
    <3>2. ASSUME NEW node \in On(t) PROVE node \in On(list) /\ node # hd
      <4>1. PICK i \in 1 .. L - 1 : node = t[i]
        BY ONLY <2>1, <3>2
      <4> QED BY <2>2, <4>1
    <3> QED BY <3>1, <3>2
  <2>5. On(list) \subseteq On(t) \cup {hd}
    BY <1>2, <1>3, <2>3
  <2> QED BY <2>4, <2>5
<1>12. Links(new, nx[hd], t)
  BY ONLY <1>5, <1>8, <1>9 DEF Links
<1>13. On(t) \cap (used \cup {hd}) = {} /\ On(t) \cup (used \cup {hd}) = 1 .. B * NumofObjects
  BY <1>2, <1>11
<1>14. FreeOK(new, nx[hd], B, t, used \cup {hd})
  BY ONLY <1>2, <1>5, <1>6, <1>10, <1>12, <1>13 DEF FreeOK
<1> QED BY <1>4, <1>14

\* Giving a node back.
LEMMA GiveNode ==
    ASSUME NumofObjects \in Nat \ {0}, MaxBlocks \in Nat \ {0},
           NEW nx, NEW hd, NEW B, NEW list, NEW used, FreeOK(nx, hd, B, list, used),
           NEW node \in used, node \in Own!Nodes, NEW new, new = [nx EXCEPT ![node] = hd]
    PROVE  FreeOK(new, node, B, <<node>> \o list, used \ {node})
<1>1. PICK L \in Nat : L = Len(list)
  BY DEF FreeOK
<1>2. /\ list \in Seq(Own!Nodes) /\ hd = (IF L = 0 THEN 0 ELSE list[1])
      /\ \A i \in 1 .. L : list[i] # 0 /\ list[i] \in DOMAIN nx /\ nx[list[i]] = IF i = L THEN 0 ELSE list[i + 1]
      /\ \A i, j \in 1 .. L : list[i] = list[j] => i = j
      /\ On(list) \cap used = {} /\ On(list) \cup used = 1 .. B * NumofObjects
      /\ nx = [n \in Own!Nodes |-> nx[n]] /\ B \in 0 .. MaxBlocks
      /\ On(list) = {list[i] : i \in 1 .. L}
      /\ \A i \in 1 .. L : list[i] \in Own!Nodes /\ list[i] # node
  <2>1. node \notin On(list)
    BY DEF FreeOK
  <2> QED BY <1>1, <2>1 DEF FreeOK, Links, On
<1>3. PICK t : t = <<node>> \o list
  OBVIOUS
<1>4. t \in Seq(Own!Nodes) /\ Len(t) = L + 1 /\ t[1] = node /\ \A i \in 1 .. L : t[i + 1] = list[i]
  BY ONLY <1>1, <1>2, <1>3, node \in Own!Nodes, InFront
<1>5. DOMAIN new = DOMAIN nx /\ new[node] = hd /\ (\A n \in Own!Nodes : n # node => new[n] = nx[n])
      /\ new = [n \in Own!Nodes |-> new[n]] /\ DOMAIN nx = Own!Nodes
  BY <1>2
<1>6. ASSUME NEW i \in 1 .. L + 1
      PROVE  t[i] # 0 /\ t[i] \in DOMAIN new /\ new[t[i]] = IF i = L + 1 THEN 0 ELSE t[i + 1]
  <2>1. CASE i = 1
    <3>1. node # 0
      BY NodeNumbers
    <3>2. L # 0 => 1 \in 1 .. L
      OBVIOUS
    <3>3. L # 0 => t[1 + 1] = list[1]
      BY <1>4, <3>2
    <3> QED BY <1>2, <1>4, <1>5, <2>1, <3>1, <3>3
  <2>2. CASE i # 1
    <3>1. PICK j \in 1 .. L : i = j + 1
      BY <2>2
    <3>2. t[i] = list[j] /\ new[list[j]] = nx[list[j]] /\ list[j] # 0 /\ list[j] \in DOMAIN nx
      BY <1>2, <1>4, <1>5, <3>1
    <3>3. nx[list[j]] = IF j = L THEN 0 ELSE list[j + 1]
      BY <1>2
    <3>4. j # L => t[i + 1] = list[j + 1]
      <4> SUFFICES ASSUME j # L PROVE t[i + 1] = list[j + 1]
        OBVIOUS
      <4>1. j + 1 \in 1 .. L /\ (j + 1) + 1 = i + 1
        BY <3>1
      <4> QED BY <1>4, <4>1
    <3> QED BY <1>5, <3>1, <3>2, <3>3, <3>4
  <2> QED BY <2>1, <2>2
<1>7. ASSUME NEW i \in 1 .. L + 1, NEW j \in 1 .. L + 1, t[i] = t[j] PROVE i = j
  <2>1. \A k \in 1 .. L + 1 : k = 1 \/ \E l \in 1 .. L : k = l + 1
    OBVIOUS
  <2>2. CASE i = 1 /\ j = 1
    BY <2>2
  <2>3. CASE i = 1 /\ j # 1
    <3>1. PICK l \in 1 .. L : j = l + 1
      BY <2>1, <2>3
    <3> QED BY <1>2, <1>4, <1>7, <2>3, <3>1
  <2>4. CASE i # 1 /\ j = 1
    <3>1. PICK l \in 1 .. L : i = l + 1
      BY <2>1, <2>4
    <3> QED BY <1>2, <1>4, <1>7, <2>4, <3>1
  <2>5. CASE i # 1 /\ j # 1
    <3>1. PICK l \in 1 .. L : i = l + 1
      BY <2>1, <2>5
    <3>2. PICK k \in 1 .. L : j = k + 1
      BY <2>1, <2>5
    <3>3. list[l] = list[k]
      BY <1>4, <1>7, <3>1, <3>2
    <3>4. l = k
      BY <1>2, <3>3
    <3> QED BY <3>1, <3>2, <3>4
  <2> QED BY <2>2, <2>3, <2>4, <2>5
<1>8. On(t) = On(list) \cup {node}
  <2>1. On(t) = {t[i] : i \in 1 .. L + 1}
    BY <1>4 DEF On
  <2>2. 1 \in 1 .. L + 1 /\ \A l \in 1 .. L : l + 1 \in 1 .. L + 1
    OBVIOUS
  <2>3. \A k \in 1 .. L + 1 : k = 1 \/ \E l \in 1 .. L : k = l + 1
    OBVIOUS
  <2>4. On(list) \cup {node} \subseteq On(t)
    BY <1>2, <1>4, <2>1, <2>2
  <2>5. ASSUME NEW n \in On(t) PROVE n \in On(list) \cup {node}
    <3>1. PICK k \in 1 .. L + 1 : n = t[k]
      BY ONLY <2>1, <2>5
    <3>2. CASE k = 1
      BY <1>4, <3>1, <3>2
    <3>3. CASE k # 1
      <4>1. PICK l \in 1 .. L : k = l + 1
        BY <2>3, <3>3
      <4>2. n = list[l]
        BY <1>4, <3>1, <4>1
      <4> QED BY ONLY <1>2, <4>2, l \in 1 .. L
    <3> QED BY <3>2, <3>3
  <2> QED BY <2>4, <2>5
<1>9. Links(new, node, t)
  <2>1. L + 1 # 0
    OBVIOUS
  <2> QED BY ONLY <1>4, <1>6, <2>1 DEF Links
<1>10. On(t) \cap (used \ {node}) = {} /\ On(t) \cup (used \ {node}) = 1 .. B * NumofObjects
  BY <1>2, <1>8
<1>11. FreeOK(new, node, B, t, used \ {node})
  BY ONLY <1>2, <1>4, <1>5, <1>7, <1>9, <1>10 DEF FreeOK
<1> QED BY <1>3, <1>11

\* A pool without free nodes gets a block.
LEMMA AddBlock ==
    ASSUME NumofObjects \in Nat \ {0}, MaxBlocks \in Nat \ {0},
           NEW nx, NEW B, NEW list, NEW used, FreeOK(nx, 0, B, list, used), B < MaxBlocks,
           NEW b, b = B + 1, NEW new,
           new = [n \in Own!Nodes |-> IF n \notin Own!NodesOf(b) THEN nx[n]
                                      ELSE IF n = b * NumofObjects THEN 0 ELSE n + 1]
    PROVE  /\ \E t : FreeOK(new, (b - 1) * NumofObjects + 1, b, t, used)
           /\ (b - 1) * NumofObjects + 1 # 0
<1>1. B \in Nat /\ b \in Nat /\ b - 1 = B /\ b <= MaxBlocks /\ B <= MaxBlocks
  BY DEF FreeOK
<1>2. PICK N \in Nat \ {0} : N = NumofObjects
  OBVIOUS
<1>3. PICK base, M \in Nat : base = B * N /\ M = MaxBlocks * N
  BY <1>1
<1>4. b * N = base + N /\ base + N <= M
  <2>1. (B + 1) * N = B * N + N
    BY <1>1, TimesMono
  <2>2. b * N <= MaxBlocks * N
    BY <1>1, TimesMono
  <2> QED BY <1>1, <1>3, <2>1, <2>2
<1>5. Own!Nodes = 1 .. M /\ Own!NodesOf(b) = base + 1 .. base + N
  BY <1>1, <1>2, <1>3, <1>4 DEF Own!Nodes, Own!NodesOf
<1>6. PICK t : t = [i \in 1 .. N |-> base + i]
  OBVIOUS
<1>7. t \in Seq(Own!Nodes) /\ Len(t) = N /\ \A i \in 1 .. N : t[i] = base + i
  <2>1. \A i \in 1 .. N : base + i \in 1 .. M
    BY <1>4
  <2>2. t \in [1 .. N -> 1 .. M]
    BY <1>6, <2>1
  <2>3. t \in Seq(1 .. M) /\ Len(t) = N
    BY ONLY <2>2, N \in Nat
  <2> QED BY <1>5, <1>6, <2>3
<1>8. Len(list) = 0 /\ used = 1 .. base
  <2>1. Len(list) = 0
    <3> SUFFICES ASSUME Len(list) # 0 PROVE FALSE
      OBVIOUS
    <3>1. Len(list) \in Nat /\ 1 \in 1 .. Len(list)
      BY DEF FreeOK
    <3> QED BY <3>1 DEF FreeOK, Links
  <2>2. On(list) = {}
    BY <2>1 DEF On
  <2> QED BY <1>2, <1>3, <2>1, <2>2 DEF FreeOK
<1>9. ASSUME NEW i \in 1 .. N
      PROVE  t[i] # 0 /\ t[i] \in DOMAIN new /\ new[t[i]] = IF i = N THEN 0 ELSE t[i + 1]
  <2>1. t[i] = base + i /\ base + i \in base + 1 .. base + N /\ base + i \in 1 .. M
    BY <1>4, <1>7
  <2>2. new[base + i] = IF base + i = b * NumofObjects THEN 0 ELSE (base + i) + 1
    BY <1>5, <2>1
  <2>3. base + i = b * NumofObjects <=> i = N
    BY <1>2, <1>4
  <2>4. i # N => t[i + 1] = (base + i) + 1
    <3> SUFFICES ASSUME i # N PROVE t[i + 1] = (base + i) + 1
      OBVIOUS
    <3>1. i + 1 \in 1 .. N
      OBVIOUS
    <3>2. t[i + 1] = base + (i + 1)
      BY <1>7, <3>1
    <3> QED BY <3>2
  <2> QED BY <1>5, <2>1, <2>2, <2>3, <2>4
<1>10. Links(new, base + 1, t)
  <2>1. 1 \in 1 .. N /\ N # 0
    OBVIOUS
  <2>2. t[1] = base + 1
    BY <1>7, <2>1
  <2> QED BY ONLY <1>7, <1>9, <2>1, <2>2 DEF Links
<1>11. On(t) = base + 1 .. base + N
  <2>1. On(t) = {t[i] : i \in 1 .. N}
    BY <1>7 DEF On
  <2>2. ASSUME NEW n \in base + 1 .. base + N PROVE n \in On(t)
    <3>1. PICK i \in 1 .. N : n = base + i
      <4>1. n - base \in 1 .. N /\ n = base + (n - base)
        OBVIOUS
      <4> QED BY <4>1
    <3> QED BY <1>7, <2>1, <3>1
  <2>3. \A i \in 1 .. N : base + i \in base + 1 .. base + N
    OBVIOUS
  <2> QED BY <1>7, <2>1, <2>2, <2>3
<1>12. On(t) \cap used = {} /\ On(t) \cup used = 1 .. b * NumofObjects
  <2>1. b * NumofObjects = base + N
    BY <1>2, <1>4
  <2>2. (base + 1 .. base + N) \cap (1 .. base) = {} /\ (base + 1 .. base + N) \cup (1 .. base) = 1 .. base + N
    OBVIOUS
  <2> QED BY <1>8, <1>11, <2>1, <2>2
<1>13. \A i, j \in 1 .. N : t[i] = t[j] => i = j
  BY <1>7
<1>14. new = [n \in Own!Nodes |-> new[n]] /\ b \in 0 .. MaxBlocks
  BY <1>1
<1>15. FreeOK(new, base + 1, b, t, used)
  BY ONLY <1>7, <1>10, <1>12, <1>13, <1>14 DEF FreeOK
<1> QED BY <1>1, <1>2, <1>3, <1>15

\* A pool: the links of its nodes and of its blocks.
Pool(linked, nx, hd, mb, bn, B) ==
    [linked |-> linked, next |-> nx, freeNodeHeader |-> hd, memBlockHeader |-> mb,
     blockNext |-> bn, blocks |-> B]
PoolOK(p, used) ==
    \E linked, nx, hd, mb, bn, B, list :
       /\ p = Pool(linked, nx, hd, mb, bn, B)
       /\ FreeOK(nx, hd, B, list, used) /\ BlocksOK(linked, mb, bn, B)
\* The pool, and the blocks its destructor has deleted.
PoolInv ==
    /\ PoolOK(obj, held)
    /\ ret # <<>> => Len(ret) = obj.blocks /\ {ret[k] : k \in 1 .. Len(ret)} = 1 .. obj.blocks

\* The pool without blocks.
LEMMA EmptyPool ==
    ASSUME NumofObjects \in Nat \ {0}, MaxBlocks \in Nat \ {0}, NEW linked
    PROVE  PoolOK(Own!Empty(linked), {})
<1>1. PICK nx, bn, list : nx = [n \in Own!Nodes |-> 0] /\ bn = [b \in 1 .. MaxBlocks |-> 0] /\ list = <<>>
  OBVIOUS
<1>2. list \in Seq(Own!Nodes) /\ Len(list) = 0 /\ On(list) = {}
  BY <1>1 DEF On
<1>3. Links(nx, 0, list)
  BY <1>2 DEF Links
<1>4. 0 * NumofObjects = 0 /\ 0 \in 0 .. MaxBlocks
  OBVIOUS
<1>5. 1 .. 0 * NumofObjects = {} /\ nx = [n \in Own!Nodes |-> nx[n]] /\ bn = [b \in 1 .. MaxBlocks |-> bn[b]]
  BY <1>1, <1>4
<1>6. FreeOK(nx, 0, 0, list, {})
  BY <1>2, <1>3, <1>4, <1>5 DEF FreeOK
<1>7. BlocksOK(linked, 0, bn, 0)
  BY <1>5 DEF BlocksOK
<1>8. Own!Empty(linked) = Pool(linked, nx, 0, 0, bn, 0)
  BY <1>1 DEF Own!Empty, Pool, Own!NoNode
<1> QED BY <1>6, <1>7, <1>8 DEF PoolOK

\* A pool gets a block when it has no free node.
LEMMA RefilledPool ==
    ASSUME NumofObjects \in Nat \ {0}, MaxBlocks \in Nat \ {0}, NEW p, NEW used, PoolOK(p, used),
           p.freeNodeHeader = 0 => p.blocks < MaxBlocks
    PROVE  PoolOK(Own!Refilled(p), used) /\ Own!Refilled(p).freeNodeHeader # 0
<1>1. PICK linked, nx, hd, mb, bn, B, list :
         /\ p = Pool(linked, nx, hd, mb, bn, B)
         /\ FreeOK(nx, hd, B, list, used) /\ BlocksOK(linked, mb, bn, B)
  BY DEF PoolOK
<1>2. p = [linked |-> linked, next |-> nx, freeNodeHeader |-> hd, memBlockHeader |-> mb,
           blockNext |-> bn, blocks |-> B]
  BY <1>1 DEF Pool
<1>3. /\ p.linked = linked /\ p.next = nx /\ p.freeNodeHeader = hd /\ p.memBlockHeader = mb
      /\ p.blockNext = bn /\ p.blocks = B
  BY <1>2
<1>4. CASE hd # 0
  BY <1>3, <1>4 DEF Own!Refilled, Own!NoNode
<1>5. CASE hd = 0
  <2>1. B < MaxBlocks /\ B \in Nat
    BY <1>1, <1>3, <1>5 DEF FreeOK
  <2>2. PICK b \in 1 .. MaxBlocks : b = B + 1
    BY <2>1
  <2>3. PICK new : new = [n \in Own!Nodes |-> IF n \notin Own!NodesOf(b) THEN nx[n]
                                      ELSE IF n = b * NumofObjects THEN 0 ELSE n + 1]
    OBVIOUS
  <2>4. PICK h : h = (b - 1) * NumofObjects + 1
    OBVIOUS
  <2>5. (\E t : FreeOK(new, h, b, t, used)) /\ h # 0
    BY <1>1, <1>5, <2>1, <2>2, <2>3, <2>4, AddBlock
  <2>6. Own!Chained(p, b) = Pool(linked, new, h, mb, bn, b)
    <3>1. new = [n \in Own!Nodes |-> IF n \notin Own!NodesOf(b) THEN p.next[n]
                                     ELSE IF n = b * NumofObjects THEN 0 ELSE n + 1]
      BY <1>3, <2>3
    <3>2. Own!Chained(p, b) = [p EXCEPT !.next = new, !.freeNodeHeader = h, !.blocks = b]
      BY <2>4, <3>1, Zenon DEF Own!Chained, Own!NoNode
    <3> QED BY ONLY <1>2, <3>2 DEF Pool
  <2>7. bn = [c \in 1 .. MaxBlocks |-> bn[c]] /\ (linked => mb = B /\ \A c \in 1 .. B : bn[c] = c - 1)
    BY <1>1 DEF BlocksOK
  <2>8. CASE linked
    <3>1. PICK bm : bm = [bn EXCEPT ![b] = mb]
      OBVIOUS
    <3>2. Own!Refilled(p) = Pool(linked, new, h, b, bm, b)
      <4>1. Own!Refilled(p) = [Own!Chained(p, b) EXCEPT !.memBlockHeader = b, !.blockNext[b] = mb]
        BY <1>3, <1>5, <2>2, <2>8, Zenon DEF Own!Refilled, Own!NoNode
      <4>2. Own!Chained(p, b) = [linked |-> linked, next |-> new, freeNodeHeader |-> h, memBlockHeader |-> mb,
                                 blockNext |-> bn, blocks |-> b]
        BY <2>6 DEF Pool
      <4>3. PICK c : c = Own!Chained(p, b)
        OBVIOUS
      <4>4. c.blockNext = bn /\ [c.blockNext EXCEPT ![b] = mb] = bm
        BY ONLY <3>1, <4>2, <4>3
      <4>5. [c EXCEPT !.memBlockHeader = b, !.blockNext[b] = mb] = [c EXCEPT !.memBlockHeader = b, !.blockNext = bm]
        BY ONLY <4>2, <4>3, <4>4
      <4>6. [c EXCEPT !.memBlockHeader = b, !.blockNext = bm] = Pool(linked, new, h, b, bm, b)
        <5>1. c = [linked |-> linked, next |-> new, freeNodeHeader |-> h, memBlockHeader |-> mb,
                   blockNext |-> bn, blocks |-> b]
          BY <4>2, <4>3
        <5>2. PICK d : d = [c EXCEPT !.memBlockHeader = b, !.blockNext = bm]
          OBVIOUS
        <5>3. /\ d.linked = linked /\ d.next = new /\ d.freeNodeHeader = h /\ d.memBlockHeader = b
              /\ d.blockNext = bm /\ d.blocks = b
          BY ONLY <5>1, <5>2
        <5>4. d = [linked |-> d.linked, next |-> d.next, freeNodeHeader |-> d.freeNodeHeader,
                   memBlockHeader |-> d.memBlockHeader, blockNext |-> d.blockNext, blocks |-> d.blocks]
          BY ONLY <5>1, <5>2
        <5> QED BY ONLY <5>2, <5>3, <5>4 DEF Pool
      <4> QED BY ONLY <4>1, <4>3, <4>5, <4>6
    <3>3. bm = [c \in 1 .. MaxBlocks |-> bm[c]] /\ bm[b] = mb /\ \A c \in 1 .. MaxBlocks : c # b => bm[c] = bn[c]
      BY <2>7, <3>1
    <3>4. \A c \in 1 .. b : bm[c] = c - 1
      <4> SUFFICES ASSUME NEW c \in 1 .. b PROVE bm[c] = c - 1
        OBVIOUS
      <4>1. CASE c = b
        BY <2>1, <2>2, <2>7, <2>8, <3>3, <4>1
      <4>2. CASE c # b
        <5>1. c \in 1 .. B /\ c \in 1 .. MaxBlocks
          BY <2>1, <2>2, <4>2
        <5> QED BY <2>7, <2>8, <3>3, <4>2, <5>1
      <4> QED BY <4>1, <4>2
    <3>5. BlocksOK(linked, b, bm, b)
      BY <3>3, <3>4 DEF BlocksOK
    <3>6. PoolOK(Own!Refilled(p), used)
      BY <2>5, <3>2, <3>5 DEF PoolOK
    <3> QED BY <2>5, <3>2, <3>6 DEF Pool
  <2>9. CASE ~ linked
    <3>1. Own!Refilled(p) = Pool(linked, new, h, mb, bn, b)
      BY <1>3, <1>5, <2>2, <2>6, <2>9 DEF Own!Refilled, Own!NoNode
    <3>2. BlocksOK(linked, mb, bn, b)
      BY <2>7, <2>9 DEF BlocksOK
    <3>3. PoolOK(Own!Refilled(p), used)
      BY <2>5, <3>1, <3>2 DEF PoolOK
    <3> QED BY <2>5, <3>1, <3>3 DEF Pool
  <2> QED BY <2>8, <2>9
<1> QED BY <1>4, <1>5

\* The first states of the pools have the invariant.
LEMMA PoolInits == ASSUME NumofObjects \in Nat \ {0}, MaxBlocks \in Nat \ {0} PROVE Own!PoolInit => PoolInv
<1> SUFFICES ASSUME Own!PoolInit PROVE PoolInv
  OBVIOUS
<1>1. held = {} /\ ret = <<>> /\ obj \in {Own!Empty(TRUE), Own!Chained(Own!Empty(FALSE), 1)}
  BY DEF Own!PoolInit
<1>2. CASE obj = Own!Empty(TRUE)
  BY <1>1, <1>2, EmptyPool DEF PoolInv
<1>3. CASE obj = Own!Chained(Own!Empty(FALSE), 1)
  <2>1. PICK p : p = Own!Empty(FALSE)
    OBVIOUS
  <2>2. p.freeNodeHeader = 0 /\ p.blocks = 0 /\ p.linked = FALSE
    BY <2>1 DEF Own!Empty, Own!NoNode
  <2>3. Own!Refilled(p) = Own!Chained(p, 1)
    BY <2>2 DEF Own!Refilled, Own!NoNode
  <2>4. PoolOK(p, {})
    BY <2>1, EmptyPool
  <2>5. p.blocks < MaxBlocks
    BY <2>2
  <2>6. PoolOK(Own!Refilled(p), {})
    BY <2>4, <2>5, RefilledPool
  <2> QED BY <1>1, <1>3, <2>1, <2>3, <2>6 DEF PoolInv
<1> QED BY <1>1, <1>2, <1>3

\* The calls of the pools keep it.
LEMMA PoolSteps ==
    ASSUME NumofObjects \in Nat \ {0}, MaxBlocks \in Nat \ {0}, PoolInv, Own!PoolNext PROVE PoolInv'
<1>1. CASE Own!New
  <2>1. PICK p : p = Own!Refilled(obj)
    OBVIOUS
  <2>2. /\ ret = <<>> /\ ret' = ret /\ (obj.freeNodeHeader = 0 => obj.blocks < MaxBlocks)
        /\ obj' = [p EXCEPT !.freeNodeHeader = p.next[p.freeNodeHeader], !.next[p.freeNodeHeader] = Own!Scribbled]
        /\ held' = held \cup {p.freeNodeHeader}
    BY <1>1, <2>1 DEF Own!New, Own!NoNode
  <2>3. PoolOK(p, held) /\ p.freeNodeHeader # 0
    BY <2>1, <2>2, RefilledPool DEF PoolInv
  <2>4. PICK linked, nx, hd, mb, bn, B, list :
         /\ p = Pool(linked, nx, hd, mb, bn, B)
         /\ FreeOK(nx, hd, B, list, held) /\ BlocksOK(linked, mb, bn, B)
    BY <2>3 DEF PoolOK
  <2>5. p.freeNodeHeader = hd /\ p.next = nx
    BY <2>4 DEF Pool
  <2>6. PICK new : new = [nx EXCEPT ![hd] = Own!Scribbled]
    OBVIOUS
  <2>7. obj' = Pool(linked, new, nx[hd], mb, bn, B)
    BY <2>2, <2>4, <2>5, <2>6 DEF Pool
  <2>8. FreeOK(new, nx[hd], B, Tail(list), held \cup {hd})
    BY <2>3, <2>4, <2>5, <2>6, TakeNode
  <2>9. PoolOK(obj', held')
    BY ONLY <2>2, <2>4, <2>5, <2>7, <2>8 DEF PoolOK
  <2> QED BY <2>2, <2>9 DEF PoolInv
<1>2. CASE Own!PoolDestroy
  <2>1. /\ obj.linked /\ obj.blocks > 0 /\ obj' = obj /\ held' = held
        /\ ret' = Own!Walk(obj.blockNext, obj.memBlockHeader, MaxBlocks)
    BY <1>2 DEF Own!PoolDestroy
  <2>2. PICK linked, nx, hd, mb, bn, B, list :
         /\ obj = Pool(linked, nx, hd, mb, bn, B)
         /\ FreeOK(nx, hd, B, list, held) /\ BlocksOK(linked, mb, bn, B)
    BY DEF PoolInv, PoolOK
  <2>3. linked /\ obj.blockNext = bn /\ obj.memBlockHeader = mb /\ obj.blocks = B
    BY <2>1, <2>2 DEF Pool
  <2>4. /\ B \in Nat /\ B <= MaxBlocks /\ B > 0
        /\ bn = [b \in 1 .. MaxBlocks |-> bn[b]] /\ mb = B /\ \A b \in 1 .. B : bn[b] = b - 1
    <3>1. B \in Nat /\ B <= MaxBlocks
      BY <2>2 DEF FreeOK
    <3>2. bn = [b \in 1 .. MaxBlocks |-> bn[b]] /\ mb = B /\ \A b \in 1 .. B : bn[b] = b - 1
      BY ONLY <2>2, <2>3 DEF BlocksOK
    <3> QED BY <2>1, <2>3, <3>1, <3>2
  <2>5. PICK s : s = [k \in 1 .. B |-> B + 1 - k]
    OBVIOUS
  <2>6. s \in Seq(Nat) /\ Len(s) = B /\ \A k \in 1 .. B : s[k] = B + 1 - k
    <3>1. s \in [1 .. B -> Nat]
      BY <2>4, <2>5
    <3>2. s \in Seq(Nat) /\ Len(s) = B
      BY ONLY <3>1, <2>4
    <3> QED BY <2>5, <3>2
  <2>7. ASSUME NEW i \in 1 .. B
        PROVE  s[i] # 0 /\ s[i] \in DOMAIN bn /\ bn[s[i]] = IF i = B THEN 0 ELSE s[i + 1]
    <3>1. s[i] = B + 1 - i /\ B + 1 - i \in 1 .. B /\ B + 1 - i \in 1 .. MaxBlocks
      BY <2>4, <2>6
    <3>2. bn[s[i]] = B - i
      <4>1. PICK b \in 1 .. B : b = B + 1 - i
        BY <3>1
      <4>2. bn[b] = b - 1 /\ s[i] = b /\ b - 1 = B - i
        <5>1. bn[b] = b - 1
          BY <2>4
        <5>2. b - 1 = B - i
          BY ONLY <2>4, <4>1, i \in 1 .. B
        <5> QED BY <3>1, <4>1, <5>1, <5>2
      <4> QED BY <4>2
    <3>3. i # B => s[i + 1] = B - i
      <4> SUFFICES ASSUME i # B PROVE s[i + 1] = B - i
        OBVIOUS
      <4>1. i + 1 \in 1 .. B
        BY <2>4
      <4>2. s[i + 1] = B + 1 - (i + 1)
        BY <2>6, <4>1
      <4> QED BY <2>4, <4>2
    <3>4. DOMAIN bn = 1 .. MaxBlocks
      BY <2>4
    <3> QED BY <2>4, <3>1, <3>2, <3>3, <3>4
  <2>8. Links(bn, mb, s)
    <3>1. mb = IF B = 0 THEN 0 ELSE s[1]
      BY <2>4, <2>6
    <3> QED BY ONLY <2>6, <2>7, <3>1 DEF Links
  <2>9. 0 \notin DOMAIN bn
    BY <2>4
  <2>10. Own!Walk(bn, mb, MaxBlocks) = s
    BY <2>4, <2>6, <2>8, <2>9, WalkFinds
  <2>11. {s[k] : k \in 1 .. Len(s)} = 1 .. B
    <3>1. ASSUME NEW b \in 1 .. B PROVE \E k \in 1 .. B : s[k] = b
      <4>1. B + 1 - b \in 1 .. B /\ B + 1 - (B + 1 - b) = b
        BY <2>4
      <4>2. s[B + 1 - b] = B + 1 - (B + 1 - b)
        BY <2>6, <4>1
      <4> QED BY <4>1, <4>2
    <3>2. \A k \in 1 .. B : s[k] \in 1 .. B
      BY <2>4, <2>6
    <3> QED BY <2>6, <3>1, <3>2
  <2>12. ret' = s /\ obj'.blocks = B
    BY <2>1, <2>3, <2>10
  <2> QED BY <2>1, <2>6, <2>11, <2>12 DEF PoolInv
<1>3. ASSUME NEW node \in Own!Nodes, Own!Delete(node) PROVE PoolInv'
  <2>1. /\ ret = <<>> /\ ret' = ret /\ node \in held /\ held' = held \ {node}
        /\ obj' = [obj EXCEPT !.next[node] = obj.freeNodeHeader, !.freeNodeHeader = node]
    BY <1>3 DEF Own!Delete
  <2>2. PICK linked, nx, hd, mb, bn, B, list :
         /\ obj = Pool(linked, nx, hd, mb, bn, B)
         /\ FreeOK(nx, hd, B, list, held) /\ BlocksOK(linked, mb, bn, B)
    BY DEF PoolInv, PoolOK
  <2>3. PICK new : new = [nx EXCEPT ![node] = hd]
    OBVIOUS
  <2>4. obj' = Pool(linked, new, node, mb, bn, B)
    BY <2>1, <2>2, <2>3 DEF Pool
  <2>5. FreeOK(new, node, B, <<node>> \o list, held \ {node})
    BY <2>1, <2>2, <2>3, GiveNode
  <2>6. PoolOK(obj', held')
    BY ONLY <2>1, <2>2, <2>4, <2>5 DEF PoolOK
  <2> QED BY <2>1, <2>6 DEF PoolInv
<1> QED BY <1>1, <1>2, <1>3 DEF Own!PoolNext

\* It implies the property of the pools.
LEMMA PoolIsSound ==
    ASSUME NumofObjects \in Nat \ {0}, MaxBlocks \in Nat \ {0}, PoolInv PROVE Own!PoolSound
<1>1. PICK linked, nx, hd, mb, bn, B, list :
         /\ obj = Pool(linked, nx, hd, mb, bn, B)
         /\ FreeOK(nx, hd, B, list, held) /\ BlocksOK(linked, mb, bn, B)
  BY DEF PoolInv, PoolOK
<1>2. obj.next = nx /\ obj.freeNodeHeader = hd /\ obj.blocks = B
  BY <1>1 DEF Pool
<1>3. PICK L \in Nat : L = Len(list)
  BY <1>1 DEF FreeOK
<1>4. /\ B \in Nat /\ nx = [n \in Own!Nodes |-> nx[n]] /\ list \in Seq(Own!Nodes) /\ Links(nx, hd, list)
      /\ \A i, j \in 1 .. L : list[i] = list[j] => i = j
      /\ On(list) \cap held = {} /\ On(list) \cup held = 1 .. B * NumofObjects
      /\ On(list) = {list[k] : k \in 1 .. L} /\ \A i \in 1 .. L : list[i] \in Own!Nodes
  BY <1>1, <1>3 DEF FreeOK, On
<1>5. IsFiniteSet(1 .. L) /\ Cardinality(1 .. L) = L
  <2>1. IsFiniteSet(1 .. L) /\ Cardinality(1 .. L) = IF 1 > L THEN 0 ELSE L - 1 + 1
    BY ONLY FS_Interval, L \in Nat
  <2> QED BY <2>1
<1>6. IsFiniteSet(On(list)) /\ Cardinality(On(list)) = L
  <2>1. PICK f : f = [i \in 1 .. L |-> list[i]]
    OBVIOUS
  <2>2. f \in Bijection(1 .. L, On(list))
    <3>1. f \in [1 .. L -> On(list)]
      BY ONLY <1>4, <2>1
    <3>2. \A i, j \in 1 .. L : f[i] = f[j] => i = j
      BY ONLY <1>4, <2>1
    <3>3. \A n \in On(list) : \E i \in 1 .. L : f[i] = n
      BY ONLY <1>4, <2>1
    <3> QED BY ONLY <3>1, <3>2, <3>3 DEF Bijection, Injection, IsInjective, Surjection
  <2>3. ExistsBijection(1 .. L, On(list))
    BY ONLY <2>2 DEF ExistsBijection
  <2> QED BY ONLY <1>5, <2>3, FS_Bijection
<1>7. On(list) \subseteq Own!Nodes
  BY ONLY <1>4
<1>8. L <= Own!Scribbled /\ Own!Scribbled \in Nat
  <2>1. IsFiniteSet(Own!Nodes) /\ Cardinality(Own!Nodes) < Own!Scribbled /\ Own!Scribbled \in Nat
    BY NodeNumbers
  <2>2. Cardinality(On(list)) <= Cardinality(Own!Nodes) /\ Cardinality(Own!Nodes) \in Nat
    BY ONLY <1>7, <2>1, FS_Subset, FS_CardinalityType
  <2> QED BY <1>6, <2>1, <2>2
<1>9. Own!Walk(nx, hd, Own!Scribbled) = list
  <2>1. 0 \notin DOMAIN nx
    BY <1>4, NodeNumbers
  <2> QED BY <1>3, <1>4, <1>8, <2>1, WalkFinds
<1>10. UNION {Own!NodesOf(b) : b \in 1 .. B} = 1 .. B * NumofObjects
  BY <1>4, NodesOfBlocks
<1>11. Len(list) = Own!Cardinality(On(list))
  BY <1>3, <1>6, SameCount
<1>12. On(list) = {list[k] : k \in 1 .. Len(list)}
  BY DEF On
<1>13. ret # <<>> => Len(ret) = obj.blocks /\ {ret[k] : k \in 1 .. Len(ret)} = 1 .. obj.blocks
  BY ONLY PoolInv DEF PoolInv
<1>14. /\ Len(list) = Own!Cardinality({list[k] : k \in 1 .. Len(list)})
       /\ {list[k] : k \in 1 .. Len(list)} \cap held = {}
       /\ {list[k] : k \in 1 .. Len(list)} \cup held = UNION {Own!NodesOf(b) : b \in 1 .. B}
  BY ONLY <1>4, <1>10, <1>11, <1>12, Zenon
<1>15. Own!Walk(obj.next, obj.freeNodeHeader, Own!Scribbled) = list
  BY <1>2, <1>9
<1>16. UNION {Own!NodesOf(b) : b \in 1 .. B} = UNION {Own!NodesOf(b) : b \in 1 .. obj.blocks}
  BY ONLY <1>2
<1> QED BY ONLY <1>13, <1>14, <1>15, <1>16, Zenon DEF Own!PoolSound

-----------------------------------------------------------------------------
(* The class basic_string. *)

\* A buffer a of n characters shows the text before its first NUL.
Shows(a, n, text) ==
    \E k \in 0 .. n - 1 :
       /\ a[k] = 0 /\ \A j \in 0 .. k - 1 : a[j] # 0
       /\ text = [i \in 1 .. k |-> a[i - 1]]
MyStr(a, e) == [data |-> a, _end |-> e]
Buffer(a, n) == n \in Nat \ {0} /\ a \in [0 .. n - 1 -> Int]
\* A string that ends at e in a buffer and stands for a text; only if it was copied can
\* somebody else write into the buffer.
Says(a, n, e, text) ==
    /\ e = 0 => text = <<>> /\ \A i \in 0 .. n - 1 : a[i] = -1
    /\ e # 0 => e = Len(text) + 1 /\ text \in Seq(Nat \ {0}) /\ Shows(a, n, text)
MyStrOK(a, e, text, copied) ==
    \E n : /\ Buffer(a, n) /\ e \in 0 .. n
           /\ e # 0 /\ ~ copied => a[e - 1] = 0
           /\ text # Strings!NoText => Says(a, n, e, text)
\* The live strings whose buffers are not released are such strings; only copies share a
\* buffer or point to one that is released.
MyHeap(begin, end, heap, text, copied) ==
    /\ begin \in [StringVars -> Nat] /\ end = [v \in StringVars |-> end[v]]
    /\ text = [v \in StringVars |-> text[v]]
    /\ IsFiniteSet(DOMAIN heap) /\ DOMAIN heap \subseteq Nat \ {0}
    /\ \A v \in StringVars : begin[v] \in DOMAIN heap =>
          MyStrOK(heap[begin[v]], end[v], text[v], v \in copied)
    /\ \A v \in StringVars : begin[v] # 0 /\ begin[v] \notin DOMAIN heap => v \in copied
    /\ \A v, w \in StringVars : v # w /\ begin[v] # 0 /\ begin[v] = begin[w] => v \in copied
MyStrInv ==
    /\ obj = [begin |-> obj.begin, end |-> obj.end, heap |-> obj.heap]
    /\ held = [text |-> held.text, copied |-> held.copied]
    /\ MyHeap(obj.begin, obj.end, obj.heap, held.text, held.copied)
    /\ ret[1] = ret[2]
\* The calls are made while no string points to a released buffer.
Intact == \A v \in StringVars : ~ Strings!Dangles(v)

\* Doubling reaches a capacity above any length.
LEMMA CapacityFor ==
    ASSUME STRING_INIT_SIZE \in Nat \ {0}, NEW len \in Nat
    PROVE  Strings!get_realloc_size(len) \in Nat \ {0} /\ len < Strings!get_realloc_size(len)
<1> DEFINE D == Nat \ {0}
           doubled == CHOOSE f : f = [res \in D |-> IF res <= len THEN f[2 * res] ELSE res]
<1>1. PICK nx : nx = [res \in D |-> IF res <= len THEN 2 * res ELSE 0]
  OBVIOUS
<1>2. PICK h : h = [res \in D |-> IF res <= len THEN len + 1 - res ELSE 0]
  OBVIOUS
<1>3. h \in [D -> Nat] /\ len + 2 \in Nat
  <2>1. \A res \in D : (IF res <= len THEN len + 1 - res ELSE 0) \in Nat
    OBVIOUS
  <2> QED BY ONLY <1>2, <2>1, len \in Nat
<1>4. ASSUME NEW x \in D
      PROVE  h[x] < len + 2 /\ (nx[x] # 0 => nx[x] \in D /\ h[nx[x]] < h[x])
  <2>1. CASE x <= len
    <3>1. nx[x] = 2 * x /\ 2 * x \in D /\ h[x] = len + 1 - x
      BY <1>1, <1>2, <2>1
    <3>2. h[2 * x] = IF 2 * x <= len THEN len + 1 - 2 * x ELSE 0
      BY <1>2, <3>1
    <3> QED BY <2>1, <3>1, <3>2
  <2>2. CASE ~ (x <= len)
    BY <1>1, <1>2, <2>2
  <2> QED BY <2>1, <2>2
<1>5. PICK f : f = [x \in D |-> IF nx[x] = 0 THEN x ELSE f[nx[x]]]
  <2> HIDE DEF D
  <2> QED BY ONLY <1>3, <1>4, Descent
<1>6. \A x \in D : f[x] = IF nx[x] = 0 THEN x ELSE f[nx[x]]
  <2> HIDE DEF D
  <2> QED BY ONLY <1>5
<1>7. f = [res \in D |-> IF res <= len THEN f[2 * res] ELSE res]
  <2>1. \A res \in D : (IF nx[res] = 0 THEN res ELSE f[nx[res]])
                          = IF res <= len THEN f[2 * res] ELSE res
    BY <1>1
  <2> HIDE DEF D
  <2> QED BY ONLY <1>5, <2>1
<1>8. doubled = [res \in D |-> IF res <= len THEN doubled[2 * res] ELSE res]
  <2> HIDE DEF D
  <2> QED BY ONLY <1>7
<1>9. \A x \in D : doubled[x] = IF nx[x] = 0 THEN x ELSE doubled[nx[x]]
  <2>1. \A x \in D : doubled[x] = IF x <= len THEN doubled[2 * x] ELSE x
    <3> HIDE DEF D, doubled
    <3> QED BY ONLY <1>8
  <2> HIDE DEF doubled
  <2> QED BY <1>1, <2>1
<1>10. \A x \in D : doubled[x] \in D /\ nx[doubled[x]] = 0
  <2>1. D \in SUBSET D /\ \A x \in D : nx[x] # 0 => nx[x] \in D /\ h[nx[x]] < h[x]
    BY <1>4
  <2> HIDE DEF D, doubled
  <2> QED BY ONLY <1>3, <1>9, <2>1, DescentEnds
<1>11. Strings!get_realloc_size(len) = doubled[STRING_INIT_SIZE]
  BY DEF Strings!get_realloc_size
<1> HIDE DEF doubled
<1>12. PICK n \in D : n = doubled[STRING_INIT_SIZE] /\ nx[n] = 0
  BY <1>10
<1>13. len < n
  BY <1>1, <1>12
<1> QED BY <1>11, <1>12, <1>13

\* A fresh buffer, and its capacity.
LEMMA FreshBuffer ==
    ASSUME NEW n \in Nat \ {0}
    PROVE  \E a : Strings!Fresh(n) = MyStr(a, 0) /\ Buffer(a, n) /\ \A i \in 0 .. n - 1 : a[i] = -1
<1>1. PICK a : a = [i \in 0 .. n - 1 |-> -1]
  OBVIOUS
<1>2. a \in [0 .. n - 1 -> Int] /\ \A i \in 0 .. n - 1 : a[i] = -1
  BY <1>1
<1>3. Strings!Fresh(n) = MyStr(a, 0)
  BY <1>1 DEF Strings!Fresh, Strings!Unset, MyStr
<1> QED BY <1>2, <1>3, Zenon DEF Buffer

\* The capacity of a string is the size of its buffer.
LEMMA CapacityIs ==
    ASSUME NEW a, NEW n, Buffer(a, n), NEW e
    PROVE  Strings!capacity(MyStr(a, e)) = n
<1>1. n \in Nat /\ DOMAIN a = 0 .. n - 1 /\ n # 0
  BY DEF Buffer
<1>2. IsFiniteSet(0 .. n - 1) /\ Cardinality(0 .. n - 1) = IF 0 > n - 1 THEN 0 ELSE (n - 1) - 0 + 1
  <2>1. 0 \in Int /\ n - 1 \in Int
    BY <1>1
  <2> QED BY ONLY <2>1, FS_Interval
<1>3. Cardinality(0 .. n - 1) = n
  BY <1>1, <1>2
<1>4. MyStr(a, e).data = a
  BY DEF MyStr
<1>5. Strings!Cardinality(DOMAIN a) = n
  BY <1>1, <1>3, SameCount
<1> QED BY <1>4, <1>5 DEF Strings!capacity, Strings!size

\* text, element by element: the buffer has a NUL behind it and none in it.
Spells(a, n, text) ==
    /\ text \in Seq(Int) /\ \A i \in 1 .. Len(text) : text[i] # 0
    /\ Len(text) \in 0 .. n - 1 /\ a[Len(text)] = 0
    /\ \A i \in 0 .. Len(text) - 1 : a[i] # 0 /\ text[i + 1] = a[i]

\* What is shown does not depend on the choice, and has no NUL.
LEMMA ShownIs ==
    ASSUME NEW n \in Nat, NEW a \in [0 .. n - 1 -> Int], NEW text, Shows(a, n, text)
    PROVE  Spells(a, n, text) /\ \A e : Strings!CText(MyStr(a, e)) = text
<1>1. PICK k \in 0 .. n - 1 :
       /\ a[k] = 0 /\ \A j \in 0 .. k - 1 : a[j] # 0
       /\ text = [i \in 1 .. k |-> a[i - 1]]
  BY DEF Shows
<1>2. text \in Seq(Int) /\ Len(text) = k /\ \A i \in 1 .. k : text[i] = a[i - 1]
  <2>1. \A i \in 1 .. k : i - 1 \in 0 .. n - 1
    OBVIOUS
  <2>2. text \in [1 .. k -> Int]
    BY <1>1, <2>1
  <2>3. text \in Seq(Int) /\ Len(text) = k
    BY ONLY <2>2, k \in 0 .. n - 1, n \in Nat
  <2> QED BY <1>1, <2>3
<1>3. \A i \in 1 .. k : i - 1 \in 0 .. k - 1 /\ text[i] = a[i - 1]
  BY <1>2
<1>4. \A i \in 0 .. k - 1 : i + 1 \in 1 .. k /\ (i + 1) - 1 = i
  OBVIOUS
<1>5. \A i \in 0 .. k - 1 : text[i + 1] = a[i]
  BY <1>3, <1>4
<1> DEFINE m == CHOOSE x \in DOMAIN a : a[x] = 0 /\ \A j \in 0 .. x - 1 : a[j] # 0
<1>6. m = k
  <2>1. DOMAIN a = 0 .. n - 1
    OBVIOUS
  <2>2. m \in 0 .. n - 1 /\ a[m] = 0 /\ \A j \in 0 .. m - 1 : a[j] # 0
    BY <1>1, <2>1
  <2> HIDE DEF m
  <2>3. ~ (m < k)
    <3>1. m < k => m \in 0 .. k - 1
      BY <2>2
    <3> QED BY <1>1, <2>2, <3>1
  <2>4. ~ (k < m)
    <3>1. k < m => k \in 0 .. m - 1
      BY <2>2
    <3> QED BY <1>1, <2>2, <3>1
  <2> QED BY <2>2, <2>3, <2>4
<1>7. ASSUME NEW e PROVE Strings!CText(MyStr(a, e)) = [i \in 1 .. m |-> a[i - 1]]
  <2>1. MyStr(a, e).data = a
    BY DEF MyStr
  <2> QED BY <2>1, Zenon DEF Strings!CText, Strings!NUL
<1> HIDE DEF m
<1>8. \A e : Strings!CText(MyStr(a, e)) = text
  BY <1>1, <1>6, <1>7
<1>9. Spells(a, n, text)
  BY <1>1, <1>2, <1>3, <1>5 DEF Spells
<1> QED BY <1>8, <1>9

\* A buffer with a NUL shows a text that ends before it.
LEMMA ShowsOne ==
    ASSUME NEW n \in Nat, NEW a \in [0 .. n - 1 -> Int], NEW p \in 0 .. n - 1, a[p] = 0
    PROVE  \E text : Shows(a, n, text) /\ Len(text) <= p
<1> DEFINE T == {k \in Nat : k \in 0 .. n - 1 /\ a[k] = 0}
<1>1. T \in SUBSET Nat /\ p \in T
  OBVIOUS
<1>2. PICK k \in T : \A j \in T : k <= j
  <2> HIDE DEF T
  <2> QED BY <1>1, Least
<1>3. k \in 0 .. n - 1 /\ a[k] = 0 /\ k <= p
  BY <1>1, <1>2
<1>4. ASSUME NEW j \in 0 .. k - 1 PROVE a[j] # 0
  <2>1. j \in Nat /\ j \in 0 .. n - 1 /\ ~ (k <= j)
    BY <1>3
  <2> QED BY <1>2, <2>1
<1>5. PICK text : text = [i \in 1 .. k |-> a[i - 1]]
  OBVIOUS
<1>6. Shows(a, n, text)
  BY <1>3, <1>4, <1>5 DEF Shows
<1>7. Len(text) = k
  <2>1. \A i \in 1 .. k : i - 1 \in 0 .. n - 1
    BY <1>3
  <2>2. text \in [1 .. k -> Int]
    BY <1>5, <2>1
  <2> QED BY ONLY <1>3, <2>2, n \in Nat
<1> QED BY <1>3, <1>6, <1>7

\* b has n characters and in them, from start, a text and a NUL.
HasText(b, n, start, text) ==
    /\ b \in [0 .. n - 1 -> Int] /\ b[start + Len(text)] = 0
    /\ \A i \in 1 .. Len(text) : b[start + i - 1] = text[i]
\* Writing a text and a NUL into a buffer that has room for them.
LEMMA WrittenIs ==
    ASSUME NEW n \in Nat, NEW a \in [0 .. n - 1 -> Int], NEW start \in Nat, NEW text \in Seq(Int),
           start + Len(text) + 1 <= n, NEW b, b = Strings!Written(a, start, text)
    PROVE  HasText(b, n, start, text)
<1>1. PICK L \in Nat : L = Len(text)
  OBVIOUS
<1>2. \A i \in 1 .. L : text[i] \in Int
  BY <1>1
<1>3. b = [i \in 0 .. n - 1 |-> IF i \in start .. start + L - 1 THEN text[i - start + 1]
                                 ELSE IF i = start + L THEN 0 ELSE a[i]]
  BY <1>1 DEF Strings!Written, Strings!NUL
<1>4. ASSUME NEW i \in 0 .. n - 1 PROVE b[i] \in Int
  <2>1. i \in start .. start + L - 1 => i - start + 1 \in 1 .. L
    OBVIOUS
  <2> QED BY <1>2, <1>3, <2>1
<1>5. b[start + L] = 0
  <2>1. start + L \in 0 .. n - 1 /\ start + L \notin start .. start + L - 1
    BY <1>1
  <2> QED BY <1>3, <2>1
<1>6. ASSUME NEW i \in 1 .. L PROVE b[start + i - 1] = text[i]
  <2>1. PICK j \in 0 .. n - 1 : j = start + i - 1
    BY <1>1
  <2>2. j \in start .. start + L - 1 /\ j - start + 1 = i
    BY <2>1
  <2>3. b[j] = text[i]
    BY <1>3, <2>2
  <2> QED BY <2>1, <2>3
<1>7. b \in [0 .. n - 1 -> Int]
  BY <1>3, <1>4
<1> QED BY <1>1, <1>5, <1>6, <1>7 DEF HasText

\* What append_data() leaves.
Appended(s, text, start) ==
    \E b, m, f :
       /\ s = MyStr(b, f) /\ Buffer(b, m) /\ f \in 1 .. m /\ b[f - 1] = 0
       /\ start = 0 => f = Len(text) + 1 /\ \A i \in 1 .. Len(text) : b[i - 1] = text[i]
\* append_data() leaves the text with its NUL, in the old buffer or a larger one.
LEMMA AppendData ==
    ASSUME STRING_INIT_SIZE \in Nat \ {0}, NEW a, NEW n, Buffer(a, n), NEW e, NEW start \in Nat,
           NEW text \in Seq(Int)
    PROVE  Appended(Strings!append_data(MyStr(a, e), text, start), text, start)
<1>1. PICK L \in Nat : L = Len(text)
  OBVIOUS
<1>2. n \in Nat /\ a \in [0 .. n - 1 -> Int]
  BY DEF Buffer
<1>3. Strings!capacity(MyStr(a, e)) = n /\ MyStr(a, e).data = a
  BY CapacityIs DEF MyStr
<1>4. CASE start + L + 1 > n
  <2>1. PICK len \in Nat : len = start + L + 1
    OBVIOUS
  <2>2. PICK m \in Nat \ {0} : m = Strings!get_realloc_size(len) /\ len < m
    BY <2>1, CapacityFor
  <2>3. PICK c : Strings!Fresh(m) = MyStr(c, 0) /\ Buffer(c, m)
    BY FreshBuffer
  <2>4. m \in Nat /\ c \in [0 .. m - 1 -> Int]
    BY <2>3 DEF Buffer
  <2>5. PICK b : b = Strings!Written(c, 0, text)
    OBVIOUS
  <2>6. /\ b \in [0 .. m - 1 -> Int] /\ b[0 + L] = 0
        /\ \A i \in 1 .. L : b[0 + i - 1] = text[i]
    <3>1. 0 + Len(text) + 1 <= m
      BY <1>1, <2>1, <2>2, <2>4
    <3>2. 0 \in Nat
      OBVIOUS
    <3>3. HasText(b, m, 0, text)
      BY <2>4, <2>5, <3>1, <3>2, WrittenIs
    <3> QED BY <1>1, <3>3 DEF HasText
  <2>7. L + 1 \in 1 .. m /\ (L + 1) - 1 = 0 + L /\ \A i \in 1 .. L : 0 + i - 1 = i - 1
    BY <2>1, <2>2, <2>4
  <2>8. MyStr(c, 0).data = c
    BY DEF MyStr
  <2>9. Strings!append_data(MyStr(a, e), text, start) = MyStr(b, L + 1)
    BY <1>1, <1>3, <1>4, <2>1, <2>2, <2>3, <2>5, <2>8 DEF Strings!append_data, MyStr
  <2>10. b[(L + 1) - 1] = 0 /\ \A i \in 1 .. L : b[i - 1] = text[i]
    BY <2>6, <2>7
  <2>11. Buffer(b, m)
    BY <2>2, <2>6 DEF Buffer
  <2> QED BY ONLY <1>1, <2>7, <2>9, <2>10, <2>11 DEF Appended
<1>5. CASE ~ (start + L + 1 > n)
  <2>1. PICK b : b = Strings!Written(a, start, text)
    OBVIOUS
  <2>2. /\ b \in [0 .. n - 1 -> Int] /\ b[start + L] = 0
        /\ \A i \in 1 .. L : b[start + i - 1] = text[i]
    <3>1. start + Len(text) + 1 <= n
      BY <1>1, <1>2, <1>5
    <3>2. HasText(b, n, start, text)
      BY <1>2, <2>1, <3>1, WrittenIs
    <3> QED BY <1>1, <3>2 DEF HasText
  <2>3. PICK f \in 1 .. n : f = start + L + 1
    BY <1>2, <1>5
  <2>4. f - 1 = start + L /\ (start = 0 => f = L + 1 /\ \A i \in 1 .. L : start + i - 1 = i - 1)
    BY <2>3
  <2>5. Strings!append_data(MyStr(a, e), text, start) = MyStr(b, f)
    BY <1>1, <1>3, <1>5, <2>1, <2>3 DEF Strings!append_data, MyStr
  <2>6. b[f - 1] = 0 /\ (start = 0 => f = L + 1 /\ \A i \in 1 .. L : b[i - 1] = text[i])
    BY <2>2, <2>4
  <2>7. Buffer(b, n)
    BY <2>2 DEF Buffer
  <2> QED BY ONLY <1>1, <2>3, <2>5, <2>6, <2>7 DEF Appended
<1> QED BY <1>4, <1>5

\* What was appended is a string, and at the start of the buffer it stands for its text.
LEMMA AppendedOK ==
    ASSUME NEW s, NEW text \in Seq(Int), NEW start, Appended(s, text, start)
    PROVE  \E b, f : /\ s = MyStr(b, f)
                     /\ \A copied : MyStrOK(b, f, Strings!NoText, copied)
                     /\ start = 0 /\ text \in Seq(Nat \ {0}) =>
                           \A copied : MyStrOK(b, f, text, copied)
<1>1. PICK b, m, f :
       /\ s = MyStr(b, f) /\ Buffer(b, m) /\ f \in 1 .. m /\ b[f - 1] = 0
       /\ start = 0 => f = Len(text) + 1 /\ \A i \in 1 .. Len(text) : b[i - 1] = text[i]
  BY DEF Appended
<1>2. m \in Nat /\ f \in 0 .. m /\ f # 0 /\ f - 1 \in 0 .. m - 1
  BY <1>1 DEF Buffer
<1>3. \A copied : MyStrOK(b, f, Strings!NoText, copied)
  BY <1>1, <1>2, Zenon DEF MyStrOK
<1>4. ASSUME start = 0, text \in Seq(Nat \ {0})
      PROVE  \A copied : MyStrOK(b, f, text, copied)
  <2>1. PICK k \in Nat : k = Len(text)
    OBVIOUS
  <2>2. f = k + 1 /\ \A i \in 1 .. k : b[i - 1] = text[i] /\ text[i] # 0
    BY <1>1, <1>4, <2>1
  <2>3. k \in 0 .. m - 1 /\ f - 1 = k /\ b[k] = 0
    BY <1>1, <1>2, <2>2
  <2>4. ASSUME NEW j \in 0 .. k - 1 PROVE b[j] # 0
    <3>1. j + 1 \in 1 .. k /\ (j + 1) - 1 = j
      OBVIOUS
    <3> QED BY <2>2, <3>1
  <2>5. text = [i \in 1 .. k |-> b[i - 1]]
    <3>1. text = [i \in 1 .. k |-> text[i]]
      BY <2>1
    <3>2. PICK w : w = [i \in 1 .. k |-> b[i - 1]]
      OBVIOUS
    <3>3. \A i \in 1 .. k : w[i] = text[i]
      BY <2>2, <3>2
    <3>4. w = [i \in 1 .. k |-> w[i]]
      BY <3>2
    <3>5. w = text
      BY ONLY <3>1, <3>3, <3>4
    <3> QED BY <3>2, <3>5
  <2>6. Shows(b, m, text)
    BY ONLY <2>3, <2>4, <2>5 DEF Shows
  <2>7. Says(b, m, f, text)
    BY <1>2, <1>4, <2>1, <2>2, <2>6 DEF Says
  <2> QED BY <1>1, <1>2, <2>7, Zenon DEF MyStrOK
<1> QED BY <1>1, <1>3, <1>4

\* A text put into a fresh buffer.
LEMMA FreshText ==
    ASSUME STRING_INIT_SIZE \in Nat \ {0}, NEW n \in Nat \ {0}, NEW text \in Seq(Int)
    PROVE  Appended(Strings!append_data(Strings!Fresh(n), text, 0), text, 0)
<1>1. PICK a : Strings!Fresh(n) = MyStr(a, 0) /\ Buffer(a, n)
  BY FreshBuffer
<1>2. 0 \in Nat
  OBVIOUS
<1>3. Appended(Strings!append_data(MyStr(a, 0), text, 0), text, 0)
  BY <1>1, <1>2, AppendData
<1> QED BY <1>1, <1>3

\* One place of a function, and what the strings stand for when v gets the text t at a.
SetAt(f, v, x) == [f EXCEPT ![v] = x]
Told(begin, text, v, a, t) ==
    [u \in StringVars |-> IF u = v THEN t ELSE IF begin[u] = a THEN Strings!NoText ELSE text[u]]
\* A variable gets a string in a new buffer, or in its own one, where the strings that share
\* it stand for nothing then.
LEMMA HeapSet ==
    ASSUME NEW begin, NEW end, NEW heap, NEW text, NEW copied, MyHeap(begin, end, heap, text, copied),
           \A u \in StringVars : begin[u] # 0 => begin[u] \in DOMAIN heap,
           NEW v \in StringVars, NEW a \in Nat \ {0}, NEW b, NEW f, NEW t,
           \A c : MyStrOK(b, f, t, c),
           \/ a \notin DOMAIN heap
           \/ a = begin[v] /\ \E n : Buffer(b, n) /\ Buffer(heap[a], n),
           NEW B, B = SetAt(begin, v, a), NEW E, E = SetAt(end, v, f),
           NEW H, H = Strings!Stored(Strings!Freed(heap, begin[v]), a, b),
           NEW T, T = Told(begin, text, v, a, t)
    PROVE  MyHeap(B, E, H, T, copied)
<1>1. /\ begin \in [StringVars -> Nat] /\ end = [u \in StringVars |-> end[u]]
      /\ IsFiniteSet(DOMAIN heap) /\ DOMAIN heap \subseteq Nat \ {0}
      /\ \A u \in StringVars : begin[u] \in DOMAIN heap =>
            MyStrOK(heap[begin[u]], end[u], text[u], u \in copied)
      /\ \A u, w \in StringVars : u # w /\ begin[u] # 0 /\ begin[u] = begin[w] => u \in copied
  BY DEF MyHeap
<1>2. /\ B \in [StringVars -> Nat] /\ B[v] = a /\ \A u \in StringVars \ {v} : B[u] = begin[u]
      /\ E = [u \in StringVars |-> E[u]] /\ E[v] = f /\ \A u \in StringVars \ {v} : E[u] = end[u]
  BY <1>1 DEF SetAt
<1>3. T = [u \in StringVars |-> T[u]] /\ T[v] = t
      /\ \A u \in StringVars \ {v} : T[u] = IF begin[u] = a THEN Strings!NoText ELSE text[u]
  BY DEF Told
<1>4. PICK h : h = Strings!Freed(heap, begin[v])
  OBVIOUS
<1>5. DOMAIN h = DOMAIN heap \ {begin[v]} /\ \A x \in DOMAIN h : h[x] = heap[x]
  BY <1>4 DEF Strings!Freed
<1>6. H = [x \in DOMAIN h \cup {a} |-> IF x = a THEN b ELSE h[x]]
  BY <1>4 DEF Strings!Stored
<1>7. DOMAIN H = (DOMAIN heap \ {begin[v]}) \cup {a} /\ H[a] = b
      /\ \A x \in DOMAIN heap : x # begin[v] /\ x # a => H[x] = heap[x]
  BY <1>5, <1>6
<1>8. IsFiniteSet(DOMAIN H)
  <2>1. IsFiniteSet(DOMAIN heap \ {begin[v]})
    <3>1. DOMAIN heap \ {begin[v]} \subseteq DOMAIN heap
      OBVIOUS
    <3> QED BY ONLY <1>1, <3>1, FS_Subset
  <2> QED BY ONLY <1>7, <2>1, FS_AddElement
<1>9. DOMAIN H \subseteq Nat \ {0}
  BY <1>1, <1>7
<1>10. ASSUME NEW u \in StringVars \ {v}, begin[u] = a, a # 0
       PROVE  u \in copied /\ MyStrOK(b, end[u], Strings!NoText, TRUE)
  <2>1. a \in DOMAIN heap /\ a = begin[v]
    BY <1>10
  <2>2. u \in copied
    BY <1>1, <1>10, <2>1
  <2>3. PICK n : Buffer(b, n) /\ Buffer(heap[a], n)
    BY <2>1
  <2>4. PICK m : Buffer(heap[a], m) /\ end[u] \in 0 .. m
    BY <1>1, <1>10, <2>1 DEF MyStrOK
  <2>5. m = n
    <3>1. Strings!capacity(MyStr(heap[a], 0)) = n /\ Strings!capacity(MyStr(heap[a], 0)) = m
      BY <2>3, <2>4, CapacityIs
    <3> QED BY <3>1
  <2>6. MyStrOK(b, end[u], Strings!NoText, TRUE)
    BY ONLY <2>3, <2>4, <2>5 DEF MyStrOK
  <2> QED BY <2>2, <2>6
<1>11. ASSUME NEW u \in StringVars, B[u] \in DOMAIN H PROVE MyStrOK(H[B[u]], E[u], T[u], u \in copied)
  <2>1. CASE u = v
    BY <1>2, <1>3, <1>7, <2>1
  <2>2. CASE u # v /\ begin[u] = a
    <3>1. H[B[u]] = b /\ E[u] = end[u] /\ T[u] = Strings!NoText
      BY <1>2, <1>3, <1>7, <2>2
    <3>2. (u \in copied) = TRUE /\ MyStrOK(b, end[u], Strings!NoText, TRUE)
      BY <1>10, <2>2
    <3> QED BY <3>1, <3>2
  <2>3. CASE u # v /\ begin[u] # a
    <3>1. B[u] = begin[u] /\ begin[u] \in DOMAIN heap /\ begin[u] # begin[v]
      BY <1>2, <1>7, <1>11, <2>3
    <3>2. H[B[u]] = heap[begin[u]] /\ E[u] = end[u] /\ T[u] = text[u]
      BY <1>2, <1>3, <1>7, <2>3, <3>1
    <3> QED BY <1>1, <3>1, <3>2
  <2> QED BY <2>1, <2>2, <2>3
<1>12. ASSUME NEW u \in StringVars, B[u] # 0, B[u] \notin DOMAIN H PROVE u \in copied
  <2>1. u # v /\ begin[u] # 0 /\ begin[u] \in DOMAIN heap
    BY <1>2, <1>7, <1>12
  <2>2. begin[u] = begin[v]
    BY <1>2, <1>7, <1>12, <2>1
  <2> QED BY <1>1, <2>1, <2>2
<1>13. ASSUME NEW u \in StringVars, NEW w \in StringVars, u # w, B[u] # 0, B[u] = B[w] PROVE u \in copied
  <2>1. CASE u = v
    <3>1. begin[w] = a /\ a \in DOMAIN heap /\ a = begin[v]
      <4>1. begin[w] = a
        BY ONLY <1>2, <1>13, <2>1
      <4> QED BY <4>1
    <3> QED BY <1>1, <1>13, <2>1, <3>1
  <2>2. CASE u # v /\ w = v
    BY <1>2, <1>10, <1>13, <2>2
  <2>3. CASE u # v /\ w # v
    BY <1>1, <1>2, <1>13, <2>3
  <2> QED BY <2>1, <2>2, <2>3
<1> QED BY ONLY <1>2, <1>3, <1>8, <1>9, <1>11, <1>12, <1>13 DEF MyHeap

\* The same for a call.
LEMMA MyStrSet ==
    ASSUME MyStrInv, Intact, NEW v \in StringVars, NEW a \in Nat \ {0}, NEW s, NEW b, NEW f, NEW t,
           Strings!Becomes(v, a, s, t), s = MyStr(b, f),
           \A copied : MyStrOK(b, f, t, copied),
           \/ a \notin DOMAIN obj.heap
           \/ a = obj.begin[v] /\ \E n : Buffer(b, n) /\ Buffer(obj.heap[a], n)
    PROVE  MyStrInv'
<1>1. PICK begin, end, heap, text, copied :
        begin = obj.begin /\ end = obj.end /\ heap = obj.heap /\ text = held.text /\ copied = held.copied
  OBVIOUS
<1>2. MyHeap(begin, end, heap, text, copied) /\ ret[1] = ret[2]
  BY <1>1 DEF MyStrInv
<1>3. \A u \in StringVars : begin[u] # 0 => begin[u] \in DOMAIN heap
  BY <1>1 DEF Intact, Strings!Dangles, Strings!Live, Strings!NULL
<1>4. PICK B, E, H, T :
        /\ B = SetAt(begin, v, a) /\ E = SetAt(end, v, f)
        /\ H = Strings!Stored(Strings!Freed(heap, begin[v]), a, b)
        /\ T = Told(begin, text, v, a, t)
  OBVIOUS
<1>5. s._end = f /\ s.data = b
  BY DEF MyStr
<1>6. /\ obj' = [begin |-> B, end |-> E, heap |-> H] /\ held' = [text |-> T, copied |-> copied] /\ ret' = ret
  BY <1>1, <1>4, <1>5 DEF Strings!Becomes, SetAt, Told
<1>7. MyHeap(B, E, H, T, copied)
  <2>1. \A c : MyStrOK(b, f, t, c)
    OBVIOUS
  <2>2. a \notin DOMAIN heap \/ (a = begin[v] /\ \E n : Buffer(b, n) /\ Buffer(heap[a], n))
    BY <1>1
  <2> QED BY ONLY <1>2, <1>3, <1>4, <2>1, <2>2, v \in StringVars, a \in Nat \ {0}, HeapSet
<1>8. /\ obj'.begin = B /\ obj'.end = E /\ obj'.heap = H /\ held'.text = T /\ held'.copied = copied
  BY <1>6
<1> QED BY <1>2, <1>6, <1>7, <1>8 DEF MyStrInv

\* The same in a new buffer.
LEMMA MyStrGets ==
    ASSUME MyStrInv, Intact, NEW v \in StringVars, NEW s, NEW b, NEW f, NEW t,
           Strings!Gets(v, s, t), s = MyStr(b, f), \A copied : MyStrOK(b, f, t, copied)
    PROVE  MyStrInv'
<1>1. IsFiniteSet(DOMAIN obj.heap)
  BY DEF MyStrInv, MyHeap
<1>2. PICK a : a = Strings!NewBuffer(obj.heap)
  OBVIOUS
<1>3. a \in Nat \ {0} /\ a \notin DOMAIN obj.heap
  BY <1>1, <1>2, FreeAddress
<1>4. Strings!Becomes(v, a, s, t)
  BY <1>2 DEF Strings!Gets
<1> QED BY <1>3, <1>4, MyStrSet

\* A string whose buffer is not released.
LEMMA LiveString ==
    ASSUME MyStrInv, NEW v \in StringVars, Strings!Live(v), ~ Strings!Dangles(v)
    PROVE  \E a, n, e :
              /\ Strings!Str(v) = MyStr(a, e) /\ a = obj.heap[obj.begin[v]] /\ e = obj.end[v]
              /\ Buffer(a, n) /\ n \in Nat \ {0} /\ a \in [0 .. n - 1 -> Int] /\ e \in 0 .. n
              /\ e # 0 /\ v \notin held.copied => a[e - 1] = 0
              /\ held.text[v] # Strings!NoText => Says(a, n, e, held.text[v])
<1>1. PICK a, e : a = obj.heap[obj.begin[v]] /\ e = obj.end[v]
  OBVIOUS
<1>2. Strings!Str(v) = MyStr(a, e)
  BY <1>1 DEF Strings!Str, MyStr
<1>3. obj.begin[v] \in DOMAIN obj.heap
  BY DEF Strings!Dangles
<1>4. MyStrOK(a, e, held.text[v], v \in held.copied)
  BY <1>1, <1>3 DEF MyStrInv, MyHeap
<1>5. PICK n : /\ Buffer(a, n) /\ e \in 0 .. n
               /\ e # 0 /\ ~ (v \in held.copied) => a[e - 1] = 0
               /\ held.text[v] # Strings!NoText => Says(a, n, e, held.text[v])
  BY <1>4 DEF MyStrOK
<1>6. n \in Nat \ {0} /\ a \in [0 .. n - 1 -> Int]
  BY <1>5 DEF Buffer
<1> QED BY <1>1, <1>2, <1>5, <1>6

\* A string in which strlen() stops shows a text, the one it stands for if there is one.
LEMMA TerminatedString ==
    ASSUME MyStrInv, NEW v \in StringVars, Strings!Live(v), ~ Strings!Dangles(v),
           Strings!Terminated(Strings!Str(v))
    PROVE  /\ Strings!CText(Strings!Str(v)) \in Seq(Int)
           /\ held.text[v] # Strings!NoText =>
                 /\ Strings!CText(Strings!Str(v)) = held.text[v] /\ held.text[v] \in Seq(Nat \ {0})
<1>1. PICK a, n, e :
              /\ Strings!Str(v) = MyStr(a, e)
              /\ n \in Nat \ {0} /\ a \in [0 .. n - 1 -> Int]
              /\ held.text[v] # Strings!NoText => Says(a, n, e, held.text[v])
  BY LiveString
<1>2. MyStr(a, e).data = a /\ DOMAIN a = 0 .. n - 1
  BY <1>1 DEF MyStr
<1>3. PICK i \in 0 .. n - 1 : a[i] = 0 /\ \A j \in 0 .. i : a[j] # -1
  BY <1>1, <1>2 DEF Strings!Terminated, Strings!NUL, Strings!Unset
<1>4. PICK shown : Shows(a, n, shown)
  BY ONLY <1>1, <1>3, ShowsOne
<1>5. Strings!CText(MyStr(a, e)) = shown /\ shown \in Seq(Int)
  <2>1. Spells(a, n, shown) /\ Strings!CText(MyStr(a, e)) = shown
    BY ONLY <1>1, <1>4, ShownIs
  <2> QED BY ONLY <2>1 DEF Spells
<1>6. ASSUME held.text[v] # Strings!NoText
      PROVE  shown = held.text[v] /\ held.text[v] \in Seq(Nat \ {0})
  <2>1. Says(a, n, e, held.text[v])
    BY <1>1, <1>6
  <2>2. e # 0
    <3>1. 0 \in 0 .. i /\ i \in 0 .. n - 1
      BY <1>1
    <3> QED BY <1>3, <2>1, <3>1 DEF Says
  <2>3. held.text[v] \in Seq(Nat \ {0}) /\ Shows(a, n, held.text[v])
    BY <2>1, <2>2 DEF Says
  <2>4. Strings!CText(MyStr(a, e)) = held.text[v]
    BY ONLY <1>1, <2>3, ShownIs
  <2> QED BY <1>5, <2>3, <2>4
<1> QED BY <1>1, <1>5, <1>6

\* The constructions and assignments: a text in a fresh buffer.
LEMMA TextStep ==
    ASSUME STRING_INIT_SIZE \in Nat \ {0}, MyStrInv, Intact, NEW v \in StringVars, NEW n \in Nat \ {0},
           NEW text \in Seq(Int), NEW t, t = Strings!NoText \/ (t = text /\ text \in Seq(Nat \ {0})),
           Strings!Gets(v, Strings!append_data(Strings!Fresh(n), text, 0), t)
    PROVE  MyStrInv'
<1>1. PICK s : s = Strings!append_data(Strings!Fresh(n), text, 0)
  OBVIOUS
<1>2. Appended(s, text, 0)
  BY <1>1, FreshText
<1>3. PICK b, f : /\ s = MyStr(b, f)
                  /\ \A copied : MyStrOK(b, f, Strings!NoText, copied)
                  /\ 0 = 0 /\ text \in Seq(Nat \ {0}) => \A copied : MyStrOK(b, f, text, copied)
  BY ONLY <1>2, text \in Seq(Int), AppendedOK, Zenon
<1>4. \A copied : MyStrOK(b, f, t, copied)
  BY <1>3
<1> QED BY <1>1, <1>3, <1>4, MyStrGets

\* The strings that have no text yet.
LEMMA FreshStep ==
    ASSUME MyStrInv, Intact, NEW v \in StringVars, NEW n \in Nat \ {0}, NEW t \in {<<>>, Strings!NoText},
           Strings!Gets(v, Strings!Fresh(n), t)
    PROVE  MyStrInv'
<1>1. PICK a : Strings!Fresh(n) = MyStr(a, 0) /\ Buffer(a, n) /\ \A i \in 0 .. n - 1 : a[i] = -1
  BY FreshBuffer
<1>2. 0 \in 0 .. n
  OBVIOUS
<1>3. t # Strings!NoText => Says(a, n, 0, t)
  BY <1>1 DEF Says
<1>4. \A copied : MyStrOK(a, 0, t, copied)
  BY <1>1, <1>2, <1>3, Zenon DEF MyStrOK
<1> QED BY <1>1, <1>4, MyStrGets

\* operator+ writes into the buffer of its left operand or into a new one.
LEMMA PlusStep ==
    ASSUME STRING_INIT_SIZE \in Nat \ {0}, MyStrInv, Intact, NEW v \in StringVars, NEW w \in StringVars,
           Strings!MyStrPlus(v, w)
    PROVE  MyStrInv'
<1>1. /\ Strings!Live(v) /\ Strings!Live(w) /\ Strings!Terminated(Strings!Str(w))
      /\ ~ Strings!Dangles(v) /\ ~ Strings!Dangles(w)
  BY DEF Strings!MyStrPlus, Intact
<1>2. PICK text : text = Strings!CText(Strings!Str(w))
  OBVIOUS
<1>3. text \in Seq(Int)
  BY <1>1, <1>2, TerminatedString
<1>4. PICK a, n, e : /\ Strings!Str(v) = MyStr(a, e) /\ a = obj.heap[obj.begin[v]] /\ e = obj.end[v]
                     /\ Buffer(a, n) /\ n \in Nat \ {0} /\ e \in 0 .. n
  BY <1>1, LiveString
<1>5. PICK s : s = Strings!append_data(MyStr(a, e), text, e)
  OBVIOUS
<1>6. PICK p : p = IF Strings!capacity(s) = Strings!capacity(MyStr(a, e)) THEN obj.begin[v]
                   ELSE Strings!NewBuffer(obj.heap)
  OBVIOUS
<1>7. Strings!Becomes(v, p, s, Strings!NoText)
  BY <1>2, <1>4, <1>5, <1>6 DEF Strings!MyStrPlus
<1>8. Appended(s, text, e)
  <2>1. e \in Nat
    BY <1>4
  <2> QED BY ONLY <1>3, <1>4, <1>5, <2>1, STRING_INIT_SIZE \in Nat \ {0}, AppendData
<1>9. PICK b, f : s = MyStr(b, f) /\ \A copied : MyStrOK(b, f, Strings!NoText, copied)
  BY ONLY <1>3, <1>8, AppendedOK
<1>10. PICK m : Buffer(b, m)
  <2>1. MyStrOK(b, f, Strings!NoText, TRUE)
    BY <1>9
  <2> QED BY <2>1 DEF MyStrOK
<1>11. CASE Strings!capacity(s) = Strings!capacity(MyStr(a, e))
  <2>1. m = n
    BY <1>4, <1>9, <1>10, <1>11, CapacityIs
  <2>2. p = obj.begin[v]
    BY <1>6, <1>11
  <2>3. p \in Nat \ {0}
    BY <1>1, <2>2 DEF Strings!Live, Strings!NULL, MyStrInv, MyHeap
  <2>4. Buffer(b, n) /\ Buffer(obj.heap[p], n)
    BY <1>4, <1>10, <2>1, <2>2
  <2> QED BY <1>7, <1>9, <2>2, <2>3, <2>4, MyStrSet
<1>12. CASE Strings!capacity(s) # Strings!capacity(MyStr(a, e))
  <2>1. IsFiniteSet(DOMAIN obj.heap)
    BY DEF MyStrInv, MyHeap
  <2>2. p \in Nat \ {0} /\ p \notin DOMAIN obj.heap
    BY <1>6, <1>12, <2>1, FreeAddress
  <2> QED BY <1>7, <1>9, <2>2, MyStrSet
<1> QED BY <1>11, <1>12

\* A string that stands for a text holds it, character by character.
LEMMA WholeString ==
    ASSUME MyStrInv, NEW v \in StringVars, Strings!Shown(v)
    PROVE  /\ held.text[v] \in Seq(Nat \ {0}) /\ Strings!Size(Strings!Str(v)) = Len(held.text[v])
           /\ \A i \in 0 .. Len(held.text[v]) - 1 : Strings!Str(v).data[i] = held.text[v][i + 1]
           /\ obj.end[v] # 0 =>
                 /\ obj.end[v] = Len(held.text[v]) + 1
                 /\ Strings!Terminated(Strings!Str(v)) /\ Strings!CText(Strings!Str(v)) = held.text[v]
                 /\ Strings!Str(v).data[Len(held.text[v])] = 0
<1>1. Strings!Live(v) /\ ~ Strings!Dangles(v) /\ held.text[v] # Strings!NoText
  BY DEF Strings!Shown
<1>2. PICK t : t = held.text[v]
  OBVIOUS
<1>3. PICK a, n, e : /\ Strings!Str(v) = MyStr(a, e) /\ e = obj.end[v]
                     /\ n \in Nat \ {0} /\ a \in [0 .. n - 1 -> Int] /\ e \in 0 .. n
                     /\ Says(a, n, e, t)
  BY <1>1, <1>2, LiveString
<1>4. MyStr(a, e).data = a /\ MyStr(a, e)._end = e
      /\ Strings!Size(MyStr(a, e)) = IF e = 0 THEN 0 ELSE e - 1
  BY DEF MyStr, Strings!Size
<1>5. CASE e = 0
  <2>1. t \in Seq(Nat \ {0}) /\ Len(t) = 0
    <3>1. t = <<>>
      BY <1>3, <1>5 DEF Says
    <3> QED BY <3>1, EmptySeq
  <2> QED BY <1>2, <1>3, <1>4, <1>5, <2>1
<1>6. CASE e # 0
  <2>1. e = Len(t) + 1 /\ t \in Seq(Nat \ {0}) /\ Shows(a, n, t)
    BY <1>3, <1>6 DEF Says
  <2>2. Spells(a, n, t) /\ Strings!CText(MyStr(a, e)) = t
    BY ONLY <1>3, <2>1, ShownIs
  <2>3. PICK L \in Nat : L = Len(t)
    BY <2>1
  <2>4. L \in 0 .. n - 1 /\ a[L] = 0 /\ \A i \in 0 .. L - 1 : t[i + 1] = a[i]
    BY <2>2, <2>3 DEF Spells
  <2>5. ASSUME NEW j \in 0 .. L PROVE a[j] # -1
    <3>1. CASE j = L
      BY <2>4, <3>1
    <3>2. CASE j # L
      <4>1. j \in 0 .. L - 1 /\ j + 1 \in 1 .. L
        BY <3>2
      <4>2. t[j + 1] \in Nat
        BY <2>1, <2>3, <4>1
      <4> QED BY <2>4, <4>1, <4>2
    <3> QED BY <3>1, <3>2
  <2>6. Strings!Terminated(MyStr(a, e))
    <3>1. L \in DOMAIN a
      BY <1>3, <2>4
    <3> QED BY <1>4, <2>4, <2>5, <3>1 DEF Strings!Terminated, Strings!NUL, Strings!Unset
  <2>7. e - 1 = L
    BY <2>1, <2>3
  <2> QED BY <1>2, <1>3, <1>4, <1>6, <2>1, <2>2, <2>3, <2>4, <2>6, <2>7
<1> QED BY <1>5, <1>6

\* A sequence of positive numbers is one of integers.
LEMMA NatSeqIsInt == ASSUME NEW s \in Seq(Nat \ {0}) PROVE s \in Seq(Int)
<1>1. Len(s) \in Nat /\ s \in [1 .. Len(s) -> Nat \ {0}]
  OBVIOUS
<1>2. s \in [1 .. Len(s) -> Int]
  BY <1>1
<1> QED BY ONLY <1>1, <1>2

\* Where find() looks is where the text occurs.
OccursAt(s, t, a, b, i) ==
    (\A j \in 0 .. Len(t) - 1 : a[i + j] = b[j]) <=> SubSeq(s, i + 1, i + Len(t)) = t
LEMMA OccursWhere ==
    ASSUME NEW s \in Seq(Int), NEW t \in Seq(Int), NEW a, NEW b,
           \A i \in 0 .. Len(s) - 1 : a[i] = s[i + 1], \A i \in 0 .. Len(t) - 1 : b[i] = t[i + 1],
           NEW i \in 0 .. Len(s) - Len(t)
    PROVE  OccursAt(s, t, a, b, i)
<1>1. PICK n, m \in Nat : n = Len(s) /\ m = Len(t)
  OBVIOUS
<1>2. i \in Nat /\ i + m <= n
  BY <1>1
<1>3. PICK u : u = SubSeq(s, i + 1, i + m)
  OBVIOUS
<1>4. u \in Seq(Int) /\ Len(u) = m /\ \A k \in 1 .. m : u[k] = s[i + k]
  <2>1. i + 1 \in Nat /\ i + m \in Nat
    BY <1>2
  <2>2. ASSUME NEW k \in i + 1 .. i + m PROVE s[k] \in Int
    <3>1. k \in 1 .. Len(s)
      BY <1>1, <1>2
    <3> QED BY <3>1
  <2>3. /\ u \in Seq(Int)
        /\ Len(u) = IF i + 1 <= i + m THEN (i + m) - (i + 1) + 1 ELSE 0
        /\ \A k \in 1 .. (i + m) - (i + 1) + 1 : u[k] = s[i + 1 + k - 1]
    BY ONLY <1>3, <2>1, <2>2, SubSeqProperties
  <2>4. (i + m) - (i + 1) + 1 = m /\ Len(u) = m
    BY <1>2, <2>3
  <2>5. \A k \in 1 .. m : i + 1 + k - 1 = i + k
    BY <1>2
  <2> QED BY <2>3, <2>4, <2>5
<1>5. \A j \in 0 .. m - 1 : b[j] = t[j + 1] /\ a[i + j] = u[j + 1]
  <2> SUFFICES ASSUME NEW j \in 0 .. m - 1 PROVE b[j] = t[j + 1] /\ a[i + j] = u[j + 1]
    OBVIOUS
  <2>1. i + j \in 0 .. n - 1 /\ (i + j) + 1 = i + (j + 1) /\ j + 1 \in 1 .. m
    BY <1>1, <1>2
  <2>2. a[i + j] = s[(i + j) + 1]
    BY <1>1, <2>1
  <2>3. u[j + 1] = s[i + (j + 1)]
    BY <1>4, <2>1
  <2> QED BY <1>1, <2>1, <2>2, <2>3
<1>6. ASSUME \A j \in 0 .. m - 1 : a[i + j] = b[j] PROVE u = t
  <2>1. ASSUME NEW k \in 1 .. m PROVE u[k] = t[k]
    <3>1. k - 1 \in 0 .. m - 1 /\ (k - 1) + 1 = k
      OBVIOUS
    <3> QED BY <1>5, <1>6, <3>1
  <2> QED BY ONLY <1>1, <1>4, <2>1, t \in Seq(Int), SeqEqual
<1>7. ASSUME u = t PROVE \A j \in 0 .. m - 1 : a[i + j] = b[j]
  BY <1>5, <1>7
<1> QED BY <1>1, <1>3, <1>6, <1>7 DEF OccursAt

\* substr() gives a part of the characters, which is the part of the text.
LEMMA SubstrStep ==
    ASSUME STRING_INIT_SIZE \in Nat \ {0}, MyStrInv, Intact, NEW v \in StringVars, NEW w \in StringVars,
           NEW pos \in Nat, NEW len \in Nat, Strings!MyStrSubstr(v, w, pos, len)
    PROVE  MyStrInv'
<1>1. Strings!Live(w) /\ ~ Strings!Dangles(w) /\ pos + len <= Strings!Size(Strings!Str(w))
  BY DEF Strings!MyStrSubstr, Intact
<1>2. PICK part : part = [i \in 1 .. len |-> Strings!Str(w).data[pos + i - 1]]
  OBVIOUS
<1>3. PICK t : t = IF held.text[w] = Strings!NoText THEN Strings!NoText
                   ELSE SubSeq(held.text[w], pos + 1, pos + len)
  OBVIOUS
<1>4. Strings!Gets(v, Strings!append_data(Strings!realloc(len + 1), part, 0), t)
  BY <1>2, <1>3 DEF Strings!MyStrSubstr
<1>5. PICK a, n, e : Strings!Str(w) = MyStr(a, e) /\ n \in Nat \ {0} /\ a \in [0 .. n - 1 -> Int] /\ e \in 0 .. n
  BY <1>1, LiveString
<1>6. MyStr(a, e).data = a /\ Strings!Size(MyStr(a, e)) = IF e = 0 THEN 0 ELSE e - 1
  BY DEF MyStr, Strings!Size
<1>7. part \in Seq(Int) /\ Len(part) = len /\ \A i \in 1 .. len : part[i] = a[pos + i - 1]
  <2>1. ASSUME NEW i \in 1 .. len PROVE a[pos + i - 1] \in Int
    <3>1. pos + i - 1 \in 0 .. n - 1
      BY <1>1, <1>5, <1>6
    <3> QED BY <1>5, <3>1
  <2>2. part \in [1 .. len -> Int] /\ \A i \in 1 .. len : part[i] = a[pos + i - 1]
    BY <1>2, <1>5, <1>6, <2>1
  <2> QED BY ONLY <2>2, len \in Nat
<1>8. ASSUME held.text[w] # Strings!NoText PROVE t = part /\ part \in Seq(Nat \ {0})
  <2>1. PICK u : u = held.text[w]
    OBVIOUS
  <2>2. Strings!Shown(w)
    BY <1>1, <1>8 DEF Strings!Shown
  <2>3. u \in Seq(Nat \ {0}) /\ Strings!Size(MyStr(a, e)) = Len(u) /\ \A i \in 0 .. Len(u) - 1 : a[i] = u[i + 1]
    <3>1. /\ u \in Seq(Nat \ {0}) /\ Strings!Size(Strings!Str(w)) = Len(u)
          /\ \A i \in 0 .. Len(u) - 1 : Strings!Str(w).data[i] = u[i + 1]
      BY ONLY <2>1, <2>2, MyStrInv, w \in StringVars, WholeString
    <3>2. Strings!Str(w) = MyStr(a, e) /\ Strings!Str(w).data = a
      BY ONLY <1>5, <1>6
    <3> QED BY ONLY <3>1, <3>2
  <2>4. PICK L \in Nat : L = Len(u)
    BY <2>3
  <2>5. pos + len <= L
    BY <1>1, <1>5, <2>3, <2>4
  <2>6. t = SubSeq(u, pos + 1, pos + len)
    BY <1>3, <1>8, <2>1
  <2>7. /\ t \in Seq(Nat \ {0})
        /\ Len(t) = IF pos + 1 <= pos + len THEN (pos + len) - (pos + 1) + 1 ELSE 0
        /\ \A k \in 1 .. (pos + len) - (pos + 1) + 1 : t[k] = u[pos + 1 + k - 1]
    <3>1. pos + 1 \in Nat /\ pos + len \in Nat
      OBVIOUS
    <3>2. ASSUME NEW k \in pos + 1 .. pos + len PROVE u[k] \in Nat \ {0}
      <4>1. k \in 1 .. L
        BY <2>5
      <4> QED BY <2>3, <2>4, <4>1
    <3> QED BY ONLY <2>6, <3>1, <3>2, SubSeqProperties
  <2>8. Len(t) = len /\ (pos + len) - (pos + 1) + 1 = len
    BY <2>7
  <2>9. ASSUME NEW k \in 1 .. len PROVE t[k] = part[k]
    <3>1. pos + k - 1 \in 0 .. L - 1 /\ (pos + k - 1) + 1 = pos + 1 + k - 1
      BY <2>5
    <3>2. a[pos + k - 1] = u[(pos + k - 1) + 1]
      BY <2>3, <2>4, <3>1
    <3>3. t[k] = u[pos + 1 + k - 1]
      BY <2>7, <2>8
    <3> QED BY <1>7, <3>1, <3>2, <3>3
  <2>10. t \in Seq(Int)
    BY ONLY <2>7, NatSeqIsInt
  <2>11. t = part
    BY ONLY <1>7, <2>8, <2>9, <2>10, SeqEqual
  <2> QED BY <2>7, <2>11
<1>9. PICK m \in Nat \ {0} : Strings!realloc(len + 1) = Strings!Fresh(m)
  BY CapacityFor DEF Strings!realloc
<1>10. t = Strings!NoText \/ (t = part /\ part \in Seq(Nat \ {0}))
  BY <1>3, <1>8
<1>11. Strings!Gets(v, Strings!append_data(Strings!Fresh(m), part, 0), t)
  BY <1>4, <1>9
<1> QED BY <1>7, <1>10, <1>11, TextStep

\* The least element, or -1.
FirstIn(S) == IF S = {} THEN -1 ELSE CHOOSE i \in S : \A k \in S : i <= k
\* find() returns what the texts say.
LEMMA FindStep ==
    ASSUME MyStrInv, NEW v \in StringVars, NEW w \in StringVars, Strings!find(v, w)
    PROVE  MyStrInv'
<1>1. Strings!Shown(v) /\ Strings!Shown(w) /\ held.text[w] # <<>> /\ obj' = obj /\ held' = held
  BY DEF Strings!find
<1>2. PICK s, t, a, b : /\ s = held.text[v] /\ t = held.text[w]
                        /\ a = Strings!Str(v).data /\ b = Strings!Str(w).data
  OBVIOUS
<1>3. /\ s \in Seq(Nat \ {0}) /\ \A i \in 0 .. Len(s) - 1 : a[i] = s[i + 1]
      /\ t \in Seq(Nat \ {0}) /\ \A i \in 0 .. Len(t) - 1 : b[i] = t[i + 1]
      /\ Strings!Size(Strings!Str(v)) = Len(s) /\ Strings!Size(Strings!Str(w)) = Len(t)
  BY <1>1, <1>2, WholeString
<1>4. Len(s) \in Nat /\ Len(t) \in Nat /\ Len(t) > 0
  BY <1>1, <1>2, <1>3, EmptySeq
<1>5. PICK hits : hits = {i \in 0 .. Len(s) - Len(t) : Len(t) > 0 /\ \A j \in 0 .. Len(t) - 1 : a[i + j] = b[j]}
  OBVIOUS
<1>6. PICK texts : texts = {i \in 0 .. Len(s) - Len(t) : SubSeq(s, i + 1, i + Len(t)) = t}
  OBVIOUS
<1>7. ret' = <<FirstIn(hits), FirstIn(texts)>>
  <2>1. PICK n, m : n = Strings!Size(Strings!Str(v)) /\ m = Strings!Size(Strings!Str(w))
    OBVIOUS
  <2>2. hits = {i \in 0 .. n - m : m > 0 /\ \A j \in 0 .. m - 1 : a[i + j] = b[j]}
    BY ONLY <1>3, <1>5, <2>1
  <2>3. ret' = <<FirstIn({i \in 0 .. n - m : m > 0 /\ \A j \in 0 .. m - 1 : a[i + j] = b[j]}),
                 FirstIn({i \in 0 .. Len(s) - Len(t) : SubSeq(s, i + 1, i + Len(t)) = t})>>
    BY <1>2, <2>1 DEF Strings!find, FirstIn
  <2> QED BY ONLY <1>6, <2>2, <2>3
<1>8. \A i \in 0 .. Len(s) - Len(t) :
         (\A j \in 0 .. Len(t) - 1 : a[i + j] = b[j]) <=> SubSeq(s, i + 1, i + Len(t)) = t
  <2>1. s \in Seq(Int) /\ t \in Seq(Int)
    BY <1>3, NatSeqIsInt
  <2>2. \A i \in 0 .. Len(s) - Len(t) : OccursAt(s, t, a, b, i)
    BY <1>3, <2>1, OccursWhere
  <2> QED BY ONLY <2>2 DEF OccursAt
<1>9. hits = texts
  BY ONLY <1>4, <1>5, <1>6, <1>8, Zenon
<1>10. ret'[1] = ret'[2]
  BY ONLY <1>7, <1>9
<1> QED BY <1>1, <1>10 DEF MyStrInv

\* The implicit copy constructor shares the buffer, which both know.
LEMMA CopyStep ==
    ASSUME MyStrInv, Intact, NEW v \in StringVars, NEW w \in StringVars, Strings!CopyString(v, w)
    PROVE  MyStrInv'
<1>1. PICK begin, end, heap, text, copied :
        begin = obj.begin /\ end = obj.end /\ heap = obj.heap /\ text = held.text /\ copied = held.copied
  OBVIOUS
<1>2. /\ obj = [begin |-> begin, end |-> end, heap |-> heap]
      /\ MyHeap(begin, end, heap, text, copied) /\ ret[1] = ret[2]
  BY <1>1 DEF MyStrInv
<1>3. \A u \in StringVars : begin[u] # 0 => begin[u] \in DOMAIN heap
  BY <1>1 DEF Intact, Strings!Dangles, Strings!Live, Strings!NULL
<1>4. PICK B, E, T, C :
        /\ B = [begin EXCEPT ![v] = begin[w]] /\ E = [end EXCEPT ![v] = end[w]]
        /\ T = [text EXCEPT ![v] = text[w]] /\ C = copied \cup {v, w}
  OBVIOUS
<1>5. /\ begin[v] = 0 /\ begin[w] # 0 /\ ret' = ret
      /\ obj' = [begin |-> B, end |-> E, heap |-> heap] /\ held' = [text |-> T, copied |-> C]
  BY <1>1, <1>2, <1>4 DEF Strings!CopyString, Strings!Live, Strings!NULL
<1>6. /\ begin \in [StringVars -> Nat] /\ end = [u \in StringVars |-> end[u]]
      /\ text = [u \in StringVars |-> text[u]]
      /\ IsFiniteSet(DOMAIN heap) /\ DOMAIN heap \subseteq Nat \ {0}
      /\ \A u \in StringVars : begin[u] \in DOMAIN heap =>
            MyStrOK(heap[begin[u]], end[u], text[u], u \in copied)
      /\ \A u, x \in StringVars : u # x /\ begin[u] # 0 /\ begin[u] = begin[x] => u \in copied
  BY <1>2 DEF MyHeap
<1>7. /\ B \in [StringVars -> Nat] /\ E = [u \in StringVars |-> E[u]] /\ T = [u \in StringVars |-> T[u]]
      /\ B[v] = begin[w] /\ E[v] = end[w] /\ T[v] = text[w]
      /\ \A u \in StringVars \ {v} : B[u] = begin[u] /\ E[u] = end[u] /\ T[u] = text[u]
  BY <1>4, <1>6
<1>8. ASSUME NEW u \in StringVars, NEW x \in StringVars, B[u] = begin[x], E[u] = end[x], T[u] = text[x],
             B[u] \in DOMAIN heap, u = x \/ u \in C
      PROVE  MyStrOK(heap[B[u]], E[u], T[u], u \in C)
  <2>1. MyStrOK(heap[B[u]], E[u], T[u], x \in copied)
    BY <1>6, <1>8
  <2>2. x \in copied => u \in C
    BY <1>4, <1>8
  <2> QED BY ONLY <2>1, <2>2 DEF MyStrOK
<1>9. ASSUME NEW u \in StringVars, B[u] \in DOMAIN heap PROVE MyStrOK(heap[B[u]], E[u], T[u], u \in C)
  <2>1. CASE u = v
    <3>1. v \in C
      BY <1>4
    <3> QED BY <1>7, <1>8, <1>9, <2>1, <3>1
  <2>2. CASE u # v
    BY <1>7, <1>8, <1>9, <2>2
  <2> QED BY <2>1, <2>2
<1>10. ASSUME NEW u \in StringVars, B[u] # 0 PROVE B[u] \in DOMAIN heap
  BY <1>3, <1>7, <1>10
<1>11. ASSUME NEW u \in StringVars, NEW x \in StringVars, u # x, B[u] # 0, B[u] = B[x] PROVE u \in C
  <2>1. CASE u = v
    BY <1>4, <2>1
  <2>2. CASE u # v /\ u # w /\ x = v
    <3>1. begin[u] = begin[w] /\ begin[u] # 0
      BY <1>7, <1>11, <2>2
    <3> QED BY <1>4, <1>6, <2>2, <3>1
  <2>3. CASE u # v /\ u = w
    BY <1>4, <2>3
  <2>4. CASE u # v /\ x # v
    BY <1>4, <1>6, <1>7, <1>11, <2>4
  <2> QED BY <2>1, <2>2, <2>3, <2>4
<1>12. MyHeap(B, E, heap, T, C)
  BY ONLY <1>6, <1>7, <1>9, <1>10, <1>11 DEF MyHeap
<1>13. /\ obj'.begin = B /\ obj'.end = E /\ obj'.heap = heap /\ held'.text = T /\ held'.copied = C
  BY <1>5
<1> QED BY <1>2, <1>5, <1>12, <1>13 DEF MyStrInv

\* The destructor: who shares the buffer points to a released one from then on.
LEMMA DestroyStep ==
    ASSUME MyStrInv, Intact, NEW v \in StringVars, Strings!MyStrDestroy(v)
    PROVE  MyStrInv'
<1>1. PICK begin, end, heap, text, copied :
        begin = obj.begin /\ end = obj.end /\ heap = obj.heap /\ text = held.text /\ copied = held.copied
  OBVIOUS
<1>2. /\ held = [text |-> text, copied |-> copied]
      /\ MyHeap(begin, end, heap, text, copied) /\ ret[1] = ret[2]
  BY <1>1 DEF MyStrInv
<1>3. \A u \in StringVars : begin[u] # 0 => begin[u] \in DOMAIN heap
  BY <1>1 DEF Intact, Strings!Dangles, Strings!Live, Strings!NULL
<1>4. PICK B, E, H, T :
        /\ B = [begin EXCEPT ![v] = 0] /\ E = [end EXCEPT ![v] = 0]
        /\ H = Strings!Freed(heap, begin[v]) /\ T = [text EXCEPT ![v] = <<>>]
  OBVIOUS
<1>5. /\ begin[v] # 0 /\ ret' = ret
      /\ obj' = [begin |-> B, end |-> E, heap |-> H] /\ held' = [text |-> T, copied |-> copied]
  BY <1>1, <1>2, <1>4 DEF Strings!MyStrDestroy, Strings!Live, Strings!NULL
<1>6. /\ begin \in [StringVars -> Nat] /\ end = [u \in StringVars |-> end[u]]
      /\ text = [u \in StringVars |-> text[u]]
      /\ IsFiniteSet(DOMAIN heap) /\ DOMAIN heap \subseteq Nat \ {0}
      /\ \A u \in StringVars : begin[u] \in DOMAIN heap =>
            MyStrOK(heap[begin[u]], end[u], text[u], u \in copied)
      /\ \A u, x \in StringVars : u # x /\ begin[u] # 0 /\ begin[u] = begin[x] => u \in copied
  BY <1>2 DEF MyHeap
<1>7. /\ B \in [StringVars -> Nat] /\ E = [u \in StringVars |-> E[u]] /\ T = [u \in StringVars |-> T[u]]
      /\ B[v] = 0
      /\ \A u \in StringVars \ {v} : B[u] = begin[u] /\ E[u] = end[u] /\ T[u] = text[u]
  BY <1>4, <1>6
<1>8. DOMAIN H = DOMAIN heap \ {begin[v]} /\ \A x \in DOMAIN H : H[x] = heap[x]
  BY <1>4 DEF Strings!Freed
<1>9. IsFiniteSet(DOMAIN H) /\ DOMAIN H \subseteq Nat \ {0}
  <2>1. DOMAIN H \subseteq DOMAIN heap
    BY <1>8
  <2> QED BY ONLY <1>6, <2>1, FS_Subset
<1>10. ASSUME NEW u \in StringVars, B[u] \in DOMAIN H PROVE MyStrOK(H[B[u]], E[u], T[u], u \in copied)
  <2>1. u # v
    BY <1>7, <1>9, <1>10
  <2>2. B[u] = begin[u] /\ E[u] = end[u] /\ T[u] = text[u] /\ begin[u] \in DOMAIN heap /\ H[B[u]] = heap[begin[u]]
    BY <1>7, <1>8, <1>10, <2>1
  <2> QED BY <1>6, <2>2
<1>11. ASSUME NEW u \in StringVars, B[u] # 0, B[u] \notin DOMAIN H PROVE u \in copied
  <2>1. u # v /\ begin[u] # 0 /\ begin[u] \in DOMAIN heap /\ begin[u] \notin DOMAIN H
    BY <1>3, <1>7, <1>11
  <2>2. begin[u] = begin[v]
    BY <1>8, <2>1
  <2> QED BY <1>6, <2>1, <2>2
<1>12. ASSUME NEW u \in StringVars, NEW x \in StringVars, u # x, B[u] # 0, B[u] = B[x] PROVE u \in copied
  <2>1. u # v /\ x # v
    BY <1>7, <1>12
  <2> QED BY <1>6, <1>7, <1>12, <2>1
<1>13. MyHeap(B, E, H, T, copied)
  BY ONLY <1>7, <1>9, <1>10, <1>11, <1>12 DEF MyHeap
<1>14. /\ obj'.begin = B /\ obj'.end = E /\ obj'.heap = H /\ held'.text = T /\ held'.copied = copied
  BY <1>5
<1> QED BY <1>2, <1>5, <1>13, <1>14 DEF MyStrInv

\* The first states of basic_string have the invariant.
LEMMA MyStrInits == Strings!MyStrInit => MyStrInv
<1> SUFFICES ASSUME Strings!MyStrInit PROVE MyStrInv
  OBVIOUS
<1>1. PICK begin, end, heap, text :
        /\ begin = [v \in StringVars |-> 0] /\ end = [v \in StringVars |-> 0]
        /\ heap = [a \in {} |-> <<>>] /\ text = [v \in StringVars |-> <<>>]
  OBVIOUS
<1>2. /\ obj = [begin |-> begin, end |-> end, heap |-> heap] /\ held = [text |-> text, copied |-> {}]
      /\ ret = <<0, 0>>
  BY <1>1 DEF Strings!MyStrInit, Strings!NULL
<1>3. DOMAIN heap = {} /\ IsFiniteSet(DOMAIN heap)
  BY <1>1, FS_EmptySet
<1>4. /\ begin \in [StringVars -> Nat] /\ end = [v \in StringVars |-> end[v]] /\ text = [v \in StringVars |-> text[v]]
      /\ \A v \in StringVars : begin[v] = 0
  BY <1>1
<1>5. MyHeap(begin, end, heap, text, {})
  BY ONLY <1>3, <1>4 DEF MyHeap
<1> QED BY <1>2, <1>5 DEF MyStrInv

\* The texts that are given are C strings.
LEMMA TextsAre ==
    \A text \in TextsOf(TextLens) : text \in Seq(Nat \ {0}) /\ text \in Seq(Int)
<1>1. ASSUME NEW n \in TextLens, NEW text \in [1 .. n -> Chars] PROVE text \in Seq(Nat \ {0})
  <2>1. n \in Nat /\ Chars \subseteq Nat \ {0}
    BY MemoryAssumption
  <2>2. text \in [1 .. n -> Nat \ {0}]
    BY <2>1
  <2> QED BY <2>1, <2>2
<1>2. \A text \in TextsOf(TextLens) : text \in Seq(Nat \ {0})
  BY <1>1 DEF TextsOf
<1> QED BY <1>2, NatSeqIsInt

\* The calls of basic_string keep it.
LEMMA MyStrSteps == ASSUME STRING_INIT_SIZE \in Nat \ {0}, MyStrInv, Strings!MyStrNext PROVE MyStrInv'
<1>1. Intact
  BY DEF Strings!MyStrNext, Intact
<1>2. PICK v \in StringVars :
       \/ Strings!MyStrDestroy(v) \/ Strings!Default(v) \/ \E n \in {1, STRING_INIT_SIZE} : Strings!Repeated(v, n)
       \/ \E text \in TextsOf(TextLens) : Strings!FromText(v, text) \/ Strings!Extract(v, text)
       \/ \E w \in StringVars :
             \/ Strings!CopyString(v, w) \/ Strings!MyStrAssign(v, w) \/ Strings!MyStrPlus(v, w)
             \/ Strings!find(v, w) \/ \E pos, len \in 0 .. 2 : Strings!MyStrSubstr(v, w, pos, len)
  BY DEF Strings!MyStrNext
<1>3. ASSUME NEW n \in Nat PROVE \E m \in Nat \ {0} : Strings!realloc(n) = Strings!Fresh(m)
  BY CapacityFor DEF Strings!realloc
<1>4. CASE Strings!Default(v)
  <2>1. PICK m \in Nat \ {0} : Strings!realloc(STRING_INIT_SIZE) = Strings!Fresh(m)
    BY <1>3
  <2> QED BY <1>1, <1>4, <2>1, FreshStep DEF Strings!Default
<1>5. ASSUME NEW n \in {1, STRING_INIT_SIZE}, Strings!Repeated(v, n) PROVE MyStrInv'
  <2>1. PICK m \in Nat \ {0} : Strings!realloc(n) = Strings!Fresh(m)
    BY <1>3
  <2> QED BY <1>1, <1>5, <2>1, FreshStep DEF Strings!Repeated
<1>6. ASSUME NEW text \in TextsOf(TextLens), Strings!FromText(v, text) \/ Strings!Extract(v, text)
      PROVE  MyStrInv'
  <2>1. text \in Seq(Nat \ {0}) /\ text \in Seq(Int)
    BY TextsAre
  <2>2. CASE Strings!FromText(v, text)
    <3>1. PICK m \in Nat \ {0} : Strings!realloc(STRING_INIT_SIZE) = Strings!Fresh(m)
      BY <1>3
    <3>2. Strings!Gets(v, Strings!append_data(Strings!Fresh(m), text, 0), text)
      BY <2>2, <3>1 DEF Strings!FromText
    <3> QED BY <1>1, <2>1, <3>2, TextStep
  <2>3. CASE Strings!Extract(v, text)
    <3>1. Strings!Gets(v, Strings!append_data(Strings!Fresh(STRING_INIT_SIZE), text, 0), text)
      BY <2>3 DEF Strings!Extract
    <3> QED BY <1>1, <2>1, <3>1, TextStep
  <2> QED BY <1>6, <2>2, <2>3
<1>7. ASSUME NEW w \in StringVars, Strings!MyStrAssign(v, w) PROVE MyStrInv'
  <2>1. PICK m \in Nat \ {0} : Strings!realloc(STRING_INIT_SIZE) = Strings!Fresh(m)
    BY <1>3
  <2>2. PICK text : text = Strings!CText(Strings!Str(w))
    OBVIOUS
  <2>3. /\ Strings!Live(w) /\ ~ Strings!Dangles(w) /\ Strings!Terminated(Strings!Str(w))
        /\ Strings!Gets(v, Strings!append_data(Strings!Fresh(m), text, 0), held.text[w])
    BY <1>1, <1>7, <2>1, <2>2 DEF Strings!MyStrAssign, Intact
  <2>4. /\ text \in Seq(Int)
        /\ held.text[w] # Strings!NoText => text = held.text[w] /\ text \in Seq(Nat \ {0})
    BY <2>2, <2>3, TerminatedString
  <2> QED BY <1>1, <2>3, <2>4, TextStep
<1>8. ASSUME NEW w \in StringVars, NEW pos \in 0 .. 2, NEW len \in 0 .. 2, Strings!MyStrSubstr(v, w, pos, len)
      PROVE  MyStrInv'
  BY <1>1, <1>8, SubstrStep
<1> QED BY <1>1, <1>2, <1>4, <1>5, <1>6, <1>7, <1>8, CopyStep, DestroyStep, PlusStep, FindStep

\* Strings are equal exactly if their texts are.
LEMMA EqualWhen ==
    ASSUME MyStrInv, NEW v \in StringVars, NEW w \in StringVars, Strings!Shown(v), Strings!Shown(w)
    PROVE  Strings!Equal(Strings!Str(v), Strings!Str(w)) = (held.text[v] = held.text[w])
<1>1. PICK x, y : x = Strings!Str(v) /\ y = Strings!Str(w)
  OBVIOUS
<1>2. PICK s, t, a, b : s = held.text[v] /\ t = held.text[w] /\ a = x.data /\ b = y.data
  OBVIOUS
<1>3. /\ s \in Seq(Nat \ {0}) /\ \A i \in 0 .. Len(s) - 1 : a[i] = s[i + 1]
      /\ t \in Seq(Nat \ {0}) /\ \A i \in 0 .. Len(t) - 1 : b[i] = t[i + 1]
      /\ Strings!Size(x) = Len(s) /\ Strings!Size(y) = Len(t)
  BY <1>1, <1>2, WholeString
<1>4. s \in Seq(Int) /\ t \in Seq(Int)
  BY <1>3, NatSeqIsInt
<1>5. ASSUME Len(s) = Len(t), NEW i \in 0 .. Len(s) - 1
      PROVE  Strings!at(x, i) = a[i] /\ Strings!at(y, i) = b[i]
  <2>1. i < Len(s) /\ i < Len(t)
    BY <1>3, <1>5
  <2> QED BY <1>2, <1>3, <2>1 DEF Strings!at
<1>6. ASSUME s = t PROVE Strings!Equal(x, y)
  <2>1. \A i \in 0 .. Len(s) - 1 : a[i] = b[i]
    BY <1>3, <1>6
  <2>2. \A i \in 0 .. Len(s) - 1 : Strings!at(x, i) = Strings!at(y, i)
    BY <1>5, <1>6, <2>1
  <2> QED BY <1>3, <1>6, <2>2 DEF Strings!Equal
<1>7. ASSUME Strings!Equal(x, y) PROVE s = t
  <2>1. Len(s) = Len(t) /\ \A i \in 0 .. Len(s) - 1 : Strings!at(x, i) = Strings!at(y, i)
    BY <1>3, <1>7 DEF Strings!Equal
  <2>2. \A i \in 0 .. Len(s) - 1 : s[i + 1] = t[i + 1]
    BY <1>3, <1>5, <2>1
  <2>3. ASSUME NEW k \in 1 .. Len(s) PROVE s[k] = t[k]
    <3>1. k - 1 \in 0 .. Len(s) - 1 /\ (k - 1) + 1 = k
      BY <1>3
    <3> QED BY <2>2, <3>1
  <2> QED BY ONLY <1>4, <2>1, <2>3, SeqEqual
<1>8. Strings!Equal(x, y) <=> s = t
  BY <1>6, <1>7
<1>9. Strings!Equal(x, y) \in BOOLEAN
  BY Zenon DEF Strings!Equal
<1> QED BY <1>1, <1>2, <1>8, <1>9

\* operator<< writes the text with its NUL.
LEMMA InsertionIs ==
    ASSUME MyStrInv, NEW v \in StringVars, Strings!Shown(v), obj.end[v] > 0
    PROVE  Strings!Insertion(Strings!Str(v)) = Append(held.text[v], 0)
<1>1. PICK s, a : s = held.text[v] /\ a = Strings!Str(v).data
  OBVIOUS
<1>2. Strings!Str(v)._end = obj.end[v]
  BY DEF Strings!Str
<1>3. /\ s \in Seq(Nat \ {0}) /\ \A i \in 0 .. Len(s) - 1 : a[i] = s[i + 1]
      /\ obj.end[v] = Len(s) + 1 /\ a[Len(s)] = 0
  BY <1>1, WholeString
<1>4. s \in Seq(Int)
  BY <1>3, NatSeqIsInt
<1>5. PICK L \in Nat : L = Len(s)
  BY <1>3
<1>6. PICK x : x = [i \in 1 .. L + 1 |-> a[i - 1]]
  OBVIOUS
<1>7. Strings!Insertion(Strings!Str(v)) = x
  BY <1>1, <1>2, <1>3, <1>5, <1>6 DEF Strings!Insertion
<1>8. PICK y : y = Append(s, 0)
  OBVIOUS
<1>9. y \in Seq(Int) /\ Len(y) = L + 1 /\ y[L + 1] = 0 /\ \A i \in 1 .. L : y[i] = s[i]
  <2>1. 0 \in Int
    OBVIOUS
  <2> QED BY ONLY <1>4, <1>5, <1>8, <2>1, AppendProperties
<1>10. ASSUME NEW i \in 1 .. L + 1 PROVE x[i] = y[i]
  <2>1. CASE i = L + 1
    <3>1. i - 1 = L
      BY <2>1
    <3> QED BY <1>3, <1>5, <1>6, <1>9, <2>1, <3>1
  <2>2. CASE i # L + 1
    <3>1. i \in 1 .. L /\ i - 1 \in 0 .. L - 1 /\ (i - 1) + 1 = i
      BY <2>2
    <3>2. a[i - 1] = s[(i - 1) + 1]
      BY <1>3, <1>5, <3>1
    <3> QED BY <1>6, <1>9, <3>1, <3>2
  <2> QED BY <2>1, <2>2
<1>11. y = [i \in 1 .. L + 1 |-> y[i]] /\ x = [i \in 1 .. L + 1 |-> x[i]]
  BY <1>6, <1>9
<1>12. x = y
  BY ONLY <1>10, <1>11
<1> QED BY <1>1, <1>7, <1>8, <1>12

\* It implies the property of basic_string.
LEMMA MyStrIsSound == MyStrInv => Strings!MyStrSound
<1> SUFFICES ASSUME MyStrInv PROVE Strings!MyStrSound
  OBVIOUS
<1>1. ASSUME NEW v \in StringVars, NEW w \in StringVars, v # w, Strings!Live(v), obj.begin[v] = obj.begin[w]
      PROVE  v \in held.copied
  BY <1>1 DEF MyStrInv, MyHeap, Strings!Live, Strings!NULL
<1>2. ASSUME NEW v \in StringVars, Strings!Dangles(v) PROVE v \in held.copied
  BY <1>2 DEF MyStrInv, MyHeap, Strings!Dangles, Strings!Live, Strings!NULL
<1>3. ASSUME NEW v \in StringVars, Strings!Live(v), ~ Strings!Dangles(v)
      PROVE  /\ obj.end[v] <= Strings!capacity(Strings!Str(v))
             /\ obj.end[v] > 0 /\ v \notin held.copied => Strings!Str(v).data[obj.end[v] - 1] = 0
  <2>1. PICK a, n, e : /\ Strings!Str(v) = MyStr(a, e) /\ e = obj.end[v]
                       /\ Buffer(a, n) /\ n \in Nat \ {0} /\ e \in 0 .. n
                       /\ e # 0 /\ v \notin held.copied => a[e - 1] = 0
    BY <1>3, LiveString
  <2>2. Strings!capacity(MyStr(a, e)) = n /\ MyStr(a, e).data = a
    BY <2>1, CapacityIs DEF MyStr
  <2> QED BY <2>1, <2>2
<1>4. ASSUME NEW v \in StringVars, Strings!Shown(v)
      PROVE  /\ Strings!Size(Strings!Str(v)) = Len(held.text[v])
             /\ obj.end[v] > 0 =>
                  /\ Strings!Terminated(Strings!Str(v)) /\ Strings!CText(Strings!Str(v)) = held.text[v]
                  /\ Strings!Insertion(Strings!Str(v)) = Append(held.text[v], 0)
  BY <1>4, WholeString, InsertionIs
<1>5. ret[1] = ret[2]
  BY DEF MyStrInv
<1> QED BY <1>1, <1>2, <1>3, <1>4, <1>5, EqualWhen DEF Strings!MyStrSound, Strings!NUL

-----------------------------------------------------------------------------
(* The search tree. *)

\* search(): a value is found from a node exactly if it is one of those below it.
LEMMA SearchFinds ==
    ASSUME NEW lo, NEW hi, NEW par,
           SearchTree(BSTData, Root, lchild, rchild, alive, lo, hi, par), NEW d \in Values(BSTData)
    PROVE  BST!search(d) <=> d \in alive
<1> DEFINE Below(x) == d \in alive /\ lo[x] < d /\ d < hi[x]
           Next1(x) == IF d < x THEN lchild[x] ELSE rchild[x]
<1> USE TreeAssumption
<1>1. /\ alive \subseteq Values(BSTData) /\ Root \in alive \cup {0} /\ (Root = 0 => alive = {})
      /\ lchild \in [Values(BSTData) -> Values(BSTData) \cup {0}]
      /\ rchild \in [Values(BSTData) -> Values(BSTData) \cup {0}]
      /\ Root # 0 => lo[Root] = 0 /\ hi[Root] = BSTData + 1
      /\ \A x \in Values(BSTData) : x \notin alive => lchild[x] = 0 /\ rchild[x] = 0
  BY DEF SearchTree
<1>2. ASSUME NEW x \in alive, x # d
      PROVE  Below(x) <=> Next1(x) \in alive /\ Below(Next1(x))
  <2>1. d \in Int /\ x \in Int
    BY <1>1 DEF Values
  <2>2. CASE d < x
    BY <1>2, <2>1, <2>2, NodeOfTree
  <2>3. CASE x < d
    BY <1>2, <2>1, <2>3, NodeOfTree
  <2> QED BY <1>2, <2>1, <2>2, <2>3
<1>3. \A x \in alive : Next1(x) \in alive \cup {0} /\ 0 \notin alive
  BY NodeOfTree
<1> DEFINE F == [x \in Values(BSTData) \cup {0} |-> IF x \in alive THEN Below(x) ELSE x # 0 /\ x = d]
           S == CHOOSE g : g = [x \in Values(BSTData) \cup {0} |-> IF x = 0 THEN FALSE ELSE (x = d \/ g[Next1(x)])]
<1>4. S = [x \in Values(BSTData) \cup {0} |-> IF x = 0 THEN FALSE ELSE (x = d \/ S[Next1(x)])]
  <2>1. PICK f : f = F
    OBVIOUS
  <2>2. ASSUME NEW x \in Values(BSTData) \cup {0}
        PROVE  F[x] = IF x = 0 THEN FALSE ELSE (x = d \/ F[Next1(x)])
    <3>1. CASE x = 0
      BY <1>3, <3>1
    <3>2. CASE x # 0 /\ x \notin alive
      <4>1. Next1(x) = 0 /\ x \in Values(BSTData)
        BY <1>1, <3>2
      <4>2. F[0] = FALSE
        BY <1>3, 0 \notin Values(BSTData), <1>1 DEF Values
      <4> QED BY <3>2, <4>1, <4>2
    <3>3. CASE x \in alive
      <4>1. Next1(x) \in alive \cup {0} /\ x # 0 /\ 0 \notin alive
        BY <1>1, <1>3, <3>3 DEF Values
      <4>2. F[x] = Below(x)
        BY <3>3
      <4>3. CASE x = d
        <5>1. Below(x)
          BY <3>3, <4>3, NodeOfTree
        <5> QED BY <4>1, <4>2, <4>3, <5>1
      <4>4. CASE x # d
        <5>1. F[Next1(x)] = (Next1(x) \in alive /\ Below(Next1(x)))
          <6>1. CASE Next1(x) \in alive
            <7>1. \A y \in alive : F[y] = Below(y)
              BY <1>1
            <7>2. F[Next1(x)] = Below(Next1(x))
              <8> HIDE DEF F, Below, Next1
              <8> QED BY <6>1, <7>1
            <7> HIDE DEF F, Next1
            <7> QED BY <6>1, <7>2
          <6>2. CASE Next1(x) = 0
            <7> HIDE DEF Below, Next1
            <7> QED BY <4>1, <6>2
          <6> QED BY <4>1, <6>1, <6>2
        <5>2. F[x] = F[Next1(x)]
          <6> HIDE DEF Next1, F
          <6> QED BY <1>2, <3>3, <4>2, <4>4, <5>1
        <5> HIDE DEF Next1, F
        <5>3. F[x] \in BOOLEAN
          BY <4>2
        <5> QED BY <4>1, <4>4, <5>2, <5>3
      <4> QED BY <4>3, <4>4
    <3> QED BY <3>1, <3>2, <3>3
  <2>3. PICK g : g = [x \in Values(BSTData) \cup {0} |-> IF x = 0 THEN FALSE ELSE (x = d \/ f[Next1(x)])]
    OBVIOUS
  <2>4. f = [x \in Values(BSTData) \cup {0} |-> f[x]] /\ g = [x \in Values(BSTData) \cup {0} |-> g[x]]
    BY <2>1, <2>3
  <2>5. \A x \in Values(BSTData) \cup {0} : f[x] = g[x]
    <3> HIDE DEF F, Next1
    <3> QED BY <2>1, <2>2, <2>3
  <2>6. f = g
    BY ONLY <2>4, <2>5
  <2>7. \E z : z = [x \in Values(BSTData) \cup {0} |-> IF x = 0 THEN FALSE ELSE (x = d \/ z[Next1(x)])]
    BY <2>3, <2>6
  <2> QED BY <2>7
<1>5. BST!search(d) = S[Root]
  BY DEF BST!search, BST!Toward, BST!Ptr, Values
<1> HIDE DEF S, F
<1>6. \A x \in alive : S[x] <=> (x = d \/ S[Next1(x)])
  <2> HIDE DEF Next1
  <2>1. \A x \in alive : x \in Values(BSTData) \cup {0} /\ x # 0
    BY <1>1 DEF Values
  <2> QED BY <1>4, <2>1
<1>7. S[0] = FALSE
  BY <1>4
<1> DEFINE T == {hi[x] - lo[x] : x \in {y \in alive : ~ (S[y] <=> Below(y))}}
<1>8. T = {}
  <2> SUFFICES ASSUME T # {} PROVE FALSE
    OBVIOUS
  <2>1. PICK m \in T : \A y \in T : m <= y
    <3>1. ASSUME NEW x \in alive PROVE hi[x] - lo[x] \in Nat
      <4>1. lo[x] \in Int /\ hi[x] \in Int /\ x \in Int /\ lo[x] < x /\ x < hi[x]
        BY NodeOfTree DEF Values
      <4> QED BY ONLY <4>1
    <3>2. T \in SUBSET Nat
      <4> HIDE DEF Below
      <4> QED BY <3>1
    <3> HIDE DEF T
    <3> QED BY <3>2, Least
  <2>2. PICK x \in alive : m = hi[x] - lo[x] /\ ~ (S[x] <=> Below(x))
    OBVIOUS
  <2>3. x # d
    <3> SUFFICES ASSUME x = d PROVE FALSE
      OBVIOUS
    <3>1. Below(x)
      BY NodeOfTree
    <3> QED BY <1>6, <2>2, <3>1
  <2>4. Next1(x) \in alive
    <3> SUFFICES ASSUME Next1(x) = 0 PROVE FALSE
      BY <1>3
    <3>1. ~ Below(x)
      BY <1>2, <1>3, <2>3
    <3> QED BY <1>6, <1>7, <2>2, <2>3, <3>1
  <2>5. ~ (S[Next1(x)] <=> Below(Next1(x)))
    <3> HIDE DEF Next1, Below
    <3> QED BY <1>2, <1>6, <2>2, <2>3, <2>4
  <2>6. hi[Next1(x)] - lo[Next1(x)] \in T
    BY <2>4, <2>5
  <2>7. hi[Next1(x)] - lo[Next1(x)] < hi[x] - lo[x]
    <3>1. Next1(x) # 0
      BY <1>3, <2>4
    <3>2. CASE d < x
      BY <3>1, <3>2, NodeOfTree
    <3>3. CASE ~ (d < x)
      BY <3>1, <3>3, NodeOfTree
    <3> QED BY <3>2, <3>3
  <2>8. m <= hi[Next1(x)] - lo[Next1(x)]
    <3> HIDE DEF T, Next1
    <3> QED BY <2>1, <2>6
  <2>9. hi[Next1(x)] - lo[Next1(x)] \in Int /\ m \in Int
    <3> HIDE DEF Next1
    <3>1. \A y \in alive : hi[y] \in Int /\ lo[y] \in Int
      BY NodeOfTree
    <3> QED BY <2>2, <2>4, <3>1
  <2> HIDE DEF Next1, T
  <2> QED BY <2>2, <2>7, <2>8, <2>9
<1>9. CASE Root = 0
  BY <1>1, <1>5, <1>7, <1>9
<1>10. CASE Root \in alive
  <2>1. S[Root] <=> Below(Root)
    BY <1>8, <1>10
  <2>2. d \in alive => lo[Root] < d /\ d < hi[Root]
    <3>1. Root # 0 /\ d \in 1 .. BSTData
      BY <1>1, <1>3, <1>10 DEF Values
    <3> QED BY <1>1, <3>1
  <2> QED BY <1>5, <2>1, <2>2
<1> QED BY <1>1, <1>9, <1>10

\* A walk down the links is a function and ends in every part of the tree that it does not
\* leave.
LEMMA WalkEnds ==
    ASSUME NEW lo, NEW hi, NEW par, SearchTree(BSTData, Root, lchild, rchild, alive, lo, hi, par),
           NEW nx, \A x \in Values(BSTData) : nx[x] = lchild[x] \/ nx[x] = rchild[x]
    PROVE  /\ \E f : f = [x \in Values(BSTData) |-> IF nx[x] = 0 THEN x ELSE f[nx[x]]]
           /\ \A f, G : /\ G \subseteq alive
                        /\ \A x \in G : nx[x] # 0 => nx[x] \in G
                        /\ \A x \in Values(BSTData) : f[x] = IF nx[x] = 0 THEN x ELSE f[nx[x]]
                        => \A x \in G : f[x] \in G /\ nx[f[x]] = 0
<1>1. /\ alive \subseteq Values(BSTData) /\ BSTData \in Nat
      /\ \A x \in Values(BSTData) : x \notin alive => lchild[x] = 0 /\ rchild[x] = 0
  BY TreeAssumption DEF SearchTree
<1>2. PICK h : h = [x \in Values(BSTData) |-> IF x \in alive THEN hi[x] - lo[x] ELSE 0]
  OBVIOUS
<1>3. ASSUME NEW x \in alive
      PROVE  /\ x \in Values(BSTData) /\ h[x] = hi[x] - lo[x] /\ h[x] \in Nat /\ h[x] < BSTData + 2
             /\ nx[x] # 0 => nx[x] \in alive /\ h[nx[x]] < h[x]
  <2>1. x \in Values(BSTData) /\ h[x] = hi[x] - lo[x]
    BY <1>1, <1>2
  <2>2. /\ lo[x] \in Int /\ hi[x] \in Int /\ x \in Int /\ lo[x] < x /\ x < hi[x]
        /\ 0 <= lo[x] /\ hi[x] <= BSTData + 1
    BY NodeOfTree DEF Values
  <2>3. nx[x] # 0 => nx[x] \in alive /\ (hi[nx[x]] - lo[nx[x]] = x - lo[x] \/ hi[nx[x]] - lo[nx[x]] = hi[x] - x)
    BY <2>1, NodeOfTree
  <2>4. nx[x] # 0 => h[nx[x]] = hi[nx[x]] - lo[nx[x]]
    BY <1>1, <1>2, <2>3
  <2>5. h[x] \in Nat /\ h[x] < BSTData + 2
    BY ONLY <1>1, <2>1, <2>2
  <2>6. nx[x] # 0 => h[nx[x]] < h[x]
    BY ONLY <2>1, <2>2, <2>3, <2>4
  <2> QED BY <2>1, <2>3, <2>5, <2>6
<1>4. ASSUME NEW x \in Values(BSTData), x \notin alive PROVE h[x] = 0 /\ nx[x] = 0
  BY <1>1, <1>2, <1>4
<1>5. h \in [Values(BSTData) -> Nat] /\ \A x \in Values(BSTData) : h[x] < BSTData + 2 /\ (nx[x] = 0 \/ (nx[x] \in Values(BSTData) /\ h[nx[x]] < h[x]))
  <2>1. \A x \in Values(BSTData) : h[x] \in Nat /\ h[x] < BSTData + 2
    BY <1>1, <1>3, <1>4
  <2>2. \A x \in Values(BSTData) : nx[x] = 0 \/ (nx[x] \in Values(BSTData) /\ h[nx[x]] < h[x])
    BY <1>1, <1>3, <1>4
  <2> QED BY <1>2, <2>1, <2>2
<1>6. \E f : f = [x \in Values(BSTData) |-> IF nx[x] = 0 THEN x ELSE f[nx[x]]]
  <2>1. BSTData + 2 \in Nat
    BY <1>1
  <2>2. \A x \in Values(BSTData) : h[x] < BSTData + 2 /\ (nx[x] # 0 => nx[x] \in Values(BSTData) /\ h[nx[x]] < h[x])
    BY <1>5
  <2>3. h \in [Values(BSTData) -> Nat]
    BY <1>5
  <2> QED BY ONLY <2>1, <2>2, <2>3, Descent
<1>7. ASSUME NEW f, NEW G, G \subseteq alive, \A x \in G : nx[x] # 0 => nx[x] \in G,
             \A x \in Values(BSTData) : f[x] = IF nx[x] = 0 THEN x ELSE f[nx[x]]
      PROVE  \A x \in G : f[x] \in G /\ nx[f[x]] = 0
  <2>1. G \in SUBSET Values(BSTData) /\ \A x \in G : nx[x] # 0 => nx[x] \in G /\ h[nx[x]] < h[x]
    BY <1>1, <1>3, <1>7
  <2>2. h \in [Values(BSTData) -> Nat] /\ \A x \in Values(BSTData) : f[x] = IF nx[x] = 0 THEN x ELSE f[nx[x]]
    BY <1>5, <1>7
  <2> QED BY ONLY <2>1, <2>2, DescentEnds
<1> QED BY <1>6, <1>7

\* insertNode(): the value belongs below the node at which the walk ends, where no link is.
LEMMA AttachesAt ==
    ASSUME NEW lo, NEW hi, NEW par, SearchTree(BSTData, Root, lchild, rchild, alive, lo, hi, par),
           NEW d \in Values(BSTData), d \notin alive, Root # 0
    PROVE  LET D[x \in Values(BSTData)] == IF BST!Toward(d, x) = 0 THEN x ELSE D[BST!Toward(d, x)]
               p == D[Root]
           IN  p \in alive /\ lo[p] < d /\ d < hi[p] /\ (IF d < p THEN lchild[p] = 0 ELSE rchild[p] = 0)
<1> DEFINE D == CHOOSE g : g = [x \in Values(BSTData) |-> IF BST!Toward(d, x) = 0 THEN x ELSE g[BST!Toward(d, x)]]
           G == {x \in alive : lo[x] < d /\ d < hi[x]}
<1>1. PICK nx : nx = [x \in Values(BSTData) |-> BST!Toward(d, x)]
  OBVIOUS
<1>2. \A x \in Values(BSTData) : nx[x] = BST!Toward(d, x) /\ (nx[x] = lchild[x] \/ nx[x] = rchild[x])
  BY <1>1 DEF BST!Toward
<1>3. PICK f : f = [x \in Values(BSTData) |-> IF nx[x] = 0 THEN x ELSE f[nx[x]]]
  BY <1>2, WalkEnds
<1>4. PICK g : g = [x \in Values(BSTData) |-> IF BST!Toward(d, x) = 0 THEN x ELSE f[BST!Toward(d, x)]]
  OBVIOUS
<1>5. f = g
  <2>1. \A x \in Values(BSTData) : f[x] = g[x]
    BY <1>2, <1>3, <1>4
  <2>2. f = [x \in Values(BSTData) |-> f[x]] /\ g = [x \in Values(BSTData) |-> g[x]]
    BY <1>3, <1>4
  <2> QED BY ONLY <2>1, <2>2
<1>6. D = [x \in Values(BSTData) |-> IF BST!Toward(d, x) = 0 THEN x ELSE D[BST!Toward(d, x)]]
  <2>1. \E z : z = [x \in Values(BSTData) |-> IF BST!Toward(d, x) = 0 THEN x ELSE z[BST!Toward(d, x)]]
    BY <1>4, <1>5
  <2> QED BY <2>1
<1> HIDE DEF D
<1>7. \A x \in Values(BSTData) : D[x] = IF nx[x] = 0 THEN x ELSE D[nx[x]]
  BY <1>2, <1>6
<1>8. ASSUME NEW x \in G, nx[x] # 0 PROVE nx[x] \in G
  <2>1. x \in Values(BSTData) /\ nx[x] = (IF d < x THEN lchild[x] ELSE rchild[x]) /\ d # x
    BY <1>2, NodeOfTree DEF BST!Toward
  <2>2. x \in Int /\ d \in Int
    BY <2>1, TreeAssumption DEF Values
  <2>3. CASE d < x
    BY <1>8, <2>1, <2>2, <2>3, NodeOfTree
  <2>4. CASE x < d
    BY <1>8, <2>1, <2>2, <2>4, NodeOfTree
  <2> QED BY <2>1, <2>2, <2>3, <2>4
<1>9. Root \in G
  <2>1. Root \in alive /\ lo[Root] = 0 /\ hi[Root] = BSTData + 1
    BY DEF SearchTree
  <2> QED BY <2>1, TreeAssumption DEF Values
<1>10. D[Root] \in G /\ nx[D[Root]] = 0
  <2> HIDE DEF G
  <2>1. G \subseteq alive
    BY DEF G
  <2> QED BY <1>2, <1>7, <1>8, <1>9, <2>1, WalkEnds
<1>11. IF d < D[Root] THEN lchild[D[Root]] = 0 ELSE rchild[D[Root]] = 0
  <2>1. D[Root] \in Values(BSTData)
    BY <1>10, NodeOfTree
  <2> QED BY <1>2, <1>10, <2>1 DEF BST!Toward
<1>12. D[Root] \in alive /\ lo[D[Root]] < d /\ d < hi[D[Root]]
  BY <1>10
<1> QED BY <1>11, <1>12 DEF D

\* deleteNode(): the replacement is the greatest of the smaller values below the node.
LEMMA LastBelow ==
    ASSUME NEW lo, NEW hi, NEW par, SearchTree(BSTData, Root, lchild, rchild, alive, lo, hi, par),
           NEW p \in alive, lchild[p] # 0
    PROVE  /\ BST!LastOf(p) \in alive /\ hi[BST!LastOf(p)] = p /\ rchild[BST!LastOf(p)] = 0
           /\ lo[p] <= lo[BST!LastOf(p)]
<1> DEFINE D == CHOOSE g : g = [x \in Values(BSTData) |-> IF rchild[x] = 0 THEN x ELSE g[rchild[x]]]
           G == {x \in alive : hi[x] = p}
<1>1. \E z : z = [x \in Values(BSTData) |-> IF rchild[x] = 0 THEN x ELSE z[rchild[x]]]
  BY WalkEnds
<1>2. D = [x \in Values(BSTData) |-> IF rchild[x] = 0 THEN x ELSE D[rchild[x]]]
  BY <1>1
<1>3. BST!LastOf(p) = D[lchild[p]]
  BY DEF BST!LastOf, Values
<1> HIDE DEF D
<1>4. \A x \in Values(BSTData) : D[x] = IF rchild[x] = 0 THEN x ELSE D[rchild[x]]
  BY <1>2
<1>5. \A x \in G : rchild[x] # 0 => rchild[x] \in G
  BY NodeOfTree
<1>6. lchild[p] \in G
  BY NodeOfTree
<1>7. D[lchild[p]] \in G /\ rchild[D[lchild[p]]] = 0
  <2> HIDE DEF G
  <2>1. G \subseteq alive
    BY DEF G
  <2>2. \A f, H : /\ H \subseteq alive
                  /\ \A x \in H : rchild[x] # 0 => rchild[x] \in H
                  /\ \A x \in Values(BSTData) : f[x] = IF rchild[x] = 0 THEN x ELSE f[rchild[x]]
                  => \A x \in H : f[x] \in H /\ rchild[f[x]] = 0
    BY WalkEnds
  <2>3. \A x \in G : D[x] \in G /\ rchild[D[x]] = 0
    BY ONLY <1>4, <1>5, <2>1, <2>2
  <2> QED BY <1>6, <2>3
<1>8. lo[p] <= lo[D[lchild[p]]]
  <2>1. p # BSTData + 1
    BY NodeOfTree, TreeAssumption DEF Values
  <2> QED BY <1>7, <2>1, NodeOfTree
<1> QED BY <1>3, <1>7, <1>8

\* While the destructor runs, every node not yet deleted is in the queue, once, or below a
\* node not yet deleted.
Queued(A, par) ==
    /\ alive \subseteq A /\ q \in Seq(Values(BSTData))
    /\ \A i, j \in 1 .. Len(q) : i # j => q[i] # q[j]
    /\ \A i \in 1 .. Len(q) : q[i] \in alive /\ par[q[i]] \notin alive
    /\ \A x \in alive : par[x] \in alive \/ \E i \in 1 .. Len(q) : q[i] = x
    /\ \A x \in A : par[x] \in alive => x \in alive

\* The links make a search tree until they are destroyed.
TreeInv ==
    /\ pc \in {"running", "crashed"} =>
          q = <<>> /\ \E lo, hi, par : SearchTree(BSTData, Root, lchild, rchild, alive, lo, hi, par)
    /\ pc = "destroying" =>
          \E A, lo, hi, par : SearchTree(BSTData, Root, lchild, rchild, A, lo, hi, par) /\ Queued(A, par)
    /\ pc = "done" => alive = {} /\ q = <<>>
    /\ pc \in {"running", "crashed", "destroying", "done"}

\* The first states have the invariant.
LEMMA TreeInits == BST!Init => TreeInv
<1> SUFFICES ASSUME BST!Init PROVE TreeInv
  OBVIOUS
<1>1. /\ Root = 0 /\ alive = {} /\ q = <<>> /\ pc = "running"
      /\ lchild = [d \in Values(BSTData) |-> 0] /\ rchild = [d \in Values(BSTData) |-> 0]
  BY DEF BST!Init, BST!NoChild, Values
<1>2. PICK f : f = [x \in Values(BSTData) |-> 0]
  OBVIOUS
<1>3. SearchTree(BSTData, Root, lchild, rchild, alive, f, f, f)
  BY <1>1, <1>2 DEF SearchTree
<1> QED BY <1>1, <1>3 DEF TreeInv

\* insertNode().
LEMMA InsertKeeps ==
    ASSUME NEW d \in Values(BSTData), NEW lo, NEW hi, NEW par,
           SearchTree(BSTData, Root, lchild, rchild, alive, lo, hi, par),
           BST!InsertNode(d)
    PROVE  \E lo2, hi2, par2 : SearchTree(BSTData, Root', lchild', rchild', alive', lo2, hi2, par2)
<1>1. d \notin alive /\ alive' = alive \cup {d}
  BY SearchFinds DEF BST!InsertNode
<1>2. CASE Root = 0
  <2>1. Root' = d /\ lchild' = lchild /\ rchild' = rchild
    BY <1>2 DEF BST!InsertNode
  <2>2. SearchTree(BSTData, 0, lchild, rchild, alive, lo, hi, par)
    BY <1>2
  <2> QED BY <1>1, <2>1, <2>2, TreeAssumption, GrowsFirst
<1>3. CASE Root # 0
  <2> DEFINE D == CHOOSE g : g = [x \in Values(BSTData) |-> IF BST!Toward(d, x) = 0 THEN x ELSE g[BST!Toward(d, x)]]
  <2>1. PICK p : p = D[Root]
    OBVIOUS
  <2>2. p \in alive /\ lo[p] < d /\ d < hi[p] /\ (IF d < p THEN lchild[p] = 0 ELSE rchild[p] = 0)
    BY <1>1, <1>3, <2>1, AttachesAt
  <2>3. /\ Root' = Root
        /\ IF d < p THEN lchild' = [lchild EXCEPT ![p] = d] /\ rchild' = rchild
           ELSE rchild' = [rchild EXCEPT ![p] = d] /\ lchild' = lchild
    BY <1>3, <2>1 DEF BST!InsertNode, Values
  <2>4. CASE d < p
    BY <1>1, <2>2, <2>3, <2>4, TreeAssumption, GrowsLeft
  <2>5. CASE ~ (d < p)
    <3>1. p < d
      <4>1. p \in Int /\ d \in Int /\ p # d
        BY <1>1, <2>2, NodeOfTree, TreeAssumption DEF Values
      <4> QED BY <2>5, <4>1
    <3> QED BY <1>1, <2>2, <2>3, <2>5, <3>1, TreeAssumption, GrowsRight
  <2> QED BY <2>4, <2>5
<1> QED BY <1>2, <1>3

\* deleteNode() looks up the node above.
LEMMA ParentIs ==
    ASSUME NEW lo, NEW hi, NEW par,
           SearchTree(BSTData, Root, lchild, rchild, alive, lo, hi, par), NEW p \in alive
    PROVE  BST!parent(p) = par[p]
<1>1. CASE par[p] = 0
  <2>1. ASSUME NEW x \in alive, p \in {lchild[x], rchild[x]} PROVE FALSE
    <3>1. p # 0
      BY NodeOfTree
    <3>2. par[p] = x /\ x # 0
      BY <2>1, <3>1, NodeOfTree
    <3> QED BY <1>1, <3>2
  <2> QED BY <1>1, <2>1 DEF BST!parent
<1>2. CASE par[p] # 0
  <2>1. /\ par[p] \in alive /\ p \in {lchild[par[p]], rchild[par[p]]}
        /\ \A y \in alive : p \in {lchild[y], rchild[y]} => y = par[p]
    BY <1>2, TreeAssumption, BelowParent
  <2>2. BST!parent(p) = CHOOSE x \in alive : p \in {lchild[x], rchild[x]}
    BY <2>1 DEF BST!parent
  <2> QED BY <2>1, <2>2
<1> QED BY <1>1, <1>2

\* deleteNode().
LEMMA DeleteKeeps ==
    ASSUME NEW p \in Values(BSTData), NEW lo, NEW hi, NEW par,
           SearchTree(BSTData, Root, lchild, rchild, alive, lo, hi, par),
           BST!DeleteNode(p)
    PROVE  \E lo2, hi2, par2 : SearchTree(BSTData, Root', lchild', rchild', alive', lo2, hi2, par2)
<1>0. p \in alive
  BY SearchFinds DEF BST!DeleteNode
<1>1. PICK P : P = par[p] /\ P = BST!parent(p)
  BY <1>0, ParentIs
<1>2. PICK temp : temp = IF lchild[p] = 0 THEN rchild[p] ELSE BST!LastOf(p)
  OBVIOUS
<1>3. PICK l, r : l = BST!Spliced(p, temp)[1] /\ r = BST!Spliced(p, temp)[2]
  OBVIOUS
<1>4. /\ P # 0 /\ Root' = Root /\ alive' = alive \ {p}
      /\ IF lchild[P] = p
         THEN /\ lchild' = [l EXCEPT ![P] = temp, ![p] = 0]
              /\ rchild' = [r EXCEPT ![p] = 0]
         ELSE /\ lchild' = [l EXCEPT ![p] = 0]
              /\ rchild' = [r EXCEPT ![P] = temp, ![p] = 0]
  BY <1>1, <1>2, <1>3 DEF BST!DeleteNode
<1>5. P \in alive /\ P \in Values(BSTData) /\ P # p /\ (lchild[P] # p => rchild[P] = p)
  <2>1. P \in alive /\ P # p /\ (lchild[P] # p => rchild[P] = p)
    <3>1. par[p] # 0
      BY <1>1, <1>4
    <3>2. par[p] \in alive /\ par[p] # p /\ (lchild[par[p]] # p => rchild[par[p]] = p)
      BY <1>0, <3>1, TreeAssumption, BelowParent
    <3> QED BY <1>1, <3>2
  <2> QED BY <2>1, NodeOfTree
<1>6. /\ lchild \in [Values(BSTData) -> Values(BSTData) \cup {0}]
      /\ rchild \in [Values(BSTData) -> Values(BSTData) \cup {0}]
      /\ alive \subseteq Values(BSTData)
  BY DEF SearchTree
<1>7. CASE lchild[p] = 0
  <2>1. temp = rchild[p] /\ l = lchild /\ r = rchild
    BY <1>2, <1>3, <1>7 DEF BST!Spliced
  <2>2. temp \in Values(BSTData) \cup {0}
    BY <1>6, <2>1
  <2>3. lchild' \in [Values(BSTData) -> Values(BSTData) \cup {0}] /\ rchild' \in [Values(BSTData) -> Values(BSTData) \cup {0}]
    BY <1>4, <1>6, <2>1, <2>2
  <2>4. \A x \in Values(BSTData) :
           /\ lchild'[x] = IF x = p THEN 0 ELSE IF x = P /\ lchild[P] = p THEN temp ELSE lchild[x]
           /\ rchild'[x] = IF x = p THEN 0 ELSE IF x = P /\ lchild[P] # p THEN temp ELSE rchild[x]
    BY <1>4, <1>6, <2>1
  <2>5. P = par[p] /\ P # 0 /\ temp = rchild[p] /\ p \in alive /\ lchild[p] = 0
    BY <1>0, <1>1, <1>4, <1>7, <2>1
  <2>6. \E lo2, hi2, par2 : SearchTree(BSTData, Root, lchild', rchild', alive \ {p}, lo2, hi2, par2)
    BY <2>3, <2>4, <2>5, TreeAssumption, ShrinksRight
  <2> QED BY <1>4, <2>6
<1>8. CASE lchild[p] # 0
  <2>1. temp \in alive /\ hi[temp] = p /\ rchild[temp] = 0 /\ lo[p] <= lo[temp]
    BY <1>0, <1>2, <1>8, LastBelow
  <2>2. PICK tt : tt = par[temp]
    OBVIOUS
  <2>3. (IF temp = lchild[p] THEN p ELSE BST!parent(temp)) = tt
    BY <1>0, <1>8, <2>1, <2>2, ParentIs, NodeOfTree
  <2>4. temp \in Values(BSTData) /\ p \in Values(BSTData) /\ temp # p
    BY <2>1, <1>6, NodeOfTree
  <2>5. tt = p \/ (tt \in Values(BSTData) /\ tt # temp)
    <3>1. tt # 0
      <4>1. temp # Root
        <5>1. Root = 0 \/ hi[Root] = BSTData + 1
          BY DEF SearchTree
        <5>2. temp # 0 /\ p # BSTData + 1
          BY <1>0, <1>6, <2>1, TreeAssumption DEF Values
        <5> QED BY <2>1, <5>1, <5>2
      <4> QED BY <2>1, <2>2, <4>1, NodeOfTree
    <3> QED BY <1>6, <2>1, <2>2, <3>1, TreeAssumption, BelowParent
  <2>6. /\ l = [lchild EXCEPT ![temp] = IF tt = p THEN lchild[temp] ELSE lchild[p]]
        /\ r = [(IF tt = p THEN rchild ELSE [rchild EXCEPT ![tt] = lchild[temp]]) EXCEPT ![temp] = rchild[p]]
    BY <1>3, <1>8, <2>3 DEF BST!Spliced
  <2>7. Relinked(BSTData, lchild, rchild, p, P, temp, tt, lchild', rchild')
    BY <1>4, <1>5, <1>6, <2>4, <2>5, <2>6 DEF Relinked
  <2>8. lchild' \in [Values(BSTData) -> Values(BSTData) \cup {0}] /\ rchild' \in [Values(BSTData) -> Values(BSTData) \cup {0}]
    BY <1>4, <1>5, <1>6, <2>4, <2>5, <2>6
  <2>9. P = par[p] /\ P # 0 /\ p \in alive
    BY <1>0, <1>1, <1>4
  <2>10. \E lo2, hi2, par2 : SearchTree(BSTData, Root, lchild', rchild', alive \ {p}, lo2, hi2, par2)
    <3>1. SearchTree(BSTData, Root, lchild, rchild, alive, lo, hi, par)
      OBVIOUS
    <3> QED BY ONLY <1>8, <2>1, <2>2, <2>7, <2>8, <2>9, <3>1, TreeAssumption, ShrinksLast
  <2> QED BY <1>4, <2>10
<1> QED BY <1>7, <1>8

\* A node that is there is pushed at the end.
LEMMA PushedIs ==
    ASSUME NEW s \in Seq(Values(BSTData)), NEW c \in Values(BSTData) \cup {0}
    PROVE  /\ BST!Pushed(s, c) \in Seq(Values(BSTData))
           /\ c = 0 => BST!Pushed(s, c) = s
           /\ c # 0 => /\ Len(BST!Pushed(s, c)) = Len(s) + 1 /\ BST!Pushed(s, c)[Len(s) + 1] = c
                       /\ \A i \in 1 .. Len(s) : BST!Pushed(s, c)[i] = s[i]
<1>1. 0 \notin Values(BSTData)
  BY TreeAssumption DEF Values
<1> QED BY <1>1, AppendProperties DEF BST!Pushed

\* ~BinarySearchTree(): the root is queued.
LEMMA DestroyKeeps == TreeInv /\ BST!Destroy => TreeInv'
<1> SUFFICES ASSUME TreeInv, BST!Destroy PROVE TreeInv'
  OBVIOUS
<1>1. PICK lo, hi, par : SearchTree(BSTData, Root, lchild, rchild, alive, lo, hi, par)
  BY DEF TreeInv, BST!Destroy
<1>2. /\ q = <<>> /\ Root' = Root /\ lchild' = lchild /\ rchild' = rchild /\ alive' = alive
      /\ IF Root = 0 THEN pc' = "done" /\ q' = q ELSE pc' = "destroying" /\ q' = <<Root>>
  BY DEF TreeInv, BST!Destroy
<1>3. CASE Root = 0
  BY <1>1, <1>2, <1>3 DEF TreeInv, SearchTree
<1>4. CASE Root # 0
  <2>1. Root \in alive /\ Root \in Values(BSTData) /\ par[Root] = 0 /\ alive \subseteq Values(BSTData)
    BY <1>1, <1>4 DEF SearchTree
  <2>2. 0 \notin alive
    BY <2>1, TreeAssumption DEF Values
  <2>3. \A x \in alive : par[x] \in alive \/ x = Root
    BY <1>1, NodeOfTree
  <2>4. q' \in Seq(Values(BSTData)) /\ Len(q') = 1 /\ q'[1] = Root
    <3>1. q' = <<Root>>
      BY <1>2, <1>4
    <3> QED BY ONLY <2>1, <3>1
  <2>5. Queued(alive, par)'
    BY <1>2, <2>1, <2>2, <2>3, <2>4 DEF Queued
  <2> QED BY <1>1, <1>2, <1>4, <2>5 DEF TreeInv
<1> QED BY <1>3, <1>4

\* One round: the node is deleted, its children wait.
LEMMA RoundKeeps ==
    ASSUME NEW A, NEW lo, NEW hi, NEW par,
           SearchTree(BSTData, Root, lchild, rchild, A, lo, hi, par),
           Queued(A, par), BST!DestroyStep
    PROVE  Queued(A, par)'
<1>1. PICK p, s, l, r, a, z : /\ p = Head(q) /\ s = Tail(q) /\ l = lchild[p] /\ r = rchild[p]
                              /\ a = BST!Pushed(s, l) /\ z = BST!Pushed(a, r)
  OBVIOUS
<1>2. q' = z /\ alive' = alive \ {p} /\ q # <<>>
  BY <1>1 DEF BST!DestroyStep
<1>3. /\ q \in Seq(Values(BSTData)) /\ alive \subseteq A /\ A \subseteq Values(BSTData)
      /\ \A i, j \in 1 .. Len(q) : i # j => q[i] # q[j]
      /\ \A i \in 1 .. Len(q) : q[i] \in alive /\ par[q[i]] \notin alive
      /\ \A x \in alive : par[x] \in alive \/ \E i \in 1 .. Len(q) : q[i] = x
      /\ \A x \in A : par[x] \in alive => x \in alive
  BY DEF Queued, SearchTree
<1>4. /\ p = q[1] /\ s \in Seq(Values(BSTData)) /\ Len(s) = Len(q) - 1 /\ Len(s) \in Nat /\ 1 \in 1 .. Len(q)
      /\ \A i \in 1 .. Len(s) : s[i] = q[i + 1]
  BY <1>1, <1>2, <1>3, HeadTailProperties, EmptySeq
<1>5. /\ p \in alive /\ p \in A /\ par[p] \notin alive
      /\ \A i \in 1 .. Len(s) : s[i] \in alive /\ s[i] # p /\ par[s[i]] \notin alive
      /\ \A i, j \in 1 .. Len(s) : i # j => s[i] # s[j]
  <2>1. \A i \in 1 .. Len(s) : i + 1 \in 1 .. Len(q) /\ i + 1 # 1
    BY <1>4
  <2> QED BY <1>3, <1>4, <2>1
<1>6. /\ l \in Values(BSTData) \cup {0} /\ r \in Values(BSTData) \cup {0}
      /\ l # 0 => l \in A /\ par[l] = p /\ l \in alive
      /\ r # 0 => r \in A /\ par[r] = p /\ r \in alive
      /\ l # 0 => l # r /\ l # p
      /\ r # 0 => r # p
      /\ \A x \in A : par[x] = p => x = l \/ x = r
      /\ 0 \notin A
  <2>1. /\ l \in Values(BSTData) \cup {0} /\ r \in Values(BSTData) \cup {0}
        /\ l # 0 => l \in A /\ par[l] = p /\ hi[l] = p
        /\ r # 0 => r \in A /\ par[r] = p /\ lo[r] = p
    BY <1>1, <1>5, NodeOfTree
  <2>2. /\ l # 0 => l < p /\ l \in Int
        /\ r # 0 => p < r /\ r \in Int
    BY <2>1, TreeAssumption, NodeOfTree DEF Values
  <2>3. p \in Int
    BY <1>3, <1>5, TreeAssumption DEF Values
  <2>4. 0 \notin A
    BY <1>3, TreeAssumption DEF Values
  <2>5. \A x \in A : par[x] = p => x = l \/ x = r
    BY <1>1, <1>5, <2>4, NodeOfTree
  <2> QED BY <1>3, <1>5, <2>1, <2>2, <2>3, <2>4, <2>5
<1>7. /\ a \in Seq(Values(BSTData))
      /\ l = 0 => a = s
      /\ l # 0 => /\ Len(a) = Len(s) + 1 /\ a[Len(s) + 1] = l
                  /\ \A i \in 1 .. Len(s) : a[i] = s[i]
  BY <1>1, <1>4, <1>6, PushedIs
<1>8. /\ z \in Seq(Values(BSTData))
      /\ r = 0 => z = a
      /\ r # 0 => /\ Len(z) = Len(a) + 1 /\ z[Len(a) + 1] = r
                  /\ \A i \in 1 .. Len(a) : z[i] = a[i]
  <2>1. a \in Seq(Values(BSTData)) /\ r \in Values(BSTData) \cup {0} /\ z = BST!Pushed(a, r)
    BY <1>1, <1>6, <1>7
  <2> QED BY ONLY <2>1, PushedIs
<1>9. /\ Len(a) \in Nat
      /\ \A i \in 1 .. Len(a) : a[i] \in alive /\ a[i] # p /\ par[a[i]] \notin alive \ {p} /\ a[i] # r
      /\ \A i, j \in 1 .. Len(a) : i # j => a[i] # a[j]
      /\ \A i \in 1 .. Len(s) : \E k \in 1 .. Len(a) : a[k] = s[i]
      /\ l # 0 => \E k \in 1 .. Len(a) : a[k] = l
  <2>1. \A i \in 1 .. Len(s) : s[i] # l /\ s[i] # r
    BY <1>3, <1>5, <1>6
  <2>2. CASE l = 0
    <3>1. a = s
      BY <1>7, <2>2
    <3> QED BY <1>4, <1>5, <2>1, <2>2, <3>1
  <2>3. CASE l # 0
    <3>1. /\ Len(a) = Len(s) + 1 /\ a[Len(s) + 1] = l
          /\ \A i \in 1 .. Len(s) : a[i] = s[i]
      BY <1>7, <2>3
    <3>2. \A i \in 1 .. Len(a) : i \in 1 .. Len(s) \/ i = Len(s) + 1
      BY <1>4, <3>1
    <3>3. Len(a) \in Nat /\ Len(s) + 1 \in 1 .. Len(a) /\ \A i \in 1 .. Len(s) : i \in 1 .. Len(a)
      BY <1>4, <3>1
    <3>4. l \in alive /\ l # p /\ par[l] \notin alive \ {p} /\ l # r
      BY <1>6, <2>3
    <3>5. \A i \in 1 .. Len(a) : a[i] \in alive /\ a[i] # p /\ par[a[i]] \notin alive \ {p} /\ a[i] # r
      BY <1>5, <2>1, <3>1, <3>2, <3>4
    <3>6. \A i, j \in 1 .. Len(a) : i # j => a[i] # a[j]
      BY <1>5, <2>1, <3>1, <3>2
    <3> QED BY <3>1, <3>3, <3>5, <3>6
  <2> QED BY <2>2, <2>3
<1>10. /\ \A i \in 1 .. Len(z) : z[i] \in alive /\ z[i] # p /\ par[z[i]] \notin alive \ {p}
       /\ \A i, j \in 1 .. Len(z) : i # j => z[i] # z[j]
       /\ \A i \in 1 .. Len(a) : \E k \in 1 .. Len(z) : z[k] = a[i]
       /\ r # 0 => \E k \in 1 .. Len(z) : z[k] = r
  <2>1. CASE r = 0
    <3>1. z = a
      BY <1>8, <2>1
    <3> QED BY <1>9, <2>1, <3>1
  <2>2. CASE r # 0
    <3>1. /\ Len(z) = Len(a) + 1 /\ z[Len(a) + 1] = r
          /\ \A i \in 1 .. Len(a) : z[i] = a[i]
      BY <1>8, <2>2
    <3>2. \A i \in 1 .. Len(z) : i \in 1 .. Len(a) \/ i = Len(a) + 1
      BY <1>9, <3>1
    <3>3. Len(a) + 1 \in 1 .. Len(z) /\ \A i \in 1 .. Len(a) : i \in 1 .. Len(z)
      BY <1>9, <3>1
    <3>4. r \in alive /\ r # p /\ par[r] \notin alive \ {p}
      BY <1>6, <2>2
    <3>5. \A i \in 1 .. Len(z) : z[i] \in alive /\ z[i] # p /\ par[z[i]] \notin alive \ {p}
      BY <1>9, <3>1, <3>2, <3>4
    <3>6. \A i, j \in 1 .. Len(z) : i # j => z[i] # z[j]
      BY <1>9, <3>1, <3>2
    <3> QED BY <3>1, <3>3, <3>5, <3>6
  <2> QED BY <2>1, <2>2
<1>11. ASSUME NEW x \in alive \ {p}
       PROVE  par[x] \in alive \ {p} \/ \E k \in 1 .. Len(z) : z[k] = x
  <2>1. CASE par[x] = p
    <3>1. x # 0 /\ (x = l \/ x = r)
      BY <1>3, <1>6, <2>1
    <3> QED BY <1>9, <1>10, <3>1
  <2>2. CASE par[x] \notin alive
    <3>1. PICK i \in 1 .. Len(q) : q[i] = x
      BY <1>3, <2>2
    <3>2. i # 1
      BY <1>4, <3>1
    <3>3. i - 1 \in 1 .. Len(s) /\ s[i - 1] = x
      <4>1. i - 1 \in 1 .. Len(s) /\ (i - 1) + 1 = i
        BY <1>4, <3>2
      <4> QED BY <1>4, <3>1, <4>1
    <3>4. PICK k \in 1 .. Len(a) : a[k] = x
      BY <1>9, <3>3
    <3> QED BY <1>10, <3>4
  <2> QED BY <2>1, <2>2
<1>12. \A x \in A : par[x] \in alive \ {p} => x \in alive \ {p}
  BY <1>3, <1>5
<1>13. alive \ {p} \subseteq A
  BY <1>3
<1> QED BY <1>2, <1>8, <1>10, <1>11, <1>12, <1>13 DEF Queued

\* When nothing waits, nothing is left: the node with the widest range would be below
\* another one.
LEMMA NoneLeft ==
    ASSUME NEW A, NEW lo, NEW hi, NEW par,
           SearchTree(BSTData, Root, lchild, rchild, A, lo, hi, par),
           Queued(A, par), q = <<>>
    PROVE  alive = {}
<1> DEFINE T == {BSTData + 2 - (hi[x] - lo[x]) : x \in alive}
<1>1. ASSUME NEW x \in A
      PROVE  /\ lo[x] \in Int /\ hi[x] \in Int /\ x \in Int
             /\ 0 <= lo[x] /\ lo[x] < x /\ x < hi[x] /\ hi[x] <= BSTData + 1
             /\ par[x] \in A => \/ lo[x] = lo[par[x]] /\ hi[x] = par[x]
                                \/ lo[x] = par[x] /\ hi[x] = hi[par[x]]
  <2>1. x \in Values(BSTData) /\ x # 0 /\ 0 \notin A
    BY TreeAssumption DEF SearchTree, Values
  <2>2. /\ lo[x] \in Int /\ hi[x] \in Int /\ x \in Int
        /\ 0 <= lo[x] /\ lo[x] < x /\ x < hi[x] /\ hi[x] <= BSTData + 1
    BY <2>1, TreeAssumption, NodeOfTree DEF Values
  <2>3. par[x] \in A => \/ lo[x] = lo[par[x]] /\ hi[x] = par[x]
                        \/ lo[x] = par[x] /\ hi[x] = hi[par[x]]
    <3>1. par[x] \in A => par[x] # 0
      BY <2>1
    <3> QED BY <3>1, TreeAssumption, BelowParent
  <2> QED BY <2>2, <2>3
<1>2. alive \subseteq A /\ \A x \in alive : par[x] \in alive
  <2>1. Len(q) = 0
    OBVIOUS
  <2> QED BY <2>1 DEF Queued
<1> SUFFICES ASSUME alive # {} PROVE FALSE
  OBVIOUS
<1>3. PICK m \in T : \A y \in T : m <= y
  <2>1. \A x \in alive : BSTData + 2 - (hi[x] - lo[x]) \in Nat
    BY <1>1, <1>2, TreeAssumption
  <2>2. T \in SUBSET Nat /\ T # {}
    BY <2>1
  <2> HIDE DEF T
  <2> QED BY <2>2, Least
<1>4. PICK x \in alive : m = BSTData + 2 - (hi[x] - lo[x])
  OBVIOUS
<1>5. par[x] \in alive
  BY <1>2
<1>6. m <= BSTData + 2 - (hi[par[x]] - lo[par[x]])
  <2>1. BSTData + 2 - (hi[par[x]] - lo[par[x]]) \in T
    BY <1>5
  <2> HIDE DEF T
  <2> QED BY <1>3, <2>1
<1>7. /\ lo[par[x]] \in Int /\ hi[par[x]] \in Int /\ par[x] \in Int
      /\ lo[par[x]] < par[x] /\ par[x] < hi[par[x]]
  BY <1>1, <1>2, <1>5
<1>8. /\ lo[x] \in Int /\ hi[x] \in Int
      /\ \/ lo[x] = lo[par[x]] /\ hi[x] = par[x]
         \/ lo[x] = par[x] /\ hi[x] = hi[par[x]]
  BY <1>1, <1>2, <1>5
<1> HIDE DEF T
<1> QED BY ONLY <1>4, <1>6, <1>7, <1>8, TreeAssumption

\* Every call and every round of the destructor keeps the invariant.
LEMMA TreeSteps == TreeInv /\ BST!Next => TreeInv'
<1> SUFFICES ASSUME TreeInv, BST!Next PROVE TreeInv'
  OBVIOUS
<1>1. ASSUME NEW d \in Values(BSTData), BST!InsertNode(d) \/ BST!DeleteNode(d) PROVE TreeInv'
  <2>1. pc = "running" /\ pc' = pc /\ q' = q
    BY <1>1 DEF BST!InsertNode, BST!DeleteNode
  <2>2. PICK lo, hi, par : SearchTree(BSTData, Root, lchild, rchild, alive, lo, hi, par)
    BY <2>1 DEF TreeInv
  <2>3. \E lo2, hi2, par2 : SearchTree(BSTData, Root', lchild', rchild', alive', lo2, hi2, par2)
    BY <1>1, <2>2, InsertKeeps, DeleteKeeps
  <2> QED BY <2>1, <2>3 DEF TreeInv
<1>2. ASSUME NEW d \in Values(BSTData), BST!DeleteRoot(d) PROVE TreeInv'
  BY <1>2 DEF BST!DeleteRoot, TreeInv
<1>3. ASSUME BST!Destroy PROVE TreeInv'
  BY <1>3, DestroyKeeps
<1>4. ASSUME BST!DestroyStep PROVE TreeInv'
  <2>1. /\ pc = "destroying" /\ pc' = pc
        /\ Root' = Root /\ lchild' = lchild /\ rchild' = rchild
    BY <1>4 DEF BST!DestroyStep
  <2>2. PICK A, lo, hi, par : SearchTree(BSTData, Root, lchild, rchild, A, lo, hi, par) /\ Queued(A, par)
    BY <2>1 DEF TreeInv
  <2>3. Queued(A, par)'
    BY <1>4, <2>2, RoundKeeps
  <2> QED BY <2>1, <2>2, <2>3 DEF TreeInv
<1>5. ASSUME BST!DestroyEnd PROVE TreeInv'
  <2>1. pc = "destroying" /\ q = <<>> /\ pc' = "done" /\ q' = q /\ alive' = alive
    BY <1>5 DEF BST!DestroyEnd
  <2>2. PICK A, lo, hi, par : SearchTree(BSTData, Root, lchild, rchild, A, lo, hi, par) /\ Queued(A, par)
    BY <2>1 DEF TreeInv
  <2>3. alive = {}
    BY <2>1, <2>2, NoneLeft
  <2> QED BY <2>1, <2>3 DEF TreeInv
<1>6. ASSUME BST!Terminated PROVE TreeInv'
  BY <1>6 DEF BST!Terminated, BST!vars, TreeInv, Queued
<1> QED BY <1>1, <1>2, <1>3, <1>4, <1>5, <1>6 DEF BST!Next, Values

\* It implies the property of the plain search tree.
LEMMA TreeIsSound == TreeInv => BST!DestroysAllOnce
<1> SUFFICES ASSUME TreeInv PROVE BST!DestroysAllOnce
  OBVIOUS
<1>1. pc = "destroying" => \E A, par : Queued(A, par)
  BY DEF TreeInv
<1>2. pc # "destroying" => q = <<>>
  BY DEF TreeInv
<1>3. CASE pc = "destroying"
  <2>1. PICK A, par : Queued(A, par)
    BY <1>1, <1>3
  <2>2. DOMAIN q = 1 .. Len(q)
    BY <2>1 DEF Queued
  <2> QED BY <1>3, <2>1, <2>2 DEF Queued, BST!DestroysAllOnce
<1>4. CASE pc # "destroying"
  <2>1. DOMAIN q = {}
    BY <1>2, <1>4
  <2> QED BY <1>4, <2>1 DEF TreeInv, BST!DestroysAllOnce
<1> QED BY <1>3, <1>4

\* Every step of the suite keeps it.
LEMMA TreeInvNext == TreeInv /\ [Next]_allVars => TreeInv'
<1> SUFFICES ASSUME TreeInv, [Next]_allVars PROVE TreeInv'
  OBVIOUS
<1>1. CASE BST!Next
  BY <1>1, TreeSteps
<1>2. CASE UNCHANGED bstVars
  BY <1>2 DEF bstVars, TreeInv, Queued
<1>3. BST!Next \/ UNCHANGED bstVars
  BY DEF Next, Only, allVars
<1> QED BY <1>1, <1>2, <1>3

\* The destructor of the plain search tree frees every node once and reads none that it has
\* freed, whatever was inserted and deleted before.
THEOREM DestroysAllOnceHolds == Spec => []DestroysAllOnce
<1>1. Init => TreeInv
  BY TreeInits DEF Init
<1>2. TreeInv => DestroysAllOnce
  BY TreeIsSound DEF DestroysAllOnce
<1> QED BY <1>1, <1>2, TreeInvNext, PTL DEF Spec

\* search() of the plain search tree finds the values that were inserted and not deleted and
\* no others, until the tree is destroyed.
SearchExact == pc = "running" => \A d \in Values(BSTData) : BST!search(d) <=> d \in alive
THEOREM SearchIsExact == Spec => []SearchExact
<1>1. Init => TreeInv
  BY TreeInits DEF Init
<1>2. TreeInv => SearchExact
  BY SearchFinds DEF TreeInv, SearchExact
<1> QED BY <1>1, <1>2, TreeInvNext, PTL DEF Spec

-----------------------------------------------------------------------------
(* All programs. *)

\* The invariant of the program in use.
ContainersInv ==
    /\ which = "queue" => QueueInv
    /\ which = "vector" => VectorInv
    /\ which = "lru" => LruInv
    /\ which = "bitMap" => BitsInv
    /\ which = "dsu" => DsuInv
    /\ which = "median" => MedianInv
    /\ which = "pieces" => PieceInv
OwnershipInv ==
    /\ which = "memPool" => PoolInv
    /\ which = "smart" => SmartInv
    /\ which = "weak" => WeakInv
    /\ which = "String" => StrInv
    /\ which = "my_string" => MyStrInv
    /\ which = "input" => InputInv

\* A behaviour starts in the program it picks, a step is one of that program, and the
\* other variables of the containers and owners only change with it.
LEMMA StartsInOne ==
    ASSUME Init
    PROVE  /\ which = "queue" => Con!QueueInit
           /\ which = "vector" => Con!VectorInit
           /\ which = "lru" => Con!LruInit
           /\ which = "bitMap" => Con!BitsInit
           /\ which = "dsu" => Con!DsuInit
           /\ which = "median" => Con!MedianInit
           /\ which = "pieces" => Own!PieceInit
           /\ which = "memPool" => Own!PoolInit
           /\ which = "smart" => Own!SmartInit
           /\ which = "weak" => Own!WeakInit
           /\ which = "String" => Strings!StrInit
           /\ which = "my_string" => Strings!MyStrInit
           /\ which = "input" => Own!InputInit
BY DEF Init
LEMMA StepsInOne ==
    ASSUME Next
    PROVE  /\ which' = which
           /\ which = "queue" => Con!QueueNext
           /\ which = "vector" => Con!VectorNext
           /\ which = "lru" => Con!LruNext
           /\ which = "bitMap" => Con!BitsNext
           /\ which = "dsu" => Con!DsuNext
           /\ which = "median" => Con!MedianNext
           /\ which = "pieces" => Own!PieceNext
           /\ which = "memPool" => Own!PoolNext
           /\ which = "smart" => Own!SmartNext
           /\ which = "weak" => Own!WeakNext
           /\ which = "String" => Strings!StrNext
           /\ which = "my_string" => Strings!MyStrNext
           /\ which = "input" => Own!InputNext
BY DEF Next, Only

\* The sizes, as the lemmas ask for them.
LEMMA ConstantsAre ==
    /\ LruCap \in Nat \ {0} /\ DsuSize \in Nat /\ MedianNums \subseteq Int
    /\ NumofObjects \in Nat \ {0} /\ MaxBlocks \in Nat \ {0} /\ IsFiniteSet(Objects)
    /\ ShortMax \in Nat /\ Batch \in Nat /\ STRING_INIT_SIZE \in Nat \ {0}
BY SequentialAssumption, MemoryAssumption

\* The ring queue, the growing array, the LRU cache, the bit map, union-find, the running
\* median and the board with shared pieces hold and return, after any sequence of calls,
\* what the structure they stand for does.
THEOREM ContainersSoundHolds == Spec => []ContainersSound
<1>1. Init => ContainersInv
  <2> SUFFICES ASSUME Init PROVE ContainersInv
    OBVIOUS
  <2>1. which = "queue" => QueueInv
    BY StartsInOne, ConstantsAre, QueueInits
  <2>2. which = "vector" => VectorInv
    BY StartsInOne, ConstantsAre, VectorInits
  <2>3. which = "lru" => LruInv
    BY StartsInOne, ConstantsAre, LruInits
  <2>4. which = "bitMap" => BitsInv
    BY StartsInOne, ConstantsAre, BitsInits
  <2>5. which = "dsu" => DsuInv
    BY StartsInOne, ConstantsAre, DsuInits
  <2>6. which = "median" => MedianInv
    BY StartsInOne, ConstantsAre, MedianInits
  <2>7. which = "pieces" => PieceInv
    BY StartsInOne, ConstantsAre, PieceInits
  <2> QED BY <2>1, <2>2, <2>3, <2>4, <2>5, <2>6, <2>7 DEF ContainersInv
<1>2. ContainersInv /\ [Next]_allVars => ContainersInv'
  <2>1. ASSUME ContainersInv, Next PROVE ContainersInv'
    <3>1. which = "queue" => QueueInv'
      BY <2>1, StepsInOne, ConstantsAre, QueueSteps DEF ContainersInv
    <3>2. which = "vector" => VectorInv'
      BY <2>1, StepsInOne, ConstantsAre, VectorSteps DEF ContainersInv
    <3>3. which = "lru" => LruInv'
      BY <2>1, StepsInOne, ConstantsAre, LruSteps DEF ContainersInv
    <3>4. which = "bitMap" => BitsInv'
      BY <2>1, StepsInOne, ConstantsAre, BitsSteps DEF ContainersInv
    <3>5. which = "dsu" => DsuInv'
      BY <2>1, StepsInOne, ConstantsAre, DsuSteps DEF ContainersInv
    <3>6. which = "median" => MedianInv'
      BY <2>1, StepsInOne, ConstantsAre, MedianSteps DEF ContainersInv
    <3>7. which = "pieces" => PieceInv'
      BY <2>1, StepsInOne, ConstantsAre, PieceSteps DEF ContainersInv
    <3>8. which' = which
      BY <2>1, StepsInOne
    <3> QED BY <3>1, <3>2, <3>3, <3>4, <3>5, <3>6, <3>7, <3>8 DEF ContainersInv
  <2>2. ASSUME ContainersInv, UNCHANGED allVars PROVE ContainersInv'
    <3>0. which' = which /\ obj' = obj /\ held' = held /\ ret' = ret
      BY <2>2 DEF allVars, oneVars
    <3>1. QueueInv => QueueInv'
      BY <3>0 DEF QueueInv
    <3>2. VectorInv => VectorInv'
      BY <3>0 DEF VectorInv, Con!VectorSound
    <3>3. LruInv => LruInv'
      BY <3>0 DEF LruInv
    <3>4. BitsInv => BitsInv'
      BY <3>0 DEF BitsInv
    <3>5. DsuInv => DsuInv'
      BY <3>0 DEF DsuInv
    <3>6. MedianInv => MedianInv'
      BY <3>0 DEF MedianInv
    <3>7. PieceInv => PieceInv'
      BY <3>0 DEF PieceInv, Own!Vec
    <3> QED BY <2>2, <3>0, <3>1, <3>2, <3>3, <3>4, <3>5, <3>6, <3>7 DEF ContainersInv
  <2> QED BY <2>1, <2>2
<1>3. ContainersInv => ContainersSound
  <2> SUFFICES ASSUME ContainersInv PROVE ContainersSound
    OBVIOUS
  <2>1. which = "queue" => Con!QueueSound
    BY ConstantsAre, QueueIsSound DEF ContainersInv
  <2>2. which = "vector" => Con!VectorSound
    BY DEF ContainersInv, VectorInv
  <2>3. which = "lru" => Con!LruSound
    BY ConstantsAre, LruIsSound DEF ContainersInv
  <2>4. which = "bitMap" => Con!BitsSound
    BY ConstantsAre, BitsIsSound DEF ContainersInv
  <2>5. which = "dsu" => Con!DsuSound
    BY ConstantsAre, DsuIsSound DEF ContainersInv
  <2>6. which = "median" => Con!MedianSound
    BY ConstantsAre, MedianIsSound DEF ContainersInv
  <2>7. which = "pieces" => Own!PieceSound
    BY ConstantsAre, PieceIsSound DEF ContainersInv
  <2> QED BY <2>1, <2>2, <2>3, <2>4, <2>5, <2>6, <2>7 DEF ContainersSound
<1> QED BY <1>1, <1>2, <1>3, PTL DEF Spec

\* Pools, counting pointers, shared and weak pointers, both string classes and the event
\* reader: no node, object or buffer in use is given back, and none twice, as long as no
\* basic_string is left with a buffer that its copy has released; a string of either class
\* reads back as its text, whatever its length.
THEOREM OwnershipSoundHolds == Spec => []OwnershipSound
<1>1. Init => OwnershipInv
  <2> SUFFICES ASSUME Init PROVE OwnershipInv
    OBVIOUS
  <2>1. which = "memPool" => PoolInv
    BY StartsInOne, ConstantsAre, PoolInits
  <2>2. which = "smart" => SmartInv
    BY StartsInOne, ConstantsAre, SmartInits
  <2>3. which = "weak" => WeakInv
    BY StartsInOne, ConstantsAre, WeakInits
  <2>4. which = "String" => StrInv
    BY StartsInOne, ConstantsAre, StrInits
  <2>5. which = "my_string" => MyStrInv
    BY StartsInOne, ConstantsAre, MyStrInits
  <2>6. which = "input" => InputInv
    BY StartsInOne, ConstantsAre, InputInits
  <2> QED BY <2>1, <2>2, <2>3, <2>4, <2>5, <2>6 DEF OwnershipInv
<1>2. OwnershipInv /\ [Next]_allVars => OwnershipInv'
  <2>1. ASSUME OwnershipInv, Next PROVE OwnershipInv'
    <3>1. which = "memPool" => PoolInv'
      BY <2>1, StepsInOne, ConstantsAre, PoolSteps DEF OwnershipInv
    <3>2. which = "smart" => SmartInv'
      BY <2>1, StepsInOne, ConstantsAre, SmartSteps DEF OwnershipInv
    <3>3. which = "weak" => WeakInv'
      BY <2>1, StepsInOne, ConstantsAre, WeakSteps DEF OwnershipInv
    <3>4. which = "String" => StrInv'
      BY <2>1, StepsInOne, ConstantsAre, StrSteps DEF OwnershipInv
    <3>5. which = "my_string" => MyStrInv'
      BY <2>1, StepsInOne, ConstantsAre, MyStrSteps DEF OwnershipInv
    <3>6. which = "input" => InputInv'
      BY <2>1, StepsInOne, ConstantsAre, InputSteps DEF OwnershipInv
    <3>7. which' = which
      BY <2>1, StepsInOne
    <3> QED BY <3>1, <3>2, <3>3, <3>4, <3>5, <3>6, <3>7 DEF OwnershipInv
  <2>2. ASSUME OwnershipInv, UNCHANGED allVars PROVE OwnershipInv'
    <3>0. which' = which /\ obj' = obj /\ held' = held /\ ret' = ret
      BY <2>2 DEF allVars, oneVars
    <3>1. PoolInv => PoolInv'
      BY <3>0 DEF PoolInv
    <3>2. SmartInv => SmartInv'
      BY <3>0 DEF SmartInv
    <3>3. WeakInv => WeakInv'
      BY <3>0 DEF WeakInv
    <3>4. StrInv => StrInv'
      BY <3>0 DEF StrInv
    <3>5. MyStrInv => MyStrInv'
      BY <3>0 DEF MyStrInv
    <3>6. InputInv => InputInv'
      BY <3>0 DEF InputInv
    <3> QED BY <2>2, <3>0, <3>1, <3>2, <3>3, <3>4, <3>5, <3>6 DEF OwnershipInv
  <2> QED BY <2>1, <2>2
<1>3. OwnershipInv => OwnershipSound
  <2> SUFFICES ASSUME OwnershipInv PROVE OwnershipSound
    OBVIOUS
  <2>1. which = "memPool" => Own!PoolSound
    BY ConstantsAre, PoolIsSound DEF OwnershipInv
  <2>2. which = "smart" => Own!SmartSound
    BY ConstantsAre, SmartIsSound DEF OwnershipInv
  <2>3. which = "weak" => Own!WeakSound
    BY ConstantsAre, WeakIsSound DEF OwnershipInv
  <2>4. which = "String" => Strings!StrSound
    BY ConstantsAre, StrIsSound DEF OwnershipInv
  <2>5. which = "my_string" => Strings!MyStrSound
    BY ConstantsAre, MyStrIsSound DEF OwnershipInv
  <2>6. which = "input" => Own!InputSound
    BY ConstantsAre, InputIsSound DEF OwnershipInv
  <2> QED BY <2>1, <2>2, <2>3, <2>4, <2>5, <2>6 DEF OwnershipSound
<1> QED BY <1>1, <1>2, <1>3, PTL DEF Spec
=============================================================================
