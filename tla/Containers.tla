------------------------------ MODULE Containers ----------------------------
(***************************************************************************)
(* Containers over arrays, lists and heaps.  Each section is one program;  *)
(* the variables are those of the program in use.                          *)
(***************************************************************************)
EXTENDS Integers, Sequences, FiniteSets, SequencesExt

CONSTANTS QueueSize, QueueItems   \* m_size; the elements pushed
CONSTANTS VectorMax, VectorItems   \* bound on the size; the elements stored
CONSTANTS LruCap, LruKeys, LruValues
CONSTANTS MedianNums, MedianMax   \* the numbers; bound on how many are added
CONSTANTS charSize, BitIndices, BitBytes   \* bytes; indices and byte values used
CONSTANT DsuSize      \* elements of the union-find

VARIABLES obj, held, ret

-----------------------------------------------------------------------------
\* The ring buffer of src/cpp/stl/queue.cpp.  One slot always stays free, so
\* that a full queue differs from an empty one.
\*   obj: [m_front, m_rear, m_data]
\*   held: what a queue that was never wrapped would hold
\*   ret: the result of the last call, beside the one held calls for

QueueUnset == 0        \* a slot of m_data that was never written; not an element
Threw == -1       \* bad_exception

QueueInit ==
    /\ obj = [m_front |-> 0, m_rear |-> 0, m_data |-> [i \in 0 .. QueueSize - 1 |-> QueueUnset]]
    /\ held = <<>>
    /\ ret = <<QueueUnset, QueueUnset>>

Wrapped(i) == i % QueueSize
isEmpty(q) == q.m_front = q.m_rear
isFull_NoWrap(q) == q.m_front = q.m_rear + 1
isFull(q) == q.m_front = Wrapped(q.m_rear + 1)

push(ele) ==
    IF isFull(obj)
    THEN /\ ret' = <<Threw, IF Len(held) = QueueSize - 1 THEN Threw ELSE QueueUnset>>
         /\ UNCHANGED <<obj, held>>
    ELSE /\ obj' = [obj EXCEPT !.m_data[obj.m_rear] = ele,
                               !.m_rear = Wrapped(@ + 1)]
         /\ held' = Append(held, ele)
         /\ ret' = <<QueueUnset, QueueUnset>>

pop ==
    IF isEmpty(obj)
    THEN /\ ret' = <<Threw, IF held = <<>> THEN Threw ELSE Head(held)>>
         /\ UNCHANGED <<obj, held>>
    ELSE /\ obj' = [obj EXCEPT !.m_front = Wrapped(@ + 1)]
         /\ ret' = <<obj.m_data[obj.m_front], Head(held)>>
         /\ held' = Tail(held)

QueueNext == pop \/ \E ele \in QueueItems : push(ele)

\* The ring read from m_front to m_rear is the queue, and every call of push() and pop()
\* returned what the queue says.
QueueSound ==
    /\ [k \in 1 .. Wrapped(obj.m_rear + QueueSize - obj.m_front) |->
            obj.m_data[Wrapped(obj.m_front + k - 1)]] = held
    /\ ret[1] = ret[2]

-----------------------------------------------------------------------------
\* The growing array of src/cpp/stl/vector.cpp.  _end is kept as an index;
\* an access outside the block _data points to is a TLC error.
\*   obj: [_size, _capacity, _end, _data]
\*   held: the sequence of elements

VectorUnset == 0        \* an element of a fresh block
Block(n, f(_)) == [i \in 0 .. n - 1 |-> f(i)]

\* Vector(n, value); with n = 0 the first push_back() would write past an empty block.
VectorInit ==
    \E n \in 1 .. 2, value \in VectorItems :
       /\ obj = [_size |-> n, _capacity |-> n, _end |-> n - 1,
                 _data |-> Block(n, LAMBDA i : value)]
       /\ held = [i \in 1 .. n |-> value]
       /\ ret = <<>>

reMall_KeepsOld(v) ==
    IF v._capacity = v._size THEN [v EXCEPT !._capacity = 2 * v._size] ELSE v
reMall(v) ==
    IF v._capacity = v._size
    THEN [v EXCEPT !._data = Block(2 * v._size,
                                LAMBDA i : IF i < v._size THEN v._data[i] ELSE VectorUnset),
                   !._end = v._size - 1,
                   !._capacity = 2 * v._size]
    ELSE v

push_back(t) ==
    /\ obj._size < VectorMax
    /\ obj' = LET v == reMall(obj)
              IN  [v EXCEPT !._end = @ + 1, !._data[v._end + 1] = t, !._size = @ + 1]
    /\ held' = Append(held, t)
    /\ UNCHANGED ret

\* operator[] hands out a reference to the element.
Assign(index, t) ==
    /\ index < obj._size
    /\ obj' = [obj EXCEPT !._data[index] = t]
    /\ held' = [i \in 1 .. Len(held) |-> IF i = index + 1 THEN t ELSE held[i]]
    /\ UNCHANGED ret

VectorNext == \E t \in VectorItems :
           push_back(t) \/ \E index \in 0 .. VectorMax - 1 : Assign(index, t)

\* Growing moves every element, _end stays on the last one and inside the block, and
\* the size never passes the capacity.
VectorSound ==
    /\ obj._size = Len(held) /\ obj._end = obj._size - 1
    /\ obj._size <= obj._capacity /\ DOMAIN obj._data = 0 .. obj._capacity - 1
    /\ \A i \in 1 .. Len(held) : obj._data[i - 1] = held[i]

-----------------------------------------------------------------------------
\* The cache of src/cpp/linux/LRU.cpp: a list of nodes in order of use and a
\* map from a key to its node.  LRU_template.cpp and the leetcode solution
\* have the same bodies, the last one looks up list.back() before it is
\* popped.  A node is identified by its address.
\*   obj: [list, m, count]: nodes <<addr, key, value>>, key -> addr
\*   held: every key ever put with its value, the last used one first
\*   ret: the value the last get() found, beside the one it should find

Null == 0         \* m.end()

LruInit ==
    /\ obj = [list |-> <<>>, m |-> [k \in LruKeys |-> Null], count |-> 0]
    /\ held = <<>>
    /\ ret = <<{}, {}>>

\* list.erase(iterator), push_front() and the iterator begin().
Place(list, addr) == CHOOSE i \in DOMAIN list : list[i][1] = addr
Erase(list, addr) == RemoveAt(list, Place(list, addr))
PushFront(list, key, value) ==
    LET used == {list[i][1] : i \in DOMAIN list}
        addr == CHOOSE a \in 1 .. LruCap : a \notin used
    IN  <<<<addr, key, value>>>> \o list
NodeAt(list, addr) == list[Place(list, addr)]

\* key is used with the value: it comes first.
Touch(key, value) ==
    LET seen == {i \in DOMAIN held : held[i][1] = key}
    IN  <<<<key, value>>>> \o (IF seen = {} THEN held ELSE RemoveAt(held, CHOOSE i \in seen : TRUE))
Cached(key) == {i \in 1 .. Len(held) : i <= LruCap /\ held[i][1] = key}

get(key) ==
    IF obj.m[key] = Null
    THEN ret' = <<{}, {held[i][2] : i \in Cached(key)}>> /\ UNCHANGED <<obj, held>>
    ELSE LET res == NodeAt(obj.list, obj.m[key])[3]
             list == PushFront(Erase(obj.list, obj.m[key]), key, res)
         IN  /\ obj' = [obj EXCEPT !.list = list, !.m[key] = list[1][1]]
             /\ ret' = <<{res}, {held[i][2] : i \in Cached(key)}>>
             /\ held' = Touch(key, res)

\* The cache with room for one more node, as put() makes it.
Room_KeepsEntry(key) ==
    CASE obj.m[key] # Null -> [obj EXCEPT !.list = Erase(obj.list, obj.m[key])]
      [] obj.m[key] = Null /\ obj.count = LruCap ->
            [obj EXCEPT !.list = Erase(obj.list, obj.list[LruCap][1])]
      [] OTHER -> [obj EXCEPT !.count = @ + 1]
Room(key) ==
    CASE obj.m[key] # Null -> [obj EXCEPT !.list = Erase(obj.list, obj.m[key])]
      [] obj.m[key] = Null /\ obj.count = LruCap ->
            LET back == obj.list[Len(obj.list)]
            IN  [obj EXCEPT !.list = Erase(obj.list, back[1]), !.m[back[2]] = Null]
      [] OTHER -> [obj EXCEPT !.count = @ + 1]

put(key, value) ==
    LET list == PushFront(Room(key).list, key, value)
    IN  /\ obj' = [Room(key) EXCEPT !.list = list, !.m[key] = list[1][1]]
        /\ held' = Touch(key, value)
        /\ UNCHANGED ret

LruNext == \E key \in LruKeys : get(key) \/ \E value \in LruValues : put(key, value)

\* The list is the LruCap most recently used keys in order, the map points to exactly
\* their nodes, and get() returns the last value put.
LruSound ==
    /\ [i \in 1 .. Len(obj.list) |-> <<obj.list[i][2], obj.list[i][3]>>]
          = SubSeq(held, 1, IF Len(held) < LruCap THEN Len(held) ELSE LruCap)
    /\ \A key \in LruKeys :
          {obj.m[key]} \ {Null} = {obj.list[i][1] : i \in Cached(key)}
    /\ obj.count = Len(obj.list)
    /\ ret[1] = ret[2]

-----------------------------------------------------------------------------
\* The median of a stream with two heaps, src/cpp/online_judge/leetcode/
\* editor/cn/数据流中的中位数.cpp.  A std::priority_queue is a sorted sequence
\* with its top at the end the queue asks for.
\*   obj: [maxHeap, minHeap]: sorted sequences
\*   held: the numbers added, sorted
\*   ret: twice the last median: got, wanted

MedianInit == obj = [maxHeap |-> <<>>, minHeap |-> <<>>] /\ held = <<>> /\ ret = <<0, 0>>

Push(heap, num) ==
    LET k == CHOOSE k \in 0 .. Len(heap) : /\ \A i \in 1 .. k : heap[i] <= num
                                          /\ \A i \in k + 1 .. Len(heap) : num < heap[i]
    IN  [i \in 1 .. Len(heap) + 1 |-> IF i <= k THEN heap[i] ELSE IF i = k + 1 THEN num ELSE heap[i - 1]]
count == Len(held)

\* The number goes through the other heap, so that the halves stay in order.
addNum_Direct(num) ==
    /\ count < MedianMax
    /\ obj' = IF count % 2 = 0 THEN [obj EXCEPT !.minHeap = Push(@, num)]
                               ELSE [obj EXCEPT !.maxHeap = Push(@, num)]
    /\ held' = Push(held, num)
    /\ UNCHANGED ret
addNum(num) ==
    /\ count < MedianMax
    /\ obj' = IF count % 2 = 0
              THEN LET m == Push(obj.maxHeap, num)
                   IN  [maxHeap |-> Front(m), minHeap |-> Push(obj.minHeap, Last(m))]
              ELSE LET m == Push(obj.minHeap, num)
                   IN  [minHeap |-> Tail(m), maxHeap |-> Push(obj.maxHeap, Head(m))]
    /\ held' = Push(held, num)
    /\ UNCHANGED ret

findMedian ==
    /\ count > 0
    /\ ret' = <<IF count % 2 = 0 THEN Last(obj.maxHeap) + Head(obj.minHeap)
                                 ELSE 2 * Head(obj.minHeap),
                held[(count + 1) \div 2] + held[(count + 2) \div 2]>>
    /\ UNCHANGED <<obj, held>>

MedianNext == findMedian \/ \E num \in MedianNums : addNum(num)

\* The two heaps are the lower and the upper half of what was added, and the median is
\* the middle of the sorted stream.
MedianSound == obj.maxHeap \o obj.minHeap = held /\ ret[1] = ret[2]

-----------------------------------------------------------------------------
\* The bit map of src/cpp/algorithm/bitMap.cpp: bytes as numbers 0 .. 255,
\* bit 0 of the map is the highest bit of the first byte.  The map holds
\* size / 8 whole bytes; indices beyond them are outside the array.
\*   obj: data
\*   held: the indices that are set
\*   ret: what the last get() returned, beside what it should return

BitsInit ==
    /\ obj = [addr \in 0 .. charSize - 1 |-> 0]
    /\ held = {}
    /\ ret = <<FALSE, FALSE>>

\* 0x1 << (7 - index % 8).
temp(index) == <<128, 64, 32, 16, 8, 4, 2, 1>>[(index % 8) + 1]
HasBit(byte, index) == (byte \div temp(index)) % 2 = 1     \* byte & temp

Bit(data, index) == HasBit(data[index \div 8], index)
BitsGet(index) ==
    /\ ret' = <<Bit(obj, index), index \in held>>
    /\ UNCHANGED <<obj, held>>

setTrue(data, index) ==
    IF HasBit(data[index \div 8], index) THEN data
    ELSE [data EXCEPT ![index \div 8] = @ + temp(index)]
setFalse_Flips(data, index) ==
    [data EXCEPT ![index \div 8] = IF HasBit(@, index) THEN @ - temp(index)
                                                       ELSE @ + temp(index)]
setFalse(data, index) ==
    IF ~ Bit(data, index) THEN data
    ELSE [data EXCEPT ![index \div 8] = @ - temp(index)]  \* ^= temp, the bit is set

BitsSet(index, status) ==
    /\ obj' = IF status THEN setTrue(obj, index) ELSE setFalse(obj, index)
    /\ held' = IF status THEN held \cup {index} ELSE held \ {index}
    /\ UNCHANGED ret

\* set(charId, bitId, status) and get(charId, bitId).
Index(charId, bitId) == charId * 8 + bitId

setNumber(index, number) ==
    /\ obj' = [obj EXCEPT ![index] = number]
    /\ held' = {i \in held : i \div 8 # index}
                 \cup {Index(index, b) : b \in {b \in 0 .. 7 : HasBit(number, b)}}
    /\ UNCHANGED ret

BitsNext ==
    \/ \E index \in BitIndices : BitsGet(index) \/ \E status \in BOOLEAN : BitsSet(index, status)
    \/ \E charId \in 0 .. charSize - 1, bitId \in {1} :
          \/ BitsGet(Index(charId, bitId))
          \/ \E status \in BOOLEAN : BitsSet(Index(charId, bitId), status)
    \/ \E index \in 0 .. charSize - 1, number \in BitBytes : setNumber(index, number)

\* Setting and clearing a bit leaves every other bit of the map alone, also when it has
\* the value already.
BitsSound ==
    /\ \A index \in 0 .. 8 * charSize - 1 : Bit(obj, index) <=> index \in held
    /\ ret[1] = ret[2]

-----------------------------------------------------------------------------
\* Union-find over 0 .. DsuSize - 1, in two versions that differ in how a root
\* is found: src/cpp/race/union_find.cpp compresses the path, the class in
\* src/cpp/race/race_template.cpp only follows it.
\*   obj: [father, compress]: compress tells the version
\*   held: the partition
\*   ret: whether the last two elements compared were joined: got, wanted

Elements == 0 .. DsuSize - 1

\* makeSet() and init().
DsuInit ==
    /\ obj \in [father : {[i \in Elements |-> i]}, compress : BOOLEAN]
    /\ held = {{i} : i \in Elements}
    /\ ret = <<FALSE, FALSE>>

\* The nodes from x up to its root, in order; the root is the last.
Climb(father, x) ==
    LET at[k \in 0 .. DsuSize] == IF k = 0 THEN x ELSE LET y == at[k - 1] IN father[y]
    IN  at
find(father, x) == Climb(father, x)[DsuSize]
findRoot_Halves(father, x) == [father EXCEPT ![x] = find(father, x), ![father[x]] = x]
findRoot(father, x) ==
    LET root == find(father, x)
        path == {Climb(father, x)[k] : k \in 0 .. DsuSize}
    IN  [i \in Elements |-> IF i \in path THEN root ELSE father[i]]

Class(x) == CHOOSE C \in held : x \in C
Merge(x, y) == (held \ {Class(x), Class(y)}) \cup {Class(x) \cup Class(y)}

Union(x, y) ==
    LET a == find(obj.father, x)
        after == findRoot(findRoot(obj.father, x), y)
        b == find(obj.father, y)
    IN  /\ obj.compress
        /\ obj' = [obj EXCEPT !.father = [after EXCEPT ![a] = b]]
        /\ held' = Merge(x, y)
        /\ UNCHANGED ret

join(i, j) ==
    /\ ~ obj.compress
    /\ obj' = [obj EXCEPT !.father[find(obj.father, i)] = find(obj.father, j)]
    /\ held' = Merge(i, j)
    /\ UNCHANGED ret

\* A query: do x and y have one root?  findRoot() moves nodes as it looks.
Joined(x, y) ==
    /\ ret' = <<find(obj.father, x) = find(obj.father, y), y \in Class(x)>>
    /\ obj' = IF obj.compress
              THEN [obj EXCEPT !.father = findRoot(findRoot(@, x), y)] ELSE obj
    /\ UNCHANGED held

DsuNext == \E x, y \in Elements : Union(x, y) \/ join(x, y) \/ Joined(x, y)

\* What code() returns after the joins: the number of distinct roots.
Provinces == Cardinality({find(obj.father, i) : i \in Elements})

\* Following father ends at a root, two elements have one root exactly when they were
\* joined, and the number of roots is the number of classes.
DsuSound ==
    /\ \A x \in Elements : LET r == find(obj.father, x) IN obj.father[r] = r
    /\ \A x, y \in Elements :
          find(obj.father, x) = find(obj.father, y) <=> y \in Class(x)
    /\ Provinces = Cardinality(held)
    /\ ret[1] = ret[2]
=============================================================================
