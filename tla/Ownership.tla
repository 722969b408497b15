----------------------------- MODULE Ownership ------------------------------
(***************************************************************************)
(* Who owns objects, memory and descriptors, and when they are given back. *)
(* Each section is one program; the variables are those of the program     *)
(* in use.                                                                 *)
(***************************************************************************)
EXTENDS Integers, FiniteSets, Sequences

CONSTANTS Handles, Pointees    \* pointer variables; addresses of objects
CONSTANTS Shares, Weaks, Counted   \* SharePtr and WeakPtr variables; objects
CONSTANTS Colors, Points
CONSTANTS NumofObjects, MaxBlocks   \* nodes per block; bound on the blocks
CONSTANTS Devices,          \* the event devices, by number
          Batch, WaitRounds,  \* 32 events per read(), 200 rounds
          ShortMax,         \* the greatest short, one less than a power of two
          Pending           \* bound on the events a device keeps

VARIABLES obj, held, ret

-----------------------------------------------------------------------------
\* Reference-counting pointers that own an object: the counter beside it
\* (Shared_ptr of src/cpp/stl/shared_ptr.cpp, shared_ptr of shared_ptr_2.cpp)
\* or inside it (SmartPointer and RefBase of smartpointer.h).  Assignment is
\* modelled for the last one: the bodies of the other two name members that
\* do not exist and cannot be instantiated.
\*   obj: [intrusive, ptr, cnt]: handle -> object; object -> counter
\*   held: the objects that were not deleted
\*   ret: the objects deleted although they were gone already

SmartNone == -1        \* no pointer in this variable
NULL == 0

SmartInit ==
    /\ obj \in [intrusive : BOOLEAN, ptr : {[h \in Handles |-> SmartNone]},
                cnt : {[o \in Pointees |-> 0]}]
    /\ held = {}
    /\ ret = {}

\* One reference more, and one less with delete at zero.
Inc(o) == IF o = NULL THEN obj.cnt ELSE [obj.cnt EXCEPT ![o] = @ + 1]
Dec(cnt, o) == IF o = NULL THEN cnt ELSE [cnt EXCEPT ![o] = @ - 1]
SmartDeletes(cnt, o) == IF o # NULL /\ cnt[o] = 0 THEN {o} ELSE {}
Gone(cnt, o) ==
    /\ held' = held \ SmartDeletes(cnt, o)
    /\ ret' = ret \cup (SmartDeletes(cnt, o) \ held)

Construct(h, o) ==
    /\ obj.ptr[h] = SmartNone /\ o \notin held
    /\ obj' = [obj EXCEPT !.ptr[h] = o, !.cnt[o] = 1]
    /\ held' = held \cup {o}
    /\ UNCHANGED ret
\* SmartPointer() and a second SmartPointer(T*) for an object that is alive.
FromRaw(h, o) ==
    /\ obj.intrusive /\ obj.ptr[h] = SmartNone /\ o \in held \cup {NULL}
    /\ obj' = [obj EXCEPT !.ptr[h] = o, !.cnt = Inc(o)]
    /\ UNCHANGED <<held, ret>>
Copy(h, g) ==
    /\ obj.ptr[h] = SmartNone /\ obj.ptr[g] # SmartNone
    /\ obj' = [obj EXCEPT !.ptr[h] = obj.ptr[g], !.cnt = Inc(obj.ptr[g])]
    /\ UNCHANGED <<held, ret>>
SmartDestroy(h) ==
    LET cnt == Dec(obj.cnt, obj.ptr[h])
    IN  /\ obj.ptr[h] # SmartNone
        /\ obj' = [obj EXCEPT !.ptr[h] = SmartNone, !.cnt = cnt]
        /\ Gone(cnt, obj.ptr[h])

Assign_DropsFirst(h, g) ==
    LET cnt == Dec(obj.cnt, obj.ptr[h])
        temp == obj.ptr[g]
    IN  /\ obj.intrusive /\ SmartNone \notin {obj.ptr[h], temp}
        /\ obj' = [obj EXCEPT !.ptr[h] = temp,
                              !.cnt = IF temp = NULL THEN cnt ELSE [cnt EXCEPT ![temp] = @ + 1]]
        /\ Gone(cnt, obj.ptr[h])
Assign(h, g) ==
    LET temp == obj.ptr[g]
        cnt == Dec(Inc(temp), obj.ptr[h])
    IN  /\ obj.intrusive /\ SmartNone \notin {obj.ptr[h], temp}
        /\ obj' = [obj EXCEPT !.ptr[h] = temp, !.cnt = cnt]
        /\ Gone(cnt, obj.ptr[h])

SmartNext ==
    \E h \in Handles :
       \/ SmartDestroy(h)
       \/ \E o \in Pointees : Construct(h, o)
       \/ \E o \in Pointees \cup {NULL} : FromRaw(h, o)
       \/ \E g \in Handles : Copy(h, g) \/ Assign(h, g)

\* An object lives exactly as long as a pointer refers to it and is deleted once; its
\* counter is the number of pointers.
SmartSound ==
    /\ ret = {}
    /\ held = {o \in Pointees : \E h \in Handles : obj.ptr[h] = o}
    /\ \A o \in held : obj.cnt[o] = Cardinality({h \in Handles : obj.ptr[h] = o})

-----------------------------------------------------------------------------
\* SharePtr and WeakPtr of src/cpp/base/weak_ptr_impl.cpp.  A Counter with the
\* numbers s and w is allocated with every object; an object and its Counter
\* have one name here.
\*
\* The client keeps to what the code supports: only pointers that refer to an
\* object are copied (a copied null SharePtr frees its Counter too early), and
\* lock() is called after expired() returned false.  WeakPtr::release() never
\* deletes the Counter: a Counter that only weak pointers used is leaked.
\*   obj: [share, weak, null, s, w]
\*   held: [objects, counters]: what was not deleted
\*   ret: a name whose object or Counter was used after its deletion

WeakNone == -1        \* no pointer object in this variable
NoCounter == 0    \* cnt == NULL

WeakInit ==
    /\ obj = [share |-> [h \in Shares |-> WeakNone], weak |-> [k \in Weaks |-> WeakNone], null |-> {},
              s |-> [c \in Counted |-> 0], w |-> [c \in Counted |-> 0]]
    /\ held = [objects |-> {}, counters |-> {}]
    /\ ret = {}

Users(c) == {h \in Shares : obj.share[h] = c} \cup {k \in Weaks : obj.weak[k] = c}
Holds(h) == obj.share[h] # WeakNone /\ h \notin obj.null      \* a SharePtr with an object
Used(C) == ret' = ret \cup ((C \ {NoCounter}) \ held.counters)

\* SharePtr(p), with p = 0 for the default.
NewShare(h, c, isNull) ==
    /\ obj.share[h] = WeakNone /\ Users(c) = {}
    /\ obj' = [obj EXCEPT !.share[h] = c, !.s[c] = IF isNull THEN 0 ELSE 1, !.w[c] = 0,
                          !.null = IF isNull THEN @ \cup {h} ELSE @]
    /\ held' = [objects |-> IF isNull THEN held.objects ELSE held.objects \cup {c},
                counters |-> held.counters \cup {c}]
    /\ UNCHANGED ret

\* SharePtr::release(): the object goes with the last SharePtr, the Counter too when no
\* WeakPtr is left.
Release_NoWeakTest(o, h) ==
    LET c == o.share[h]
        s == o.s[c] - 1
    IN  [o |-> [o EXCEPT !.s[c] = s, !.null = @ \ {h}],
         objects |-> IF s < 1 THEN {c} ELSE {}, counters |-> IF s < 1 THEN {c} ELSE {}]
Release(o, h) ==
    LET c == o.share[h]
        s == o.s[c] - 1
    IN  [o |-> [o EXCEPT !.s[c] = s, !.null = @ \ {h}],
         objects |-> IF s < 1 THEN {c} ELSE {},
         counters |-> IF s < 1 /\ o.w[c] < 1 THEN {c} ELSE {}]
WeakDeletes(r) == held' = [objects |-> held.objects \ r.objects,
                       counters |-> held.counters \ r.counters]
\* WeakPtr::release().
WeakRelease(o, k) == IF o.weak[k] = NoCounter THEN o ELSE [o EXCEPT !.w[o.weak[k]] = @ - 1]

CopyShare(h, c) ==          \* the copy constructor, and lock()
    /\ obj.share[h] = WeakNone
    /\ obj' = [obj EXCEPT !.share[h] = c, !.s[c] = @ + 1]
    /\ Used({c}) /\ UNCHANGED held
AssignShare(h, g) ==
    LET r == Release(obj, h)
        c == obj.share[g]
    IN  /\ h # g /\ obj.share[h] # WeakNone /\ Holds(g)
        /\ obj' = [r.o EXCEPT !.s[c] = @ + 1, !.share[h] = c]
        /\ Used({obj.share[h], c}) /\ WeakDeletes(r)
DestroyShare(h) ==
    /\ obj.share[h] # WeakNone
    /\ obj' = [Release(obj, h).o EXCEPT !.share[h] = WeakNone]
    /\ Used({obj.share[h]}) /\ WeakDeletes(Release(obj, h))

NewWeak(k, c) ==            \* WeakPtr(), WeakPtr(SharePtr&), WeakPtr(WeakPtr&)
    /\ obj.weak[k] = WeakNone
    /\ obj' = IF c = NoCounter THEN [obj EXCEPT !.weak[k] = c]
              ELSE [obj EXCEPT !.weak[k] = c, !.w[c] = @ + 1]
    /\ Used({c}) /\ UNCHANGED held
AssignWeak(k, c) ==         \* from a WeakPtr with a Counter or from a SharePtr
    /\ obj.weak[k] # WeakNone
    /\ obj' = [WeakRelease(obj, k) EXCEPT !.weak[k] = c, !.w[c] = @ + 1]
    /\ Used({c, obj.weak[k]}) /\ UNCHANGED held
DestroyWeak(k) ==
    /\ obj.weak[k] # WeakNone
    /\ obj' = [WeakRelease(obj, k) EXCEPT !.weak[k] = WeakNone]
    /\ Used({obj.weak[k]}) /\ UNCHANGED held

expired(k) == ~ (obj.weak[k] \in Counted /\ obj.s[obj.weak[k]] > 0)

ShareStep(h) ==
    \/ DestroyShare(h)
    \/ \E c \in Counted, isNull \in BOOLEAN : NewShare(h, c, isNull)
    \/ \E g \in Shares : AssignShare(h, g) \/ (Holds(g) /\ CopyShare(h, obj.share[g]))
    \/ \E k \in Weaks : ~ expired(k) /\ CopyShare(h, obj.weak[k])
WeakStep(k) ==
    \/ DestroyWeak(k) \/ NewWeak(k, NoCounter)
    \/ \E g \in Shares : Holds(g) /\ (NewWeak(k, obj.share[g]) \/ AssignWeak(k, obj.share[g]))
    \/ \E l \in Weaks \ {k} : obj.weak[l] \in Counted /\
                                 (NewWeak(k, obj.weak[l]) \/ AssignWeak(k, obj.weak[l]))
WeakNext == (\E h \in Shares : ShareStep(h)) \/ \E k \in Weaks : WeakStep(k)

\* An object lives exactly as long as a SharePtr refers to it, whatever weak pointers
\* there are; its Counter outlives every pointer that uses it and counts them.
WeakSound ==
    /\ ret = {}
    /\ held.objects = {obj.share[h] : h \in {h \in Shares : Holds(h)}}
    /\ \A c \in Counted : Users(c) # {} =>
          /\ c \in held.counters
          /\ obj.s[c] = Cardinality({h \in Shares : obj.share[h] = c /\ Holds(h)})
          /\ obj.w[c] = Cardinality({k \in Weaks : obj.weak[k] = c})

-----------------------------------------------------------------------------
\* src/cpp/design_pattern/Flyweight.cpp: a factory that shares one piece per
\* colour and a board that remembers which piece is where.  The point is the
\* one changing field of a shared piece.
\*   obj: [m_vecPiece, m_mapPieces, pPiece, placed]
\*   held: point -> colour of the first piece drawn there
\*   ret: the colour the client asked for last

Null == 0
NoPoint == 0
Vec == obj.m_vecPiece

\* pPiece is the client's pointer, an index into m_vecPiece; placed tells that its point
\* has been set since it was fetched.
PieceInit ==
    /\ obj = [m_vecPiece |-> <<>>, m_mapPieces |-> [p \in {} |-> Null], pPiece |-> Null,
              placed |-> FALSE]
    /\ held = [p \in {} |-> Null]
    /\ ret = Null

Found(color) == {i \in 1 .. Len(Vec) : Vec[i].m_color = color}
GetPiece_First(color) ==
    /\ obj' = IF Vec = <<>>
              THEN [obj EXCEPT !.m_vecPiece = <<[m_color |-> color, m_point |-> NoPoint]>>,
                               !.pPiece = 1, !.placed = FALSE]
              ELSE [obj EXCEPT !.pPiece = 1, !.placed = FALSE]
    /\ ret' = color
    /\ UNCHANGED held
GetPiece(color) ==
    /\ obj' = IF Found(color) = {}
              THEN [obj EXCEPT !.m_vecPiece =
                                   Append(@, [m_color |-> color, m_point |-> NoPoint]),
                               !.pPiece = Len(Vec) + 1, !.placed = FALSE]
              ELSE [obj EXCEPT !.pPiece = CHOOSE i \in Found(color) :
                                             \A j \in Found(color) : i <= j,
                               !.placed = FALSE]
    /\ ret' = color
    /\ UNCHANGED held

SetPoint(point) ==
    /\ obj.pPiece # Null
    /\ obj' = [obj EXCEPT !.m_vecPiece[obj.pPiece].m_point = point, !.placed = TRUE]
    /\ UNCHANGED <<held, ret>>

\* map::insert leaves an entry that is there alone.
Draw ==
    LET point == Vec[obj.pPiece].m_point
        Put(f, x) == IF point \in DOMAIN f THEN f
                     ELSE [p \in DOMAIN f \cup {point} |-> IF p = point THEN x ELSE f[p]]
    IN  /\ obj.placed
        /\ obj' = [obj EXCEPT !.m_mapPieces = Put(@, obj.pPiece)]
        /\ held' = Put(held, ret)
        /\ UNCHANGED ret

PieceNext == Draw \/ (\E color \in Colors : GetPiece(color)) \/ \E point \in Points : SetPoint(point)

\* ShowAllPieces(): the colour of the piece at every point.
Shown == [p \in DOMAIN obj.m_mapPieces |-> Vec[obj.m_mapPieces[p]].m_color]

\* However often the shared pieces are moved, the board shows at every point the colour
\* that was asked for when it was drawn there, and no colour has two pieces.
PieceSound ==
    /\ Shown = held
    /\ \A color \in Colors : Cardinality(Found(color)) <= 1
    /\ obj.pPiece # Null => Vec[obj.pPiece].m_color = ret

-----------------------------------------------------------------------------
\* The object pools of src/cpp/memory: MemPool.cpp starts with one array of
\* nodes and adds arrays, MemPool2.cpp starts empty and links its blocks.
\* Free nodes form a list; an object lies where the list pointer of its node
\* was, so that constructing it overwrites the pointer.
\*   obj: [linked, next, freeNodeHeader, memBlockHeader, blockNext, blocks]
\*   held: the nodes that hold objects
\*   ret: the blocks deleted, in order, once the pool is destroyed

NoNode == 0
Scribbled == MaxBlocks * NumofObjects + 1     \* what an object leaves in its node
NodesOf(b) == (b - 1) * NumofObjects + 1 .. b * NumofObjects
Nodes == 1 .. MaxBlocks * NumofObjects

\* A new block b: its nodes in a list that starts with the first.
Chained(p, b) ==
    [p EXCEPT !.next = [n \in Nodes |-> IF n \notin NodesOf(b) THEN @[n]
                                        ELSE IF n = b * NumofObjects THEN NoNode ELSE n + 1],
              !.freeNodeHeader = (b - 1) * NumofObjects + 1,
              !.blocks = b]
Empty(linked) ==
    [linked |-> linked, next |-> [n \in Nodes |-> NoNode], freeNodeHeader |-> NoNode,
     memBlockHeader |-> NoNode, blockNext |-> [b \in 1 .. MaxBlocks |-> NoNode], blocks |-> 0]

PoolInit ==
    /\ obj \in {Empty(TRUE), Chained(Empty(FALSE), 1)}
    /\ held = {}
    /\ ret = <<>>

\* malloc() of an empty pool first gets a block; MemPool2 puts it before the others.
Refilled_NoLink(p) == IF p.freeNodeHeader # NoNode THEN p ELSE
    [Chained(p, p.blocks + 1) EXCEPT !.memBlockHeader = p.blocks + 1]
Refilled(p) ==
    IF p.freeNodeHeader # NoNode THEN p
    ELSE IF p.linked
    THEN [Chained(p, p.blocks + 1) EXCEPT !.memBlockHeader = p.blocks + 1,
                                          !.blockNext[p.blocks + 1] = p.memBlockHeader]
    ELSE Chained(p, p.blocks + 1)

\* operator new: malloc() and the constructor, which writes the object.
New ==
    LET p == Refilled(obj)
    IN  /\ ret = <<>>
        /\ obj.freeNodeHeader = NoNode => obj.blocks < MaxBlocks
        /\ obj' = [p EXCEPT !.freeNodeHeader = p.next[p.freeNodeHeader],
                            !.next[p.freeNodeHeader] = Scribbled]
        /\ held' = held \cup {p.freeNodeHeader}
        /\ UNCHANGED ret

\* operator delete: free().
Delete_NoLink(node) ==
    /\ ret = <<>> /\ node \in held
    /\ obj' = [obj EXCEPT !.freeNodeHeader = node]
    /\ held' = held \ {node}
    /\ UNCHANGED ret
Delete(node) ==
    /\ ret = <<>> /\ node \in held
    /\ obj' = [obj EXCEPT !.next[node] = obj.freeNodeHeader, !.freeNodeHeader = node]
    /\ held' = held \ {node}
    /\ UNCHANGED ret

\* Nodes reached from a header through f, at most n of them.
Walk(f, header, n) ==
    LET at[k \in 1 .. n] == IF k = 1 THEN header
                            ELSE LET x == at[k - 1] IN IF x \in DOMAIN f THEN f[x] ELSE NoNode
        m == CHOOSE m \in 0 .. n : \A k \in 1 .. n : at[k] # NoNode <=> k <= m
    IN  [k \in 1 .. m |-> at[k]]

\* ~MemPool() of MemPool2.cpp: the block list is deleted from its header on.
PoolDestroy ==
    /\ obj.linked /\ obj.blocks > 0 /\ ret = <<>>
    /\ ret' = Walk(obj.blockNext, obj.memBlockHeader, MaxBlocks)
    /\ UNCHANGED <<obj, held>>

PoolNext == New \/ PoolDestroy \/ \E node \in Nodes : Delete(node)

\* Every node of every block is either free, once, or holds one object: the free list
\* has no node twice, none in use, none the objects overwrote, and loses none.  The
\* destructor deletes every block once.
PoolSound ==
    /\ LET free == Walk(obj.next, obj.freeNodeHeader, Scribbled)
           onList == {free[k] : k \in 1 .. Len(free)}
       IN  /\ Len(free) = Cardinality(onList)
           /\ onList \cap held = {}
           /\ onList \cup held = UNION {NodesOf(b) : b \in 1 .. obj.blocks}
    /\ ret # <<>> => /\ Len(ret) = obj.blocks
                     /\ {ret[k] : k \in 1 .. Len(ret)} = 1 .. obj.blocks

-----------------------------------------------------------------------------
\* The input-event reader of src/cpp/socket/epoll_file.cpp: it opens every
\* event device, adds it to an epoll set, and for a number of rounds waits
\* for one ready device, reads a batch of its events and reports them.  A
\* device can be pulled out at any time: epoll then reports an error and the
\* read fails.
\*   obj: [pc, todo, n, open, watched, batch, x, y]; batch, x and y are those of
\*        readInputEvent(): the events still to be gone through, the sums so far
\*   held: device -> its events, or Pulled
\*   ret: kind -> how much was read and not reported so far

Pulled == <<"pulled">>
Kinds == {"key", "x", "y", "wheel"}     \* value 1 each, except the wheel's
Short(v) == ((v + ShortMax + 1) % (2 * (ShortMax + 1))) - (ShortMax + 1)
CountOf(s, k) == Cardinality({i \in DOMAIN s : s[i] = k})

InputInit ==
    /\ obj = [pc |-> "scan", todo |-> Devices, n |-> 0, open |-> {}, watched |-> {},
              batch |-> <<>>, x |-> 0, y |-> 0]
    /\ held = [d \in Devices |-> <<>>]
    /\ ret = [k \in Kinds |-> 0]

\* open() and epoll_ctl() may fail; after the second failure the descriptor is closed.
openInputEvent_Leaks(d) ==
    \/ obj' = [obj EXCEPT !.todo = @ \ {d}, !.open = @ \cup {d}]
    \/ obj' = [obj EXCEPT !.todo = @ \ {d}, !.n = @ + 1, !.open = @ \cup {d}, !.watched = @ \cup {d}]

openInputEvent(d) ==
    \/ obj' = [obj EXCEPT !.todo = @ \ {d}]
    \/ obj' = [obj EXCEPT !.todo = @ \ {d}, !.n = @ + 1, !.open = @ \cup {d}, !.watched = @ \cup {d}]

Scan == obj.pc = "scan" /\ (\E d \in obj.todo : openInputEvent(d)) /\ UNCHANGED <<held, ret>>
Scanned ==
    /\ obj.pc = "scan" /\ obj.todo = {}
    /\ obj' = IF obj.n < 1 THEN [obj EXCEPT !.pc = "failed", !.watched = {}]
              ELSE [obj EXCEPT !.pc = "loop", !.n = 0]
    /\ UNCHANGED <<held, ret>>

\* One read() of the events that are pending, as many as fit.
readInputEvent(d) ==
    LET len == IF Len(held[d]) < Batch THEN Len(held[d]) ELSE Batch
        got == SubSeq(held[d], 1, len)
    IN  /\ obj' = [obj EXCEPT !.pc = "events", !.batch = got]
        /\ held' = [held EXCEPT ![d] = SubSeq(@, len + 1, Len(@))]
        /\ ret' = [k \in Kinds |-> ret[k] + CountOf(got, k)]
\* One turn of its loop: a key or a wheel step is reported at once, a movement added up.
OneEvent ==
    /\ obj.pc = "events" /\ obj.batch # <<>>
    /\ LET k == Head(obj.batch)
       IN  /\ obj' = [obj EXCEPT !.batch = Tail(@),
                                 !.x = IF k = "x" THEN Short(@ + 1) ELSE @,
                                 !.y = IF k = "y" THEN Short(@ + 1) ELSE @]
           /\ ret' = IF k \in {"x", "y"} THEN ret ELSE [ret EXCEPT ![k] = @ - 1]
    /\ UNCHANGED held
\* Mutant: a movement along one axis is not reported.
Moved_Both == obj.x # 0 /\ obj.y # 0
Moved == obj.x # 0 \/ obj.y # 0
\* Behind the loop: the sums are reported, in one call, if one of them is not zero.
Report ==
    /\ obj.pc = "events" /\ obj.batch = <<>>
    /\ obj' = [obj EXCEPT !.pc = "loop", !.n = @ + 1, !.x = 0, !.y = 0]
    /\ ret' = IF Moved THEN [ret EXCEPT !["x"] = @ - obj.x, !["y"] = @ - obj.y] ELSE ret
    /\ UNCHANGED held

\* epoll_wait() for one device; the read of one that was pulled out fails, and EPOLLERR
\* closes it, which also takes it out of the set.
Ready(d) == d \in obj.watched /\ held[d] # <<>>
Round ==
    /\ obj.pc = "loop" /\ obj.n < WaitRounds
    /\ \/ \E d \in Devices : Ready(d) /\ held[d] # Pulled /\ readInputEvent(d)
       \/ /\ \E d \in Devices :
                /\ Ready(d) /\ held[d] = Pulled
                /\ obj' = [obj EXCEPT !.n = @ + 1, !.open = @ \ {d}, !.watched = @ \ {d}]
          /\ UNCHANGED <<held, ret>>
       \/ (\A d \in Devices : ~ Ready(d)) /\ obj' = [obj EXCEPT !.n = @ + 1] /\ UNCHANGED <<held, ret>>

\* The loop is over, or epoll_wait() failed; the devices are left to the exit.
Leave ==
    /\ obj.pc = "loop"
    /\ obj' = [obj EXCEPT !.pc = "left", !.watched = {}]
    /\ UNCHANGED <<held, ret>>

\* The world outside, as far as it concerns a device that is watched.
Event(d, k) ==
    /\ d \in obj.watched /\ held[d] # Pulled /\ Len(held[d]) < Pending
    /\ held' = [held EXCEPT ![d] = Append(@, k)] /\ UNCHANGED <<obj, ret>>
Pull(d) == d \in obj.watched /\ held[d] # Pulled /\ held' = [held EXCEPT ![d] = Pulled] /\ UNCHANGED <<obj, ret>>

InputNext ==
    \/ Scan \/ Scanned \/ Round \/ OneEvent \/ Report \/ Leave
    \/ \E d \in Devices : Pull(d) \/ \E k \in Kinds : Event(d, k)

\* While the program runs its open descriptors are those it watches, so that none leaks
\* and none is closed twice.  When a batch has been gone through, keys and wheel steps have
\* been reported one by one and movements with their sum, up to the wrap of a short.
InputSound ==
    /\ obj.pc \in {"scan", "loop", "events"} => obj.open = obj.watched
    /\ obj.pc # "events" =>
          /\ \A k \in {"key", "wheel"} : ret[k] = 0
          /\ \A k \in {"x", "y"} : ret[k] % (2 * (ShortMax + 1)) = 0
=============================================================================
