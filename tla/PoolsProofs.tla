----------------------------- MODULE PoolsProofs -----------------------------
(***************************************************************************)
(* Proofs about the two simpler thread pools of MCPools, for any finite     *)
(* non-empty set of workers, any finite set of clients, any set of tasks    *)
(* and any number of calls.                                                 *)
(***************************************************************************)
EXTENDS MCPools, SharedLemmas

\* The instances have their own copies of Cardinality; they are the same operator.
LEMMA SameCardinality ==
    /\ \A S : P1!Cardinality(S) = Cardinality(S)
    /\ \A S : P2!Cardinality(S) = Cardinality(S)
BY Zenon DEF P1!Cardinality, P2!Cardinality, Cardinality

-----------------------------------------------------------------------------
(* threadPool_1. *)

p1Vars == <<tasks_queue, stop, condition, queue_mutex, pc1, request, dtor, processed,
            accepted, deleted>>

Places1 == {"append", "notify", "delete", "check", "acquire", "process", "exited"}
Awake1 == {w \in Workers : pc1[w] # "exited" /\ w \notin condition}
Notifiers1 == {c \in Clients : pc1[c] = "notify"}

\* Who has a request, who sleeps, and who may have left.
Frame1 ==
    /\ pc1 \in [Workers \cup Clients -> Places1]
    /\ \A w \in Workers : pc1[w] = "process" => request[w] \in Tasks
    /\ \A c \in Clients : pc1[c] \in {"notify", "delete"} => request[c] \in Tasks
    /\ \A w \in condition : pc1[w] = "acquire"
    /\ \A w \in Workers : pc1[w] = "exited" => stop

\* What has been appended is what was processed, what the owner of the lock processes, and
\* what is queued.
Order1 ==
    accepted = (IF queue_mutex = Nobody THEN processed
                                        ELSE Append(processed, request[queue_mutex]))
               \o tasks_queue

Inv1 == P1!TypeOK /\ Frame1 /\ Order1 /\ P1!QueuedTaskHasWorker

LEMMA Init1 == P1!Init => Inv1
<1> SUFFICES ASSUME P1!Init PROVE Inv1
  OBVIOUS
<1> USE PoolsAssumption DEF P1!Init, P1!Threads
<1>1. P1!TypeOK
  BY EmptySeq DEF P1!TypeOK
<1>2. Frame1
  BY DEF Frame1, Places1
<1>3. Order1
  BY ConcatEmptySeq, EmptySeq DEF Order1
<1>4. P1!QueuedTaskHasWorker
  BY DEF P1!QueuedTaskHasWorker
<1> QED BY <1>1, <1>2, <1>3, <1>4 DEF Inv1

\* The types, the lock and the places.
LEMMA TypeStep1 ==
    ASSUME P1!TypeOK, Frame1, [P1!Next]_p1Vars
    PROVE  P1!TypeOK' /\ Frame1'
<1> USE PoolsAssumption DEF P1!TypeOK, P1!Threads, Frame1, Places1
<1>1. ASSUME NEW c \in Clients, P1!AppendNotify(c) PROVE P1!TypeOK' /\ Frame1'
  BY <1>1 DEF P1!AppendNotify, P1!clientVars, P1!WakeOne
<1>2. ASSUME NEW c \in Clients, P1!DeleteTask(c) PROVE P1!TypeOK' /\ Frame1'
  BY <1>2 DEF P1!DeleteTask
<1>3. ASSUME NEW c \in Clients, NEW t \in Tasks, P1!AppendTask(c, t) PROVE P1!TypeOK' /\ Frame1'
  BY <1>3, AppendProperties DEF P1!AppendTask
<1>4. ASSUME NEW w \in Workers, P1!CheckStop(w) PROVE P1!TypeOK' /\ Frame1'
  BY <1>4 DEF P1!CheckStop, P1!clientVars
<1>5. ASSUME NEW w \in Workers, P1!WorkerWait(w) PROVE P1!TypeOK' /\ Frame1'
  BY <1>5 DEF P1!WorkerWait, P1!AtLock, P1!clientVars
<1>6. ASSUME NEW w \in Workers, P1!WorkerTake(w) PROVE P1!TypeOK' /\ Frame1'
  BY <1>6, HeadTailProperties DEF P1!WorkerTake, P1!AtLock, P1!clientVars
<1>7. ASSUME NEW w \in Workers, P1!ProcessDone(w) PROVE P1!TypeOK' /\ Frame1'
  BY <1>7, AppendProperties DEF P1!ProcessDone, P1!clientVars
<1>8. CASE P1!Spurious
  BY <1>8 DEF P1!Spurious, P1!SpuriousWake, P1!clientVars
<1>9. CASE P1!DtorStop \/ P1!DtorNotify \/ P1!DtorJoin
  BY <1>9 DEF P1!DtorStop, P1!DtorNotify, P1!DtorJoin, P1!WakeAll, P1!clientVars
<1>10. CASE UNCHANGED p1Vars
  BY <1>10 DEF p1Vars
<1> QED
  BY <1>1, <1>2, <1>3, <1>4, <1>5, <1>6, <1>7, <1>8, <1>9, <1>10
  DEF P1!Next, P1!WorkerStep, P1!Terminated, P1!vars, P1!clientVars, p1Vars

\* The head of the queue moves to the owner of the lock, and from there to the processed.
LEMMA OrderStep1 ==
    ASSUME P1!TypeOK, Frame1, Order1, [P1!Next]_p1Vars
    PROVE  Order1'
<1> DEFINE taken == IF queue_mutex = Nobody THEN processed
                                            ELSE Append(processed, request[queue_mutex])
<1>0. /\ tasks_queue \in Seq(Tasks) /\ processed \in Seq(Tasks) /\ taken \in Seq(Tasks)
      /\ \A w \in Workers : pc1[w] = "process" <=> queue_mutex = w
      /\ request \in [Workers \cup Clients -> Tasks \cup {NoTask}]
      /\ queue_mutex \in Workers \cup {Nobody} /\ Nobody \notin Workers
      /\ Workers \cap Clients = {}
  BY PoolsAssumption, AppendProperties DEF P1!TypeOK, P1!Threads, Frame1
<1>1. CASE UNCHANGED <<tasks_queue, processed, accepted, queue_mutex>>
           /\ (queue_mutex # Nobody => request'[queue_mutex] = request[queue_mutex])
  BY <1>1 DEF Order1
<1>2. ASSUME NEW c \in Clients, P1!DeleteTask(c) PROVE Order1'
  BY <1>0, <1>1, <1>2 DEF P1!DeleteTask
<1>3. ASSUME NEW c \in Clients, NEW t \in Tasks, P1!AppendTask(c, t) PROVE Order1'
  <2>1. processed \o Append(tasks_queue, t) = Append(processed \o tasks_queue, t)
    BY <1>0, AppendToSecond
  <2> QED BY <1>3, <2>1 DEF P1!AppendTask, Order1
<1>4. ASSUME NEW w \in Workers, P1!WorkerTake(w) PROVE Order1'
  <2>1. Append(processed, Head(tasks_queue)) \o Tail(tasks_queue) = processed \o tasks_queue
    BY <1>0, <1>4, MoveHead DEF P1!WorkerTake
  <2>2. request'[w] = Head(tasks_queue)
    BY <1>0, <1>4 DEF P1!WorkerTake
  <2> QED BY <1>0, <1>4, <2>1, <2>2 DEF P1!WorkerTake, P1!AtLock, P1!clientVars, Order1
<1>5. ASSUME NEW w \in Workers, P1!ProcessDone(w) PROVE Order1'
  BY <1>0, <1>5 DEF P1!ProcessDone, P1!clientVars, Order1
<1>6. CASE UNCHANGED <<tasks_queue, processed, accepted, queue_mutex, request>>
  BY <1>1, <1>6
<1> QED
  BY <1>2, <1>3, <1>4, <1>5, <1>6
  DEF P1!Next, P1!WorkerStep, P1!Terminated, P1!vars, P1!clientVars, p1Vars,
      P1!AppendNotify, P1!CheckStop, P1!WorkerWait, P1!Spurious, P1!DtorStop, P1!DtorNotify,
      P1!DtorJoin


LEMMA Finite1 ==
    ASSUME TRUE
    PROVE  /\ IsFiniteSet(Awake1) /\ IsFiniteSet(Awake1') /\ IsFiniteSet(Notifiers1)
           /\ IsFiniteSet(Notifiers1')
           /\ Cardinality(Awake1) \in Nat /\ Cardinality(Awake1') \in Nat
           /\ Cardinality(Notifiers1) \in Nat /\ Cardinality(Notifiers1') \in Nat
<1>1. Awake1 \in SUBSET Workers /\ Awake1' \in SUBSET Workers
  BY DEF Awake1
<1>2. Notifiers1 \in SUBSET Clients /\ Notifiers1' \in SUBSET Clients
  BY DEF Notifiers1
<1> QED BY <1>1, <1>2, PoolsAssumption, FS_Subset, FS_CardinalityType

\* A queued task brings a notification, a notification wakes a sleeper, and a worker goes
\* to sleep at an empty queue only.
LEMMA WakeStep1 ==
    ASSUME P1!TypeOK, Frame1, P1!QueuedTaskHasWorker, [P1!Next]_p1Vars
    PROVE  P1!QueuedTaskHasWorker'
<1> DEFINE A == Cardinality(Awake1)
           N == Cardinality(Notifiers1)
<1> HIDE DEF A, N
<1> USE PoolsAssumption
<1>0. A \in Nat /\ A' \in Nat /\ N \in Nat /\ N' \in Nat
  BY Finite1 DEF A, N
<1>1. ~stop /\ condition # {} => Len(tasks_queue) <= A + N
  BY SameCardinality DEF P1!QueuedTaskHasWorker, Awake1, Notifiers1, A, N
<1>2. ASSUME ~stop' /\ condition' # {} => Len(tasks_queue') <= A' + N'
      PROVE  P1!QueuedTaskHasWorker'
  BY <1>2, SameCardinality DEF P1!QueuedTaskHasWorker, Awake1, Notifiers1, A, N
<1>3. /\ tasks_queue \in Seq(Tasks) /\ Len(tasks_queue) \in Nat
      /\ pc1 \in [Workers \cup Clients -> Places1]
      /\ condition \subseteq Workers /\ \A w \in condition : pc1[w] = "acquire"
      /\ \A w \in Workers : pc1[w] = "exited" => stop
  BY LenProperties DEF P1!TypeOK, Frame1
<1>4. ASSUME NEW c \in Clients, P1!AppendNotify(c) PROVE P1!QueuedTaskHasWorker'
  <2>1. Notifiers1 = Notifiers1' \cup {c} /\ c \notin Notifiers1'
    BY <1>3, <1>4 DEF P1!AppendNotify, Notifiers1, Places1
  <2>2. N = N' + 1
    BY <2>1, Finite1, OneMore DEF N
  <2>3. CASE condition = {}
    BY <1>2, <1>4, <2>3 DEF P1!AppendNotify, P1!WakeOne
  <2>4. CASE condition # {}
    <3>1. PICK w \in condition : condition' = condition \ {w}
      BY <1>4, <2>4 DEF P1!AppendNotify, P1!WakeOne
    <3>2. Awake1' = Awake1 \cup {w} /\ w \notin Awake1
      BY <1>3, <1>4, <3>1 DEF P1!AppendNotify, Awake1, Places1
    <3>3. A' = A + 1
      BY <3>2, Finite1, OneMore DEF A
    <3> QED BY <1>0, <1>1, <1>2, <1>3, <1>4, <2>2, <2>4, <3>3 DEF P1!AppendNotify
  <2> QED BY <2>3, <2>4
<1>5. ASSUME NEW c \in Clients, P1!DeleteTask(c) PROVE P1!QueuedTaskHasWorker'
  <2>1. Awake1' = Awake1 /\ Notifiers1' = Notifiers1
    BY <1>3, <1>5 DEF P1!DeleteTask, Awake1, Notifiers1, Places1
  <2> QED BY <1>1, <1>2, <1>5, <2>1 DEF P1!DeleteTask, A, N
<1>6. ASSUME NEW c \in Clients, NEW t \in Tasks, P1!AppendTask(c, t)
      PROVE  P1!QueuedTaskHasWorker'
  <2>1. Notifiers1' = Notifiers1 \cup {c} /\ c \notin Notifiers1 /\ Awake1' = Awake1
    BY <1>3, <1>6 DEF P1!AppendTask, Awake1, Notifiers1, Places1
  <2>2. N' = N + 1 /\ A' = A
    BY <2>1, Finite1, OneMore DEF N, A
  <2>3. Len(tasks_queue') = Len(tasks_queue) + 1
    BY <1>3, <1>6, AppendProperties DEF P1!AppendTask
  <2> QED BY <1>0, <1>1, <1>2, <1>3, <1>6, <2>2, <2>3 DEF P1!AppendTask
<1>7. ASSUME NEW w \in Workers, P1!CheckStop(w) PROVE P1!QueuedTaskHasWorker'
  <2>1. CASE stop
    BY <1>2, <1>7, <2>1 DEF P1!CheckStop
  <2>2. CASE ~stop
    <3>1. Awake1' = Awake1 /\ Notifiers1' = Notifiers1
      BY <1>3, <1>7, <2>2 DEF P1!CheckStop, Awake1, Notifiers1, Places1
    <3> QED BY <1>1, <1>2, <1>7, <3>1 DEF P1!CheckStop, A, N
  <2> QED BY <2>1, <2>2
<1>8. ASSUME NEW w \in Workers, P1!WorkerWait(w) PROVE P1!QueuedTaskHasWorker'
  <2>1. Len(tasks_queue') = 0
    BY <1>3, <1>8, EmptySeq DEF P1!WorkerWait
  <2>2. 0 <= A' + N'
    BY Finite1 DEF A, N
  <2> QED BY <1>2, <2>1, <2>2
<1>9. ASSUME NEW w \in Workers, P1!WorkerTake(w) PROVE P1!QueuedTaskHasWorker'
  <2>1. Awake1' = Awake1 /\ Notifiers1' = Notifiers1
    BY <1>3, <1>9 DEF P1!WorkerTake, P1!AtLock, Awake1, Notifiers1, Places1
  <2>2. Len(tasks_queue') = Len(tasks_queue) - 1
    BY <1>3, <1>9, HeadTailProperties DEF P1!WorkerTake
  <2> QED BY <1>0, <1>1, <1>2, <1>3, <1>9, <2>1, <2>2 DEF P1!WorkerTake, A, N
<1>10. ASSUME NEW w \in Workers, P1!ProcessDone(w) PROVE P1!QueuedTaskHasWorker'
  <2>1. Awake1' = Awake1 /\ Notifiers1' = Notifiers1
    BY <1>3, <1>10 DEF P1!ProcessDone, Awake1, Notifiers1, Places1
  <2> QED BY <1>1, <1>2, <1>10, <2>1 DEF P1!ProcessDone, A, N
<1>11. CASE P1!Spurious
  <2>1. PICK w \in condition : condition' = condition \ {w}
    BY <1>11 DEF P1!Spurious, P1!SpuriousWake
  <2>2. Awake1' = Awake1 \cup {w} /\ w \notin Awake1 /\ Notifiers1' = Notifiers1
    BY <1>3, <1>11, <2>1 DEF P1!Spurious, Awake1, Notifiers1, Places1
  <2>3. A' = A + 1 /\ N' = N
    BY <2>2, Finite1, OneMore DEF A, N
  <2> QED BY <1>0, <1>1, <1>2, <1>3, <1>11, <2>1, <2>3 DEF P1!Spurious
<1>12. CASE P1!DtorStop \/ P1!DtorNotify
  BY <1>2, <1>12 DEF P1!DtorStop, P1!DtorNotify, P1!WakeAll
<1>13. CASE UNCHANGED <<tasks_queue, stop, condition, pc1>>
  <2>1. Awake1' = Awake1 /\ Notifiers1' = Notifiers1
    BY <1>13 DEF Awake1, Notifiers1
  <2> QED BY <1>1, <1>2, <1>13, <2>1 DEF A, N
<1> QED
  BY <1>4, <1>5, <1>6, <1>7, <1>8, <1>9, <1>10, <1>11, <1>12, <1>13
  DEF P1!Next, P1!WorkerStep, P1!Terminated, P1!vars, P1!DtorJoin, p1Vars

LEMMA Step1 == Inv1 /\ [P1!Next]_p1Vars => Inv1'
BY TypeStep1, OrderStep1, WakeStep1 DEF Inv1

\* At most one worker has the lock, so at most one runs a request.
LEMMA Sound1 == Inv1 => ProcessedInOrder
<1> SUFFICES ASSUME Inv1 PROVE P1!ProcessedInOrder
  BY DEF Inv1, ProcessedInOrder
<1>1. /\ processed \in Seq(Tasks) /\ \A w \in Workers : pc1[w] = "process" => request[w] \in Tasks
      /\ \A w \in Workers : pc1[w] = "process" <=> queue_mutex = w
      /\ queue_mutex \in Workers \cup {Nobody}
  BY DEF Inv1, P1!TypeOK, Frame1
<1>2. CASE queue_mutex = Nobody
  BY <1>1, <1>2, PoolsAssumption DEF Inv1, Order1, P1!ProcessedInOrder
<1>3. CASE queue_mutex # Nobody
  <2>1. Append(processed, request[queue_mutex]) = processed \o <<request[queue_mutex]>>
    BY <1>1, <1>3, AppendIsConcat
  <2>2. {w \in Workers : pc1[w] = "process"} = {queue_mutex}
    BY <1>1, <1>3
  <2>3. accepted = (processed \o <<request[queue_mutex]>>) \o tasks_queue
    BY <1>3, <2>1 DEF Inv1, Order1
  <2> QED BY <1>1, <1>3, <2>2, <2>3 DEF P1!ProcessedInOrder
<1> QED BY <1>2, <1>3

-----------------------------------------------------------------------------
(* threadPool_2. *)

p2Vars == <<task, isEmpty, isFull, initnum, cond, _mutex, pc2, done, added, ran, finish>>

Adders2 == {c \in Clients : pc2[c] = "add"}

\* Before start() nothing has been added and the bound is the one of setSize(5); after it
\* the bound is the number of workers.  Calls under way are counted in the bound on calls.
Frame2 ==
    /\ \A c \in Clients : pc2[c] \in {"idle", "add"}
    /\ \A w \in Workers : pc2[w] \in {"new", "check", "take", "run", "exited"}
    /\ \/ /\ (\A w \in Workers : pc2[w] = "new") /\ \A c \in Clients : pc2[c] = "idle"
          /\ task = 0 /\ initnum = 5
       \/ (\A w \in Workers : pc2[w] # "new") /\ initnum = Cardinality(Workers)
    /\ added + Cardinality(Adders2) <= MaxAdded

Inv2 == P2!TypeOK /\ Frame2 /\ P2!FlagsExact

LEMMA Finite2 ==
    /\ Cardinality(Workers) \in Nat \ {0}
    /\ IsFiniteSet(Adders2) /\ IsFiniteSet(Adders2')
    /\ Cardinality(Adders2) \in Nat /\ Cardinality(Adders2') \in Nat
<1>1. Adders2 \in SUBSET Clients /\ Adders2' \in SUBSET Clients
  BY DEF Adders2
<1>2. Cardinality(Workers) \in Nat \ {0}
  BY PoolsAssumption, FS_EmptySet, FS_CardinalityType
<1> QED BY <1>1, <1>2, PoolsAssumption, FS_Subset, FS_CardinalityType

LEMMA Init2 == P2!Init => Inv2
<1> SUFFICES ASSUME P2!Init PROVE Inv2
  OBVIOUS
<1> USE PoolsAssumption DEF P2!Init, P2!Threads
<1>1. P2!TypeOK
  <2>1. task \in Nat /\ initnum \in Nat /\ added \in 0 .. MaxAdded /\ ran \in Nat
    OBVIOUS
  <2>2. isEmpty \in BOOLEAN /\ isFull \in BOOLEAN /\ done \in BOOLEAN
    OBVIOUS
  <2>3. pc2 \in [P2!Threads -> {"new", "idle", "add", "check", "take", "run", "exited"}]
    OBVIOUS
  <2>4. \A w \in Workers : pc2[w] = "run" <=> _mutex = w
    OBVIOUS
  <2> QED BY <2>1, <2>2, <2>3, <2>4 DEF P2!TypeOK
<1>2. Adders2 = {} /\ Cardinality(Adders2) = 0
  BY FS_EmptySet DEF Adders2
<1>3. Frame2
  BY <1>2 DEF Frame2
<1> QED BY <1>1, <1>3 DEF Inv2, P2!FlagsExact

LEMMA Step2 == Inv2 /\ [P2!Next]_p2Vars => Inv2'
<1> SUFFICES ASSUME Inv2, [P2!Next]_p2Vars PROVE Inv2'
  OBVIOUS
<1> USE PoolsAssumption, Finite2
    DEF Inv2, P2!TypeOK, P2!Threads, Frame2, P2!FlagsExact, P2!Free, P2!Started
<1>1. CASE P2!Start
  <2>1. Adders2' = Adders2
    BY <1>1 DEF P2!Start, Adders2
  <2> QED BY <1>1, <2>1, SameCardinality DEF P2!Start
<1>2. ASSUME NEW c \in Clients, P2!AddCall(c) PROVE Inv2'
  <2>1. Adders2' = Adders2 \cup {c} /\ c \notin Adders2
    BY <1>2 DEF P2!AddCall, Adders2
  <2>2. Cardinality(Adders2') = Cardinality(Adders2) + 1
    BY <2>1, OneMore
  <2>3. added + Cardinality(Adders2) < MaxAdded
    BY <1>2, SameCardinality DEF P2!AddCall, Adders2
  <2> QED BY <1>2, <2>2, <2>3 DEF P2!AddCall
<1>3. ASSUME NEW c \in Clients, P2!AddTask(c) PROVE Inv2'
  <2>1. Adders2 = Adders2' \cup {c} /\ c \notin Adders2'
    BY <1>3 DEF P2!AddTask, Adders2
  <2>2. Cardinality(Adders2) = Cardinality(Adders2') + 1
    BY <2>1, OneMore
  <2>3. cond' \subseteq cond
    BY <1>3 DEF P2!AddTask, P2!WakeOne
  <2>4. \A w \in Workers : pc2[w] # "new"
    BY <1>3 DEF P2!AddTask
  <2>5. P2!TypeOK'
    <3>1. isEmpty' \in BOOLEAN /\ isFull' \in BOOLEAN /\ done' \in BOOLEAN
      BY <1>3, Zenon DEF P2!AddTask
    <3>2. added' \in 0 .. MaxAdded /\ task' \in Nat
      BY <1>3, <2>2 DEF P2!AddTask
    <3>3. pc2' \in [P2!Threads -> {"new", "idle", "add", "check", "take", "run", "exited"}]
          /\ \A w \in Workers : pc2'[w] = "run" <=> _mutex' = w
      BY <1>3 DEF P2!AddTask
    <3> QED BY <1>3, <2>3, <3>1, <3>2, <3>3 DEF P2!AddTask
  <2>6. Frame2'
    BY <1>3, <2>2, <2>4 DEF P2!AddTask
  <2>7. P2!FlagsExact'
    <3>1. ~isFull /\ (isFull' <=> task + 1 = initnum) /\ ~isEmpty'
      BY <1>3, Zenon DEF P2!AddTask
    <3>2. task' = task + 1 /\ initnum' = initnum
      BY <1>3 DEF P2!AddTask
    <3> QED BY <3>1, <3>2
  <2> QED BY <2>5, <2>6, <2>7
<1>4. ASSUME NEW w \in Workers, P2!CheckDone(w) \/ P2!RunTask(w) PROVE Inv2'
  <2>1. Adders2' = Adders2
    BY <1>4 DEF P2!CheckDone, P2!RunTask, Adders2
  <2>2. cond' \subseteq cond
    BY <1>4 DEF P2!CheckDone, P2!RunTask, P2!WakeOne
  <2>3. P2!TypeOK'
    BY <1>4, <2>2 DEF P2!CheckDone, P2!RunTask
  <2>4. Frame2'
    BY <1>4, <2>1 DEF P2!CheckDone, P2!RunTask
  <2>5. P2!FlagsExact'
    BY <1>4 DEF P2!CheckDone, P2!RunTask
  <2> QED BY <2>3, <2>4, <2>5
<1>5. ASSUME NEW w \in Workers, P2!Take(w) PROVE Inv2'
  <2>1. Adders2' = Adders2
    BY <1>5 DEF P2!Take, Adders2
  <2>2. task \in Nat \ {0} /\ task' = task - 1 /\ initnum' = initnum
    BY <1>5 DEF P2!Take
  <2>3. P2!TypeOK'
    <3>1. isEmpty' \in BOOLEAN /\ isFull' \in BOOLEAN /\ done' \in BOOLEAN
      BY <1>5, Zenon DEF P2!Take
    <3>2. pc2' \in [P2!Threads -> {"new", "idle", "add", "check", "take", "run", "exited"}]
          /\ \A v \in Workers : pc2'[v] = "run" <=> _mutex' = v
      BY <1>5 DEF P2!Take
    <3> QED BY <1>5, <2>2, <3>1, <3>2 DEF P2!Take
  <2>4. Frame2'
    BY <1>5, <2>1 DEF P2!Take
  <2>5. P2!FlagsExact'
    <3>1. (isEmpty' <=> task - 1 = 0) /\ ~isFull'
      BY <1>5, Zenon DEF P2!Take
    <3> QED BY <2>2, <3>1
  <2> QED BY <2>3, <2>4, <2>5
<1>6. CASE cond' \subseteq P2!Threads /\ finish' \in {"no", "joining"}
           /\ UNCHANGED <<task, isEmpty, isFull, initnum, _mutex, pc2, done, added, ran>>
  <2>1. Adders2' = Adders2
    BY <1>6 DEF Adders2
  <2> QED BY <1>6, <2>1
<1>7. ASSUME NEW x \in P2!Threads, P2!AddWait(x) \/ P2!TakeWait(x) PROVE Inv2'
  BY <1>6, <1>7 DEF P2!AddWait, P2!TakeWait
<1>8. CASE P2!Spurious \/ P2!FinishCall
  BY <1>6, <1>8 DEF P2!Spurious, P2!SpuriousWake, P2!FinishCall
<1>9. CASE UNCHANGED p2Vars
  BY <1>6, <1>9 DEF p2Vars
<1> QED BY <1>1, <1>2, <1>3, <1>4, <1>5, <1>7, <1>8, <1>9 DEF P2!Next, P2!WorkerStep, P2!ClientStep

-----------------------------------------------------------------------------
(* The suite. *)

PoolsInv == Inv1 /\ Inv2

\* A behaviour runs one of the pools; the other stays as it was made.
LEMMA PoolsInductive ==
    /\ Init => PoolsInv
    /\ PoolsInv /\ [Next]_allVars => PoolsInv'
<1>1. Init => PoolsInv
  BY Init1, Init2 DEF Init, PoolsInv
<1>2. ASSUME PoolsInv, [Next]_allVars PROVE PoolsInv'
  <2>1. [P1!Next]_p1Vars
    BY <1>2 DEF Next, Only2, allVars, p1Vars
  <2>2. [P2!Next]_p2Vars
    BY <1>2 DEF Next, Only1, allVars, p2Vars
  <2> QED BY <1>2, <2>1, <2>2, Step1, Step2 DEF PoolsInv
<1> QED BY <1>1, <1>2

\* threadPool_1: requests are processed one at a time, in the order of the append() calls,
\* whatever the workers, the clients and the destructor do.
THEOREM ProcessedInOrderHolds == Spec => []ProcessedInOrder
<1>1. PoolsInv => ProcessedInOrder
  BY Sound1 DEF PoolsInv
<1> QED BY <1>1, PoolsInductive, PTL DEF Spec

\* threadPool_1: until the pool is stopped, while a worker sleeps, every queued request has
\* a worker that is awake or a notify_one() to come.
THEOREM QueuedTaskHasWorkerHolds == Spec => []QueuedTaskHasWorker
<1>1. PoolsInv => QueuedTaskHasWorker
  BY DEF PoolsInv, Inv1, QueuedTaskHasWorker
<1> QED BY <1>1, PoolsInductive, PTL DEF Spec

\* threadPool_2: isEmpty and isFull say what the queue says, and the queue never holds more
\* than initnum tasks, before start() and after it.
THEOREM FlagsExactHolds == Spec => []FlagsExact
<1>1. PoolsInv => FlagsExact
  BY DEF PoolsInv, Inv2, FlagsExact
<1> QED BY <1>1, PoolsInductive, PTL DEF Spec

=============================================================================
