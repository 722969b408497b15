-------------------------- MODULE ThreadPoolProofs --------------------------
(***************************************************************************)
(* TLAPS proofs about ThreadPool, for any finite non-empty set of workers   *)
(* and any sets of clients and tasks.                                       *)
(***************************************************************************)
EXTENDS ThreadPool, SharedLemmas

\* stop is raised by the destructor only, workers leave a stopped and drained
\* pool only, and only threads in the worker loop sleep on the condition.
Phases ==
    /\ stop <=> dtor # "alive"
    /\ \A w \in condition : pc[w] = "acquire"
    /\ \A w \in Workers : pc[w] = "exited" => stop /\ tasks = <<>>
    /\ dtor = "gone" => \A w \in Workers : pc[w] = "exited"

\* The inductive invariant.
IInv == TypeOK /\ Phases /\ StopWakesAll /\ FifoOnce /\ StartedAccounted

-----------------------------------------------------------------------------
\* Initially everything is empty, so every part of the invariant holds.
LEMMA InitInv == Init => IInv
<1> SUFFICES ASSUME Init PROVE IInv
  OBVIOUS
<1>1. TypeOK
  <2>1. \A x \in Threads : pc[x] = IF x \in Workers THEN "acquire" ELSE "call"
    BY DEF Init
  <2>2. pc \in [Threads -> {"acquire", "run", "call", "notify", "exited"}]
    BY DEF Init
  <2>3. /\ \A c \in Clients : pc[c] = "call"
        /\ \A w \in Workers : pc[w] = "acquire"
    BY <2>1, PoolAssumption DEF Threads
  <2>4. /\ task \in [Workers -> Tasks \cup {NoTask}]
        /\ \A w \in Workers : task[w] = NoTask
    BY DEF Init
  <2>5. stop \in BOOLEAN
    BY DEF Init
  <2>6. /\ tasks \in Seq(Tasks) /\ accepted \in Seq(Tasks) /\ started \in Seq(Tasks)
        /\ condition \subseteq Workers /\ rejected \subseteq Tasks
        /\ finished \subseteq Tasks /\ dtor = "alive"
    BY EmptySeq DEF Init
  <2> QED BY <2>2, <2>3, <2>4, <2>5, <2>6 DEF TypeOK
<1>2. Phases /\ StopWakesAll
  BY DEF Init, Phases, StopWakesAll, Threads
<1>3. FifoOnce
  BY DEF Init, FifoOnce
<1>4. StartedAccounted
  BY DEF Init, StartedAccounted, Running, ToSet, Threads
<1> QED BY <1>1, <1>2, <1>3, <1>4 DEF IInv

\* Type correctness is preserved by every step of the pool.
LEMMA TypeStep == TypeOK /\ [Next]_vars => TypeOK'
<1> SUFFICES ASSUME TypeOK, [Next]_vars PROVE TypeOK'
  OBVIOUS
<1> USE PoolAssumption DEF TypeOK, Threads
<1>1. ASSUME NEW c \in Threads, NEW t \in Tasks, Enqueue(c, t) PROVE TypeOK'
  BY <1>1 DEF Enqueue, MayCall
<1>2. ASSUME NEW c \in Threads, NEW t \in Tasks, EnqueueThrows(c, t) PROVE TypeOK'
  BY <1>2 DEF EnqueueThrows
<1>3. ASSUME NEW c \in Threads, EnqueueNotify(c) PROVE TypeOK'
  BY <1>3 DEF EnqueueNotify, WakeOne
<1>4. ASSUME NEW w \in Workers, WorkerStep(w) PROVE TypeOK'
  <2>1. CASE WorkerWait(w)
    BY <2>1 DEF WorkerWait
  <2>2. CASE WorkerExit(w)
    BY <2>2 DEF WorkerExit, AtLock
  <2>3. CASE WorkerTake(w)
    <3>1. Head(tasks) \in Tasks /\ Tail(tasks) \in Seq(Tasks)
      BY <2>3, HeadTailProperties DEF WorkerTake
    <3>2. Head(tasks) # NoTask
      BY <3>1
    <3>3. started' \in Seq(Tasks)
      BY <2>3, <3>1, AppendProperties DEF WorkerTake
    <3>4. task' = [task EXCEPT ![w] = Head(tasks)] /\ pc' = [pc EXCEPT ![w] = "run"]
      BY <2>3 DEF WorkerTake
    <3>5. \A v \in Workers : pc'[v] \in {"run", "notify"} <=> task'[v] # NoTask
      BY <3>2, <3>4
    <3>6. /\ pc' \in [Threads -> {"acquire", "run", "call", "notify", "exited"}]
          /\ \A c \in Clients : pc'[c] \in {"call", "notify"}
          /\ \A v \in Workers : pc'[v] \in {"acquire", "run", "notify", "exited"}
      BY <3>4
    <3> QED BY <2>3, <3>1, <3>3, <3>4, <3>5, <3>6 DEF WorkerTake
  <2>4. CASE WorkerFinish(w)
    BY <2>4 DEF WorkerFinish
  <2> QED BY <1>4, <2>1, <2>2, <2>3, <2>4 DEF WorkerStep
<1>5. CASE Spurious
  BY <1>5 DEF Spurious, SpuriousWake
<1>6. CASE DtorStop
  BY <1>6 DEF DtorStop
<1>7. CASE DtorNotify
  BY <1>7 DEF DtorNotify, WakeAll
<1>8. CASE DtorJoin
  BY <1>8 DEF DtorJoin
<1>9. CASE UNCHANGED vars
  BY <1>9 DEF vars
<1> QED
  BY <1>1, <1>2, <1>3, <1>4, <1>5, <1>6, <1>7, <1>8, <1>9 DEF Next, Terminated

\* The phases of the destructor and of the workers stay consistent, and after
\* notify_all() nobody sleeps.
LEMMA PhasesStep ==
    TypeOK /\ Phases /\ StopWakesAll /\ [Next]_vars => Phases' /\ StopWakesAll'
<1> SUFFICES ASSUME TypeOK, Phases, StopWakesAll, [Next]_vars
             PROVE  Phases' /\ StopWakesAll'
  OBVIOUS
<1> USE PoolAssumption DEF TypeOK, Threads, Phases, StopWakesAll
<1>1. ASSUME NEW c \in Threads, NEW t \in Tasks, Enqueue(c, t)
      PROVE Phases' /\ StopWakesAll'
  BY <1>1 DEF Enqueue, MayCall
<1>2. ASSUME NEW c \in Threads, NEW t \in Tasks, EnqueueThrows(c, t)
      PROVE Phases' /\ StopWakesAll'
  BY <1>2 DEF EnqueueThrows
<1>3. ASSUME NEW c \in Threads, EnqueueNotify(c) PROVE Phases' /\ StopWakesAll'
  <2>1. condition' \subseteq condition
    BY <1>3 DEF EnqueueNotify, WakeOne
  <2> QED BY <1>3, <2>1 DEF EnqueueNotify
<1>4. ASSUME NEW w \in Workers, WorkerStep(w) PROVE Phases' /\ StopWakesAll'
  <2>1. CASE WorkerWait(w)
    BY <2>1 DEF WorkerWait, AtLock
  <2>2. CASE WorkerExit(w)
    BY <2>2 DEF WorkerExit, AtLock
  <2>3. CASE WorkerTake(w)
    BY <2>3 DEF WorkerTake, AtLock
  <2>4. CASE WorkerFinish(w)
    BY <2>4 DEF WorkerFinish
  <2> QED BY <1>4, <2>1, <2>2, <2>3, <2>4 DEF WorkerStep
<1>5. CASE Spurious
  BY <1>5 DEF Spurious, SpuriousWake
<1>6. CASE DtorStop
  BY <1>6 DEF DtorStop
<1>7. CASE DtorNotify
  BY <1>7 DEF DtorNotify, WakeAll
<1>8. CASE DtorJoin
  BY <1>8 DEF DtorJoin
<1>9. CASE UNCHANGED vars
  BY <1>9 DEF vars
<1> QED
  BY <1>1, <1>2, <1>3, <1>4, <1>5, <1>6, <1>7, <1>8, <1>9 DEF Next, Terminated

\* No step takes a task out of order, twice, or accepts one twice.
LEMMA FifoStep == TypeOK /\ FifoOnce /\ [Next]_vars => FifoOnce'
<1> SUFFICES ASSUME TypeOK, FifoOnce, [Next]_vars PROVE FifoOnce'
  OBVIOUS
<1>1. ASSUME NEW c \in Threads, NEW t \in Tasks, Enqueue(c, t) PROVE FifoOnce'
  <2>1. /\ tasks' = Append(tasks, t) /\ accepted' = Append(accepted, t)
        /\ started' = started
        /\ \A i \in DOMAIN accepted : accepted[i] # t
    BY <1>1 DEF Enqueue, Submitted, ToSet
  <2>2. accepted' = started' \o tasks'
    BY <2>1 DEF TypeOK, FifoOnce
  <2>3. /\ DOMAIN accepted' = 1 .. Len(accepted) + 1
        /\ accepted'[Len(accepted) + 1] = t
        /\ \A i \in 1 .. Len(accepted) : accepted'[i] = accepted[i]
    BY <2>1, AppendProperties DEF TypeOK
  <2>4. \A i, j \in DOMAIN accepted' : accepted'[i] = accepted'[j] => i = j
    <3>1. DOMAIN accepted = 1 .. Len(accepted) /\ Len(accepted) \in Nat
      BY DEF TypeOK
    <3>2. \A i, j \in 1 .. Len(accepted) : accepted[i] = accepted[j] => i = j
      BY <3>1 DEF FifoOnce
    <3> SUFFICES ASSUME NEW i \in DOMAIN accepted', NEW j \in DOMAIN accepted',
                        accepted'[i] = accepted'[j]
                 PROVE  i = j
      OBVIOUS
    <3>3. CASE i \in 1 .. Len(accepted) /\ j \in 1 .. Len(accepted)
      BY <2>3, <3>2, <3>3
    <3>4. CASE i = Len(accepted) + 1 \/ j = Len(accepted) + 1
      BY <2>1, <2>3, <3>1, <3>4
    <3> QED BY <2>3, <3>1, <3>3, <3>4
  <2> QED BY <2>2, <2>4 DEF FifoOnce
<1>2. ASSUME NEW w \in Workers, WorkerTake(w) PROVE FifoOnce'
  <2>1. /\ tasks # <<>> /\ tasks' = Tail(tasks) /\ started' = Append(started, Head(tasks))
        /\ accepted' = accepted
    BY <1>2 DEF WorkerTake
  <2>2. Append(started, Head(tasks)) \o Tail(tasks) = started \o tasks
    <3>1. started \in Seq(Tasks) /\ tasks \in Seq(Tasks) /\ tasks # <<>>
      BY <2>1 DEF TypeOK
    <3> QED BY <3>1, MoveHead, Zenon
  <2> QED BY <2>1, <2>2 DEF FifoOnce
<1>3. CASE UNCHANGED <<tasks, accepted, started>>
  BY <1>3 DEF FifoOnce
<1> QED
  BY <1>1, <1>2, <1>3 DEF Next, vars, Terminated, EnqueueThrows, EnqueueNotify,
     WorkerStep, WorkerWait, WorkerExit, WorkerFinish, Spurious, DtorStop,
     DtorNotify, DtorJoin

\* A taken task stays with one worker until it has finished.
LEMMA StartedStep ==
    TypeOK /\ FifoOnce /\ StartedAccounted /\ [Next]_vars => StartedAccounted'
<1> SUFFICES ASSUME TypeOK, FifoOnce, StartedAccounted, [Next]_vars
             PROVE  StartedAccounted'
  OBVIOUS
<1>1. ASSUME NEW w \in Workers, WorkerTake(w) PROVE StartedAccounted'
  <2> DEFINE h == Head(tasks)
  <2>1. /\ tasks # <<>> /\ started' = Append(started, h) /\ finished' = finished
        /\ task' = [task EXCEPT ![w] = h] /\ task[w] = NoTask
    BY <1>1 DEF WorkerTake, AtLock, TypeOK
  <2>2. h \in Tasks /\ h # NoTask /\ h = tasks[1] /\ Len(tasks) >= 1
    BY <2>1, PoolAssumption, HeadTailProperties DEF TypeOK
  <2>3. /\ DOMAIN started' = 1 .. Len(started) + 1
        /\ started'[Len(started) + 1] = h
        /\ \A i \in 1 .. Len(started) : started'[i] = started[i]
    BY <2>1, <2>2, AppendProperties DEF TypeOK
  <2>4. ToSet(started)' = ToSet(started) \cup {h}
    <3>1. \A i \in 1 .. Len(started) : i \in DOMAIN started /\ i \in DOMAIN started'
      BY <2>3 DEF TypeOK
    <3>2. \A i \in DOMAIN started' : i \in DOMAIN started \/ i = Len(started) + 1
      BY <2>3 DEF TypeOK
    <3>3. Len(started) + 1 \in DOMAIN started'
      BY <2>3 DEF TypeOK
    <3>4. DOMAIN started = 1 .. Len(started)
      BY DEF TypeOK
    <3> QED BY <3>1, <3>2, <3>3, <3>4, <2>3 DEF ToSet
  <2>5. h \notin ToSet(started)
    <3> SUFFICES ASSUME NEW i \in DOMAIN started, started[i] = h PROVE FALSE
      BY DEF ToSet
    <3> DEFINE k == Len(started) + 1
    <3>1. i \in 1 .. Len(started) /\ Len(started) \in Nat /\ Len(tasks) \in Nat
      BY DEF TypeOK
    <3>2. /\ Len(accepted) = Len(started) + Len(tasks)
          /\ accepted[i] = started[i] /\ accepted[k] = tasks[1]
      <4>1. i \in 1 .. Len(started) + Len(tasks) /\ k \in 1 .. Len(started) + Len(tasks)
            /\ k - Len(started) = 1 /\ ~(k <= Len(started)) /\ i <= Len(started)
        BY <3>1, <2>2
      <4> QED BY <4>1, ConcatProperties DEF TypeOK, FifoOnce
    <3>3. i \in DOMAIN accepted /\ k \in DOMAIN accepted /\ i # k
      BY <3>1, <3>2, <2>2 DEF TypeOK
    <3> QED BY <3>2, <3>3, <2>2 DEF FifoOnce
  <2>6. Running' = Running \cup {h}
    BY <2>1, <2>2 DEF Running, TypeOK
  <2>7. \A v \in Workers \ {w} : task'[v] # h /\ task'[v] = task[v]
    BY <2>1, <2>2, <2>5 DEF StartedAccounted, Running, TypeOK
  <2>8. h \notin finished /\ task'[w] = h
    BY <2>1, <2>5 DEF StartedAccounted, TypeOK
  <2> QED BY <2>1, <2>4, <2>6, <2>7, <2>8 DEF StartedAccounted
<1>2. ASSUME NEW w \in Workers, WorkerFinish(w) PROVE StartedAccounted'
  <2>1. /\ task' = [task EXCEPT ![w] = NoTask] /\ task[w] # NoTask
        /\ finished' = finished \cup {task[w]} /\ started' = started
    BY <1>2 DEF WorkerFinish, TypeOK
  <2>2. finished' \cup Running' = finished \cup Running
    BY <2>1 DEF Running, TypeOK
  <2>3. \A v \in Workers \ {w} : task'[v] = task[v] /\ task[v] # task[w]
    BY <2>1 DEF StartedAccounted, TypeOK
  <2>4. task'[w] = NoTask
    BY <2>1 DEF TypeOK
  <2> QED BY <2>1, <2>2, <2>3, <2>4 DEF StartedAccounted, ToSet
<1>3. CASE UNCHANGED <<task, finished, started>>
  BY <1>3 DEF StartedAccounted, Running, ToSet
<1> QED
  BY <1>1, <1>2, <1>3 DEF Next, vars, Terminated, Enqueue, EnqueueThrows,
     EnqueueNotify, WorkerStep, WorkerWait, WorkerExit, Spurious, DtorStop,
     DtorNotify, DtorJoin

-----------------------------------------------------------------------------
\* The invariant holds in every reachable state.
LEMMA Invariance == Spec => []IInv
<1>1. IInv /\ [Next]_vars => IInv'
  BY TypeStep, PhasesStep, FifoStep, StartedStep DEF IInv
<1> QED BY InitInv, <1>1, PTL DEF Spec

\* Every variable of the pool keeps its type; a worker holds a task exactly
\* while it runs one.
THEOREM TypeCorrect == Spec => []TypeOK
<1>1. IInv => TypeOK
  BY DEF IInv
<1> QED BY Invariance, <1>1, PTL

\* The workers of ThreadPool.cpp take the tasks enqueue() accepted in the order
\* of submission and each of them once, whatever the number of threads.
THEOREM TakenInOrderOnce == Spec => []FifoOnce
<1>1. IInv => FifoOnce
  BY DEF IInv
<1> QED BY Invariance, <1>1, PTL

\* No worker sleeps on the condition after the destructor's notify_all().
THEOREM NobodySleepsAfterStop == Spec => []StopWakesAll
<1>1. IInv => StopWakesAll
  BY DEF IInv
<1> QED BY Invariance, <1>1, PTL

\* A task is held by one worker or has finished, never both or twice.
THEOREM TasksAccounted == Spec => []StartedAccounted
<1>1. IInv => StartedAccounted
  BY DEF IInv
<1> QED BY Invariance, <1>1, PTL

\* When ~ThreadPool() has joined its workers, every accepted task has finished.
THEOREM DestructorDrains == Spec => []DrainedOnJoin
<1>1. IInv => DrainedOnJoin
  <2> SUFFICES ASSUME IInv, dtor = "gone"
               PROVE  tasks = <<>> /\ ToSet(accepted) = finished
    BY DEF DrainedOnJoin
  <2>1. \A w \in Workers : pc[w] = "exited" /\ task[w] = NoTask
    BY DEF IInv, Phases, TypeOK
  <2>2. tasks = <<>>
    BY <2>1, PoolAssumption DEF IInv, Phases
  <2>3. Running = {}
    BY <2>1 DEF Running
  <2>4. accepted = started
    BY <2>2, ConcatEmptySeq DEF IInv, FifoOnce, TypeOK
  <2> QED BY <2>2, <2>3, <2>4 DEF IInv, StartedAccounted
<1> QED BY Invariance, <1>1, PTL


-----------------------------------------------------------------------------
\* The workers about to look at the queue and the threads that still have to notify.
Lookers == {w \in Workers : AtLock(w)}
Notifiers == {c \in Threads : pc[c] = "notify"}

\* Both sets are finite.
LEMMA FiniteThreads ==
    /\ \A S \in SUBSET Threads : IsFiniteSet(S) /\ Cardinality(S) \in Nat
    /\ Lookers \in SUBSET Threads /\ Lookers' \in SUBSET Threads
    /\ Notifiers \in SUBSET Threads /\ Notifiers' \in SUBSET Threads
<1>1. IsFiniteSet(Threads)
  BY PoolAssumption, FS_Union DEF Threads
<1> QED BY <1>1, FS_Subset, FS_CardinalityType DEF Lookers, Notifiers, Threads

\* Every step that queues a task leaves a notify to come, every step that uses a notify up
\* leaves a worker awake, and a worker goes to sleep only at an empty queue.
LEMMA WakerStep ==
    TypeOK /\ Phases /\ QueuedTaskHasWaker /\ [Next]_vars => QueuedTaskHasWaker'
<1> SUFFICES ASSUME TypeOK, Phases, QueuedTaskHasWaker, [Next]_vars PROVE QueuedTaskHasWaker'
  OBVIOUS
<1>0. /\ tasks \in Seq(Tasks) /\ condition \subseteq Workers /\ Len(tasks) \in Nat
      /\ pc \in [Threads -> {"acquire", "run", "call", "notify", "exited"}]
      /\ \A w \in condition : pc[w] = "acquire"
      /\ Workers \subseteq Threads /\ Workers \cap Clients = {}
      /\ condition # {} => Len(tasks) <= Cardinality(Lookers) + Cardinality(Notifiers)
  BY PoolAssumption DEF TypeOK, Phases, QueuedTaskHasWaker, Lookers, Notifiers, Threads
<1>1. /\ Cardinality(Lookers) \in Nat /\ Cardinality(Lookers') \in Nat
      /\ Cardinality(Notifiers) \in Nat /\ Cardinality(Notifiers') \in Nat
  BY FiniteThreads
<1> SUFFICES ASSUME condition' # {}
             PROVE  Len(tasks') <= Cardinality(Lookers') + Cardinality(Notifiers')
  BY DEF QueuedTaskHasWaker, Lookers, Notifiers, AtLock, Threads
<1>2. ASSUME NEW c \in Threads, NEW t \in Tasks, Enqueue(c, t)
      PROVE  Len(tasks') <= Cardinality(Lookers') + Cardinality(Notifiers')
  <2>1. Len(tasks') = Len(tasks) + 1 /\ condition' = condition
    BY <1>0, <1>2 DEF Enqueue
  <2>2. pc[c] \in {"call", "run"} /\ pc' = [pc EXCEPT ![c] = "notify"]
    BY <1>2 DEF Enqueue, MayCall
  <2>3. Lookers' = Lookers /\ Notifiers' = Notifiers \cup {c} /\ c \notin Notifiers
    BY <1>0, <2>1, <2>2 DEF Lookers, Notifiers, AtLock
  <2>4. Cardinality(Notifiers') = Cardinality(Notifiers) + 1
    BY <2>3, FiniteThreads, OneMore
  <2> QED BY <1>0, <1>1, <2>1, <2>3, <2>4
<1>3. ASSUME NEW c \in Threads, EnqueueNotify(c)
      PROVE  Len(tasks') <= Cardinality(Lookers') + Cardinality(Notifiers')
  <2>1. condition # {}
    BY <1>3 DEF EnqueueNotify, WakeOne
  <2>2. PICK w \in condition : condition' = condition \ {w}
    BY <1>3, <2>1 DEF EnqueueNotify, WakeOne
  <2>3. pc[c] = "notify" /\ pc' = [pc EXCEPT ![c] = IF c \in Workers THEN "run" ELSE "call"]
        /\ tasks' = tasks /\ c # w
    BY <1>0, <1>3 DEF EnqueueNotify
  <2>4. Lookers' = Lookers \cup {w} /\ w \notin Lookers
    BY <1>0, <2>2, <2>3 DEF Lookers, AtLock
  <2>5. Notifiers = Notifiers' \cup {c} /\ c \notin Notifiers'
    BY <1>0, <2>3 DEF Notifiers
  <2>6. Cardinality(Lookers') = Cardinality(Lookers) + 1
        /\ Cardinality(Notifiers) = Cardinality(Notifiers') + 1
    BY <2>4, <2>5, FiniteThreads, OneMore
  <2> QED BY <1>0, <1>1, <2>1, <2>3, <2>6
<1>4. ASSUME NEW w \in Workers, WorkerWait(w) \/ WorkerExit(w)
      PROVE  Len(tasks') <= Cardinality(Lookers') + Cardinality(Notifiers')
  <2>1. Len(tasks') = 0
    BY <1>4 DEF WorkerWait, WorkerExit
  <2> QED BY <1>1, <2>1
<1>5. ASSUME NEW w \in Workers, WorkerTake(w)
      PROVE  Len(tasks') <= Cardinality(Lookers') + Cardinality(Notifiers')
  <2>1. tasks # <<>> /\ tasks' = Tail(tasks) /\ condition' = condition /\ pc[w] = "acquire"
        /\ w \notin condition /\ pc' = [pc EXCEPT ![w] = "run"]
    BY <1>5 DEF WorkerTake, AtLock
  <2>2. Len(tasks') = Len(tasks) - 1
    BY <1>0, <2>1, HeadTailProperties
  <2>3. Lookers = Lookers' \cup {w} /\ w \notin Lookers' /\ Notifiers' = Notifiers
    BY <1>0, <2>1 DEF Lookers, Notifiers, AtLock
  <2>4. Cardinality(Lookers) = Cardinality(Lookers') + 1
    BY <2>3, FiniteThreads, OneMore
  <2> QED BY <1>0, <1>1, <2>1, <2>2, <2>3, <2>4
<1>6. ASSUME NEW w \in Workers, WorkerFinish(w)
      PROVE  Len(tasks') <= Cardinality(Lookers') + Cardinality(Notifiers')
  <2>1. tasks' = tasks /\ condition' = condition /\ pc[w] = "run"
        /\ pc' = [pc EXCEPT ![w] = "acquire"]
    BY <1>6 DEF WorkerFinish
  <2>2. Lookers' = Lookers \cup {w} /\ w \notin Lookers /\ Notifiers' = Notifiers
    BY <1>0, <2>1 DEF Lookers, Notifiers, AtLock
  <2>3. Cardinality(Lookers') = Cardinality(Lookers) + 1
    BY <2>2, FiniteThreads, OneMore
  <2> QED BY <1>0, <1>1, <2>1, <2>2, <2>3
<1>7. CASE Spurious
  <2>1. PICK w \in condition : condition' = condition \ {w}
    BY <1>7 DEF Spurious, SpuriousWake
  <2>2. tasks' = tasks /\ pc' = pc
    BY <1>7 DEF Spurious
  <2>3. Lookers' = Lookers \cup {w} /\ w \notin Lookers /\ Notifiers' = Notifiers
    BY <1>0, <2>1, <2>2 DEF Lookers, Notifiers, AtLock
  <2>4. Cardinality(Lookers') = Cardinality(Lookers) + 1
    BY <2>3, FiniteThreads, OneMore
  <2> QED BY <1>0, <1>1, <2>1, <2>2, <2>3, <2>4
<1>8. CASE UNCHANGED <<tasks, condition, pc>>
  BY <1>0, <1>8 DEF Lookers, Notifiers, AtLock
<1> QED
  BY <1>2, <1>3, <1>4, <1>5, <1>6, <1>7, <1>8
  DEF Next, vars, Terminated, EnqueueThrows, WorkerStep, DtorStop, DtorNotify, WakeAll, DtorJoin

\* enqueue() loses no wakeup although it notifies after the unlock: while a worker sleeps
\* every queued task has a worker awake or a notify_one() still to come.
THEOREM EveryTaskHasWaker == Spec => []QueuedTaskHasWaker
<1>1. Init => QueuedTaskHasWaker
  BY DEF Init, QueuedTaskHasWaker
<1>2. IInv => TypeOK /\ Phases
  BY DEF IInv
<1> QED BY <1>1, <1>2, Invariance, WakerStep, PTL DEF Spec

-----------------------------------------------------------------------------
(* The refinement. *)

\* What has been accepted is what has been started and what is queued.
LEMMA AcceptedParts ==
    ASSUME TypeOK, FifoOnce
    PROVE  ToSet(accepted) = ToSet(started) \cup ToSet(tasks)
<1>1. /\ Len(accepted) = Len(started) + Len(tasks)
      /\ \A k \in 1 .. Len(started) + Len(tasks) : accepted[k] =
            IF k <= Len(started) THEN started[k] ELSE tasks[k - Len(started)]
      /\ accepted \in Seq(Tasks) /\ started \in Seq(Tasks) /\ tasks \in Seq(Tasks)
  BY ConcatProperties DEF TypeOK, FifoOnce
<1>2. /\ DOMAIN accepted = 1 .. Len(started) + Len(tasks)
      /\ DOMAIN started = 1 .. Len(started) /\ DOMAIN tasks = 1 .. Len(tasks)
      /\ Len(started) \in Nat /\ Len(tasks) \in Nat
  BY <1>1
<1>3. ASSUME NEW x \in ToSet(accepted) PROVE x \in ToSet(started) \cup ToSet(tasks)
  <2>1. PICK k \in 1 .. Len(started) + Len(tasks) : x = accepted[k]
    BY <1>2, <1>3 DEF ToSet
  <2>2. CASE k <= Len(started)
    <3>1. k \in DOMAIN started /\ x = started[k]
      BY <1>1, <1>2, <2>1, <2>2
    <3> QED BY <3>1 DEF ToSet
  <2>3. CASE ~(k <= Len(started))
    <3>1. k - Len(started) \in 1 .. Len(tasks)
      BY <1>2, <2>1, <2>3
    <3> QED BY <1>1, <1>2, <2>1, <2>3, <3>1 DEF ToSet
  <2> QED BY <2>2, <2>3
<1>4. ASSUME NEW x \in ToSet(started) PROVE x \in ToSet(accepted)
  <2>1. PICK k \in 1 .. Len(started) : x = started[k]
    BY <1>2, <1>4 DEF ToSet
  <2>2. k \in 1 .. Len(started) + Len(tasks) /\ k <= Len(started)
    BY <1>2, <2>1
  <2> QED BY <1>1, <1>2, <2>1, <2>2 DEF ToSet
<1>5. ASSUME NEW x \in ToSet(tasks) PROVE x \in ToSet(accepted)
  <2>1. PICK k \in 1 .. Len(tasks) : x = tasks[k]
    BY <1>2, <1>5 DEF ToSet
  <2> DEFINE n == Len(started) + k
  <2>2. n \in 1 .. Len(started) + Len(tasks) /\ ~(n <= Len(started)) /\ n - Len(started) = k
    BY <1>2, <2>1
  <2> QED BY <1>1, <1>2, <2>1, <2>2 DEF ToSet
<1> QED BY <1>3, <1>4, <1>5

\* The number of running tasks is below the number of workers while one has none.
LEMMA RunningBelow ==
    ASSUME TypeOK, NEW w \in Workers, task[w] = NoTask
    PROVE  Cardinality(Running) < Cardinality(Workers)
<1> DEFINE busy == {v \in Workers : task[v] # NoTask}
<1>1. IsFiniteSet(Workers) /\ Cardinality(Workers) \in Nat
  BY PoolAssumption, FS_CardinalityType
<1>2. IsFiniteSet(Workers \ {w}) /\ Cardinality(Workers \ {w}) = Cardinality(Workers) - 1
  BY <1>1, FS_RemoveElement
<1>3. busy \subseteq Workers \ {w}
  OBVIOUS
<1>4. IsFiniteSet(busy) /\ Cardinality(busy) <= Cardinality(Workers \ {w})
  BY <1>2, <1>3, FS_Subset
<1>5. Cardinality(Running) <= Cardinality(busy) /\ Cardinality(Running) \in Nat
      /\ Cardinality(busy) \in Nat
  <2> DEFINE f == [v \in busy |-> task[v]]
  <2>1. f \in Surjection(busy, Running)
    <3>1. Running = {task[v] : v \in busy}
      BY DEF Running
    <3>2. f \in [busy -> Running] /\ \A x \in Running : \E v \in busy : f[v] = x
      BY <3>1
    <3> QED BY <3>2 DEF Surjection
  <2> QED BY <1>4, <2>1, FS_Surjection, FS_CardinalityType
<1> QED BY <1>1, <1>2, <1>4, <1>5

\* The instance has its own copy of Cardinality; it is the same operator.
LEMMA SameCardinality == \A S : Executor!Cardinality(S) = Cardinality(S)
BY Zenon DEF Executor!Cardinality, Cardinality

\* Every step of the pool is a step of the executor or changes nothing it can see.
LEMMA ExecutorStep ==
    ASSUME IInv, IInv', [Next]_vars PROVE [Executor!Next]_(Executor!execVars)
<1>0. /\ TypeOK /\ Phases /\ FifoOnce /\ StartedAccounted
      /\ Executor!Queued = ToSet(tasks)
  BY DEF IInv, Executor!Queued, ToSet
<1>1. ASSUME NEW c \in Threads, NEW t \in Tasks, Enqueue(c, t) PROVE Executor!Submit(t)
  <2>1. t \notin ToSet(accepted) /\ ~stop /\ tasks' = Append(tasks, t)
        /\ UNCHANGED <<dtor, task, finished>>
    BY <1>1 DEF Enqueue, Submitted
  <2>2. t \notin ToSet(tasks) \cup Running \cup finished
    BY <1>0, <2>1, AcceptedParts DEF StartedAccounted
  <2>3. dtor = "alive"
    BY <1>0, <2>1 DEF Phases
  <2>4. Running' = Running
    BY <2>1 DEF Running
  <2> QED BY <1>0, <2>1, <2>2, <2>3, <2>4 DEF Executor!Submit
<1>2. ASSUME NEW w \in Workers, WorkerTake(w) PROVE Executor!Start
  <2>1. /\ tasks # <<>> /\ tasks' = Tail(tasks) /\ task' = [task EXCEPT ![w] = Head(tasks)]
        /\ UNCHANGED <<dtor, finished>> /\ task[w] = NoTask
    BY <1>0, <1>2 DEF WorkerTake, AtLock, TypeOK
  <2>2. Head(tasks) \in Tasks /\ Head(tasks) # NoTask
    BY <1>0, <2>1, PoolAssumption, HeadTailProperties DEF TypeOK
  <2>3. Running' = Running \cup {Head(tasks)}
    BY <1>0, <2>1, <2>2 DEF Running, TypeOK
  <2>4. Cardinality(Running) < Cardinality(Workers)
    BY <1>0, <2>1, RunningBelow
  <2> QED BY <2>1, <2>3, <2>4, SameCardinality DEF Executor!Start
<1>3. ASSUME NEW w \in Workers, WorkerFinish(w) PROVE \E t \in Tasks : Executor!Complete(t)
  <2>1. /\ task[w] # NoTask /\ task' = [task EXCEPT ![w] = NoTask]
        /\ finished' = finished \cup {task[w]} /\ UNCHANGED <<dtor, tasks>>
    BY <1>0, <1>3 DEF WorkerFinish, TypeOK
  <2>2. task[w] \in Tasks /\ task[w] \in Running
    BY <1>0, <2>1 DEF TypeOK, Running
  <2>3. Running' = Running \ {task[w]}
    BY <1>0, <2>1 DEF Running, TypeOK, StartedAccounted
  <2> QED BY <2>1, <2>2, <2>3 DEF Executor!Complete
<1>4. CASE DtorStop
  <2>1. dtor = "alive" /\ dtor' = "notify" /\ UNCHANGED <<tasks, task, finished>>
    BY <1>4 DEF DtorStop
  <2>2. Running' = Running
    BY <2>1 DEF Running
  <2> QED BY <2>1, <2>2 DEF Executor!Next, Executor!Close
<1>5. CASE DtorJoin
  <2>1. dtor = "join" /\ dtor' = "gone" /\ UNCHANGED <<tasks, task, finished>>
        /\ \A w \in Workers : pc[w] = "exited"
    BY <1>5 DEF DtorJoin
  <2>2. tasks = <<>> /\ Running = {} /\ Running' = {}
    <3>1. \A w \in Workers : task[w] = NoTask
      BY <1>0, <2>1 DEF TypeOK
    <3> QED BY <1>0, <2>1, <3>1, PoolAssumption DEF Phases, Running
  <2> QED BY <2>1, <2>2 DEF Executor!Next, Executor!Return
<1>6. CASE UNCHANGED <<tasks, task, finished>>
           /\ (dtor' = dtor \/ (dtor = "notify" /\ dtor' = "join"))
  <2>1. Running' = Running
    BY <1>6 DEF Running
  <2> QED BY <1>6, <2>1 DEF Executor!execVars
<1> QED
  BY <1>1, <1>2, <1>3, <1>4, <1>5, <1>6
  DEF Next, vars, Terminated, EnqueueThrows, EnqueueNotify, WorkerStep, WorkerWait, WorkerExit,
      Spurious, DtorNotify, Executor!Next

\* The pool of ThreadPool.cpp implements the executor, whatever the number of workers,
\* clients and tasks: tasks start in the order of submission, no more run than there are
\* workers, nothing is accepted after the destructor began, and it returns when all are done.
THEOREM PoolImplementsExecutor == Spec => ImplementsExecutor
<1>1. Init => Executor!Init
  BY DEF Init, Executor!Init, Running
<1>2. IInv /\ IInv' /\ [Next]_vars => [Executor!Next]_(Executor!execVars)
  BY ExecutorStep
<1> QED BY <1>1, <1>2, Invariance, PTL DEF Spec, ImplementsExecutor, Executor!Spec
=============================================================================
