----------------------------- MODULE ThreadPool -----------------------------
(***************************************************************************)
(* The thread pool of cpp/thread/ThreadPool.cpp: workers that drain a task  *)
(* queue guarded by queue_mutex and condition, enqueue() that returns a     *)
(* future, and a destructor that stops, wakes and joins the workers.        *)
(*                                                                         *)
(* tasks and stop are read and written under queue_mutex only, so each      *)
(* critical section is one step; notify_one() in enqueue() and notify_all() *)
(* in the destructor come after the unlock and are steps of their own.      *)
(* enqueue() is called by Clients while the pool is alive and, from inside  *)
(* a running task, by the workers themselves at any time.                   *)
(***************************************************************************)
EXTENDS Naturals, Sequences, FiniteSets, Platform

CONSTANTS Workers,  \* the threads created by the constructor
          Clients,  \* the threads that own or share the pool object
          Tasks,    \* the packaged tasks that may be submitted, each once
          NoTask    \* "task" holds nothing

ASSUME PoolAssumption ==
    /\ IsFiniteSet(Workers) /\ Workers # {}
    /\ IsFiniteSet(Clients)
    /\ Workers \cap Clients = {}
    /\ NoTask \notin Tasks

VARIABLES
    tasks,      \* std::queue of submitted, not yet taken tasks
    stop,       \* set by the destructor
    condition,  \* the workers blocked in condition.wait()
    pc,         \* where each thread is
    task,       \* the worker's local "task"
    dtor,       \* progress of ~ThreadPool()
    accepted,   \* history: tasks enqueue() accepted, in order
    started,    \* history: tasks taken by a worker, in order
    rejected,   \* history: tasks whose enqueue() threw
    finished    \* tasks whose packaged_task has run: their future is ready

vars == <<tasks, stop, condition, pc, task, dtor, accepted, started, rejected,
          finished>>

Threads == Workers \cup Clients
ToSet(s) == {s[i] : i \in DOMAIN s}
Submitted == ToSet(accepted) \cup rejected

TypeOK ==
    /\ tasks \in Seq(Tasks)
    /\ stop \in BOOLEAN
    /\ condition \subseteq Workers
    /\ pc \in [Threads -> {"acquire", "run", "call", "notify", "exited"}]
    /\ \A c \in Clients : pc[c] \in {"call", "notify"}
    /\ \A w \in Workers : pc[w] \in {"acquire", "run", "notify", "exited"}
    /\ task \in [Workers -> Tasks \cup {NoTask}]
    /\ \A w \in Workers : pc[w] \in {"run", "notify"} <=> task[w] # NoTask
    /\ dtor \in {"alive", "notify", "join", "gone"}
    /\ accepted \in Seq(Tasks)
    /\ started \in Seq(Tasks)
    /\ rejected \subseteq Tasks
    /\ finished \subseteq Tasks

\* ThreadPool(size_t threads): every worker is about to lock queue_mutex.
Init ==
    /\ tasks = <<>>
    /\ stop = FALSE
    /\ condition = {}
    /\ pc = [x \in Threads |-> IF x \in Workers THEN "acquire" ELSE "call"]
    /\ task = [w \in Workers |-> NoTask]
    /\ dtor = "alive"
    /\ accepted = <<>>
    /\ started = <<>>
    /\ rejected = {}
    /\ finished = {}

-----------------------------------------------------------------------------
\* A client calls enqueue() while the pool object is alive; a worker calls it
\* from inside the task it is running.
MayCall(c) ==
    \/ c \in Clients /\ pc[c] = "call" /\ dtor = "alive"
    \/ c \in Workers /\ pc[c] = "run"

\* enqueue() on a stopped pool throws std::runtime_error.
EnqueueThrows(c, t) ==
    /\ MayCall(c)
    /\ t \notin Submitted
    /\ stop
    /\ rejected' = rejected \cup {t}
    /\ UNCHANGED <<tasks, stop, condition, pc, task, dtor, accepted, started,
                   finished>>

\* enqueue() pushes the task under the lock and unlocks ...
Enqueue(c, t) ==
    /\ MayCall(c)
    /\ t \notin Submitted
    /\ ~stop
    /\ tasks' = Append(tasks, t)
    /\ accepted' = Append(accepted, t)
    /\ pc' = [pc EXCEPT ![c] = "notify"]
    /\ UNCHANGED <<stop, condition, task, dtor, started, rejected, finished>>

\* Mutant: no notification at all.
EnqueueNotify_Forgotten(c) ==
    /\ pc[c] = "notify"
    /\ pc' = [pc EXCEPT ![c] = IF c \in Workers THEN "run" ELSE "call"]
    /\ UNCHANGED <<tasks, stop, condition, task, dtor, accepted, started, rejected,
                   finished>>

\* Mutant: notifies only when the queue was empty before.
EnqueueNotify_FirstOnly(c) ==
    /\ pc[c] = "notify"
    /\ condition' \in IF Len(tasks) = 1 THEN WakeOne(condition) ELSE {condition}
    /\ pc' = [pc EXCEPT ![c] = IF c \in Workers THEN "run" ELSE "call"]
    /\ UNCHANGED <<tasks, stop, task, dtor, accepted, started, rejected, finished>>

\* Mutant: a worker that submitted from inside a task drops out of that task.
EnqueueNotify_Unwinds(c) ==
    /\ pc[c] = "notify"
    /\ condition' \in WakeOne(condition)
    /\ pc' = [pc EXCEPT ![c] = "call"]
    /\ UNCHANGED <<tasks, stop, task, dtor, accepted, started, rejected, finished>>

\* ... then calls condition.notify_one() and returns the future.
EnqueueNotify(c) ==
    /\ pc[c] = "notify"
    /\ condition' \in WakeOne(condition)
    /\ pc' = [pc EXCEPT ![c] = IF c \in Workers THEN "run" ELSE "call"]
    /\ UNCHANGED <<tasks, stop, task, dtor, accepted, started, rejected, finished>>

-----------------------------------------------------------------------------
\* The worker is about to get queue_mutex: it never waited or has been woken.
AtLock(w) == pc[w] = "acquire" /\ w \notin condition

\* Mutant: the predicate forgets stop.
WorkerWait_NoStop(w) ==
    /\ AtLock(w)
    /\ tasks = <<>>
    /\ condition' = condition \cup {w}
    /\ UNCHANGED <<tasks, stop, pc, task, dtor, accepted, started, rejected,
                   finished>>

\* condition.wait(lock, pred) with a false predicate blocks.
WorkerWait(w) ==
    /\ AtLock(w)
    /\ ~stop /\ tasks = <<>>
    /\ condition' = condition \cup {w}
    /\ UNCHANGED <<tasks, stop, pc, task, dtor, accepted, started, rejected,
                   finished>>

\* Mutant: "if (stop) return;".
WorkerExit_Eager(w) ==
    /\ AtLock(w)
    /\ stop
    /\ pc' = [pc EXCEPT ![w] = "exited"]
    /\ UNCHANGED <<tasks, stop, condition, task, dtor, accepted, started,
                   rejected, finished>>

\* "if (stop && tasks.empty()) return;"
WorkerExit(w) ==
    /\ AtLock(w)
    /\ stop /\ tasks = <<>>
    /\ pc' = [pc EXCEPT ![w] = "exited"]
    /\ UNCHANGED <<tasks, stop, condition, task, dtor, accepted, started,
                   rejected, finished>>

\* Mutant: front() without pop().
WorkerTake_NoPop(w) ==
    /\ AtLock(w)
    /\ tasks # <<>>
    /\ task' = [task EXCEPT ![w] = Head(tasks)]
    /\ started' = Append(started, Head(tasks))
    /\ pc' = [pc EXCEPT ![w] = "run"]
    /\ UNCHANGED <<tasks, stop, condition, dtor, accepted, rejected, finished>>

\* Takes the front task and releases the lock.
WorkerTake(w) ==
    /\ AtLock(w)
    /\ tasks # <<>>
    /\ task' = [task EXCEPT ![w] = Head(tasks)]
    /\ tasks' = Tail(tasks)
    /\ started' = Append(started, Head(tasks))
    /\ pc' = [pc EXCEPT ![w] = "run"]
    /\ UNCHANGED <<stop, condition, dtor, accepted, rejected, finished>>

\* Mutant: the task is taken and dropped without being run.
WorkerFinish_NotRun(w) ==
    /\ pc[w] = "run"
    /\ task' = [task EXCEPT ![w] = NoTask]
    /\ pc' = [pc EXCEPT ![w] = "acquire"]
    /\ UNCHANGED <<tasks, stop, condition, dtor, accepted, started, rejected,
                   finished>>

\* task() returns; packaged_task stores the result (or the exception).
WorkerFinish(w) ==
    /\ pc[w] = "run"
    /\ finished' = finished \cup {task[w]}
    /\ task' = [task EXCEPT ![w] = NoTask]
    /\ pc' = [pc EXCEPT ![w] = "acquire"]
    /\ UNCHANGED <<tasks, stop, condition, dtor, accepted, started, rejected>>

Spurious ==
    /\ condition' \in SpuriousWake(condition)
    /\ UNCHANGED <<tasks, stop, pc, task, dtor, accepted, started, rejected,
                   finished>>

-----------------------------------------------------------------------------
\* ~ThreadPool(): the owner destroys the pool when no client is inside it.
DtorStop ==
    /\ dtor = "alive"
    /\ \A c \in Clients : pc[c] = "call"
    /\ stop' = TRUE
    /\ dtor' = "notify"
    /\ UNCHANGED <<tasks, condition, pc, task, accepted, started, rejected,
                   finished>>

\* Mutant: notify_one() instead of notify_all().
DtorNotify_One ==
    /\ dtor = "notify"
    /\ condition' \in WakeOne(condition)
    /\ dtor' = "join"
    /\ UNCHANGED <<tasks, stop, pc, task, accepted, started, rejected, finished>>

DtorNotify ==
    /\ dtor = "notify"
    /\ condition' = WakeAll(condition)
    /\ dtor' = "join"
    /\ UNCHANGED <<tasks, stop, pc, task, accepted, started, rejected, finished>>

DtorJoin ==
    /\ dtor = "join"
    /\ \A w \in Workers : pc[w] = "exited"
    /\ dtor' = "gone"
    /\ UNCHANGED <<tasks, stop, condition, pc, task, accepted, started, rejected,
                   finished>>

\* The pool object is gone and nothing is left to do.
Terminated == dtor = "gone" /\ UNCHANGED vars

WorkerStep(w) ==
    WorkerWait(w) \/ WorkerExit(w) \/ WorkerTake(w) \/ WorkerFinish(w)

Next ==
    \/ \E c \in Threads, t \in Tasks : Enqueue(c, t) \/ EnqueueThrows(c, t)
    \/ \E c \in Threads : EnqueueNotify(c)
    \/ \E w \in Workers : WorkerStep(w)
    \/ Spurious
    \/ DtorStop \/ DtorNotify \/ DtorJoin
    \/ Terminated

\* Threads are scheduled, queue_mutex is handed out eventually and tasks
\* return; nobody is obliged to call enqueue() or to destroy the pool.
Fairness ==
    /\ \A w \in Workers : WF_vars(WorkerStep(w))
    /\ \A c \in Threads : WF_vars(EnqueueNotify(c))
    /\ WF_vars(DtorNotify) /\ WF_vars(DtorJoin)

Spec == Init /\ [][Next]_vars
FairSpec == Spec /\ Fairness

-----------------------------------------------------------------------------
\* Tasks are taken in submission order, each at most once: what enqueue()
\* accepted is what the workers took followed by what is still queued, and
\* no task was accepted twice.
FifoOnce ==
    /\ accepted = started \o tasks
    /\ \A i, j \in DOMAIN accepted : accepted[i] = accepted[j] => i = j

\* The tasks workers are executing.
Running == {task[w] : w \in {v \in Workers : task[v] # NoTask}}

\* Every started task is in exactly one place: in the hands of one worker or
\* finished (workers move a task out of the queue before they unlock).
StartedAccounted ==
    /\ ToSet(started) = finished \cup Running
    /\ \A w \in Workers :
          task[w] # NoTask =>
             /\ task[w] \notin finished
             /\ \A v \in Workers \ {w} : task[v] # task[w]

\* No lost wakeup: while a worker sleeps, every queued task has a thread that
\* will look at the queue (an awake worker) or a notify_one() still to come.
QueuedTaskHasWaker ==
    condition # {} =>
        Len(tasks) <= Cardinality({w \in Workers : AtLock(w)})
                    + Cardinality({c \in Threads : pc[c] = "notify"})

\* After the destructor's notify_all() no worker is blocked or blocks again,
\* although stop is set before the notification and outside the wait.
StopWakesAll == dtor \in {"join", "gone"} => condition = {}

\* When join() has returned for every worker the queue was drained: every
\* future handed out is ready.
DrainedOnJoin == dtor = "gone" => tasks = <<>> /\ ToSet(accepted) = finished

\* The pool implements the abstract executor: FIFO start order, bounded
\* parallelism, refusal after stop and a destructor that returns only after
\* everything accepted has completed.
Executor == INSTANCE TaskExecutor WITH
    MaxParallel <- Cardinality(Workers),
    phase <- CASE dtor = "alive" -> "open"
               [] dtor \in {"notify", "join"} -> "closed"
               [] OTHER -> "done",
    queue <- tasks,
    running <- Running,
    completed <- finished
ImplementsExecutor == Executor!Spec

\* It also makes the executor's progress: a free worker starts the next task, a started
\* task completes and closing the pool returns; so every future returned by enqueue()
\* becomes ready.
FutureReady ==
    /\ Executor!Fairness
    /\ \A t \in Tasks : t \in ToSet(accepted) ~> t \in finished

\* The destructor returns.
DtorReturns == dtor = "notify" ~> dtor = "gone"

=============================================================================
