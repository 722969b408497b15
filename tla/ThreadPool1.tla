---------------------------- MODULE ThreadPool1 -----------------------------
(***************************************************************************)
(* The thread pool of cpp/base/threadPool_1/threadPool_1.cpp.  A worker     *)
(* reads stop without the lock at the top of its loop, waits for a          *)
(* non-empty queue with a predicate that does not mention stop, and calls   *)
(* process() while it still holds queue_mutex.  The clients are the loop of *)
(* main(): new, append, delete.  A null request is popped and skipped by    *)
(* the same step.                                                           *)
(***************************************************************************)
EXTENDS Naturals, Sequences, FiniteSets, Platform

CONSTANTS Workers, Clients, Tasks, NoTask, Nobody

VARIABLES
    tasks_queue, stop, condition,
    queue_mutex,  \* the worker inside its critical section across steps
    pc,           \* where each thread is
    request,      \* client: its task; worker: the request in process()
    dtor,         \* progress of ~threadPool()
    accepted,     \* history: appended tasks, in order
    processed,    \* history: tasks whose process() returned, in order
    deleted       \* tasks main() has deleted

clientVars == <<accepted, deleted>>
vars == <<tasks_queue, stop, condition, queue_mutex, pc, request, dtor,
          processed, clientVars>>

Threads == Workers \cup Clients
Appended == {accepted[i] : i \in DOMAIN accepted}

TypeOK ==
    /\ tasks_queue \in Seq(Tasks) /\ accepted \in Seq(Tasks) /\ processed \in Seq(Tasks)
    /\ stop \in BOOLEAN
    /\ condition \subseteq Workers
    /\ queue_mutex \in Workers \cup {Nobody}
    /\ \A c \in Clients : pc[c] \in {"append", "notify", "delete"}
    /\ \A w \in Workers : pc[w] \in {"check", "acquire", "process", "exited"}
    /\ \A w \in Workers : pc[w] = "process" <=> queue_mutex = w
    /\ request \in [Threads -> Tasks \cup {NoTask}]
    /\ dtor \in {"alive", "notify", "join", "gone"}
    /\ deleted \subseteq Tasks

\* threadPool(int number); number <= 0 throws and leaves no object.
Init ==
    /\ tasks_queue = <<>> /\ stop = FALSE /\ condition = {}
    /\ queue_mutex = Nobody
    /\ pc = [x \in Threads |-> IF x \in Workers THEN "check" ELSE "append"]
    /\ request = [x \in Threads |-> NoTask]
    /\ dtor = "alive"
    /\ accepted = <<>> /\ processed = <<>> /\ deleted = {}

-----------------------------------------------------------------------------
\* append(): push under the lock ...
AppendTask(c, t) ==
    /\ pc[c] = "append" /\ dtor = "alive" /\ queue_mutex = Nobody
    /\ t \notin Appended
    /\ tasks_queue' = Append(tasks_queue, t)
    /\ accepted' = Append(accepted, t)
    /\ request' = [request EXCEPT ![c] = t]
    /\ pc' = [pc EXCEPT ![c] = "notify"]
    /\ UNCHANGED <<stop, condition, queue_mutex, dtor, processed, deleted>>

\* Mutant: the notification is left out.
AppendNotify_Forgotten(c) ==
    /\ pc[c] = "notify"
    /\ pc' = [pc EXCEPT ![c] = "delete"]
    /\ UNCHANGED <<tasks_queue, stop, condition, queue_mutex, request, dtor,
                   processed, clientVars>>

\* ... then notify_one() without it; append() returns true.
AppendNotify(c) ==
    /\ pc[c] = "notify"
    /\ condition' \in WakeOne(condition)
    /\ pc' = [pc EXCEPT ![c] = "delete"]
    /\ UNCHANGED <<tasks_queue, stop, queue_mutex, request, dtor, processed,
                   clientVars>>

\* main(): "delete tt;" as soon as append() has returned.
DeleteTask(c) ==
    /\ pc[c] = "delete"
    /\ deleted' = deleted \cup {request[c]}
    /\ request' = [request EXCEPT ![c] = NoTask]
    /\ pc' = [pc EXCEPT ![c] = "append"]
    /\ UNCHANGED <<tasks_queue, stop, condition, queue_mutex, dtor, accepted,
                   processed>>

-----------------------------------------------------------------------------
\* "while (!stop)", read without queue_mutex.
CheckStop(w) ==
    /\ pc[w] = "check"
    /\ pc' = [pc EXCEPT ![w] = IF stop THEN "exited" ELSE "acquire"]
    /\ UNCHANGED <<tasks_queue, stop, condition, queue_mutex, request, dtor,
                   processed, clientVars>>

AtLock(w) == pc[w] = "acquire" /\ w \notin condition /\ queue_mutex = Nobody

\* condition.wait() on an empty queue, whatever stop says.
WorkerWait(w) ==
    /\ AtLock(w)
    /\ tasks_queue = <<>>
    /\ condition' = condition \cup {w}
    /\ UNCHANGED <<tasks_queue, stop, queue_mutex, pc, request, dtor, processed,
                   clientVars>>

\* Mutant: the lock is released before process().
WorkerTake_Unlocks(w) ==
    /\ AtLock(w)
    /\ tasks_queue # <<>>
    /\ request' = [request EXCEPT ![w] = Head(tasks_queue)]
    /\ tasks_queue' = Tail(tasks_queue)
    /\ pc' = [pc EXCEPT ![w] = "process"]
    /\ UNCHANGED <<stop, condition, queue_mutex, dtor, processed, clientVars>>

\* front(), pop(), and process() begins, with the lock held.
WorkerTake(w) ==
    /\ AtLock(w)
    /\ tasks_queue # <<>>
    /\ queue_mutex' = w
    /\ request' = [request EXCEPT ![w] = Head(tasks_queue)]
    /\ tasks_queue' = Tail(tasks_queue)
    /\ pc' = [pc EXCEPT ![w] = "process"]
    /\ UNCHANGED <<stop, condition, dtor, processed, clientVars>>

\* process() returns and the end of the block unlocks.
ProcessDone(w) ==
    /\ pc[w] = "process"
    /\ processed' = Append(processed, request[w])
    /\ request' = [request EXCEPT ![w] = NoTask]
    /\ queue_mutex' = Nobody
    /\ pc' = [pc EXCEPT ![w] = "check"]
    /\ UNCHANGED <<tasks_queue, stop, condition, dtor, clientVars>>

Spurious ==
    /\ condition' \in SpuriousWake(condition)
    /\ UNCHANGED <<tasks_queue, stop, queue_mutex, pc, request, dtor, processed,
                   clientVars>>

-----------------------------------------------------------------------------
\* ~threadPool(): stop under the lock, notify_all(), join.
DtorStop ==
    /\ dtor = "alive" /\ queue_mutex = Nobody
    /\ \A c \in Clients : pc[c] = "append"
    /\ stop' = TRUE /\ dtor' = "notify"
    /\ UNCHANGED <<tasks_queue, condition, queue_mutex, pc, request, processed,
                   clientVars>>

DtorNotify ==
    /\ dtor = "notify"
    /\ condition' = WakeAll(condition) /\ dtor' = "join"
    /\ UNCHANGED <<tasks_queue, stop, queue_mutex, pc, request, processed,
                   clientVars>>

DtorJoin ==
    /\ dtor = "join"
    /\ \A w \in Workers : pc[w] = "exited"
    /\ dtor' = "gone"
    /\ UNCHANGED <<tasks_queue, stop, condition, queue_mutex, pc, request,
                   processed, clientVars>>

Terminated == dtor = "gone" /\ UNCHANGED vars

WorkerStep(w) == CheckStop(w) \/ WorkerWait(w) \/ WorkerTake(w) \/ ProcessDone(w)

Next ==
    \/ \E c \in Clients : AppendNotify(c) \/ DeleteTask(c)
    \/ \E c \in Clients, t \in Tasks : AppendTask(c, t)
    \/ \E w \in Workers : WorkerStep(w)
    \/ Spurious
    \/ DtorStop \/ DtorNotify \/ DtorJoin
    \/ Terminated

\* The mutex is contended by waking workers and clients: a worker that tries
\* again and again gets it (strong fairness), process() returns.
Fairness ==
    /\ \A w \in Workers : SF_vars(WorkerStep(w))
    /\ \A c \in Clients : WF_vars(AppendNotify(c) \/ DeleteTask(c))
    /\ WF_vars(DtorNotify) /\ WF_vars(DtorJoin)

Spec == Init /\ [][Next]_vars
FairSpec == Spec /\ Fairness

-----------------------------------------------------------------------------
\* process() calls finish in submission order and one at a time, because they
\* run under queue_mutex: finished, then the one running, then the queued ones.
ProcessedInOrder ==
    LET running == {w \in Workers : pc[w] = "process"}
    IN  \/ running = {} /\ accepted = processed \o tasks_queue
        \/ \E w \in Workers : /\ running = {w}
                              /\ accepted = (processed \o <<request[w]>>) \o tasks_queue

\* Until the pool is stopped no wakeup is lost: as long as a worker sleeps,
\* each queued task has an awake worker or a notification on its way.
QueuedTaskHasWorker ==
    ~stop /\ condition # {} =>
        Len(tasks_queue) <=
              Cardinality({w \in Workers : pc[w] # "exited" /\ w \notin condition})
            + Cardinality({c \in Clients : pc[c] = "notify"})

\* A pool that is not destroyed processes every appended task.
ProcessedUnlessStopped ==
    \A t \in Tasks :
        t \in Appended ~> stop \/ \E i \in DOMAIN processed : processed[i] = t

\* The destructor, which sets stop, wakes everybody and joins, returns.
DtorReturns == dtor = "notify" ~> dtor = "gone"

=============================================================================
