------------------------------- MODULE MCPools ------------------------------
(***************************************************************************)
(* The two simpler thread pools, ThreadPool1 and ThreadPool2, as one suite  *)
(* for TLC: a behaviour picks one of them and runs it, while the other      *)
(* stays in its initial state.                                              *)
(***************************************************************************)
EXTENDS Naturals, Sequences, FiniteSets

CONSTANTS Workers, Clients, Tasks, NoTask, Nobody, MaxAdded

\* Finitely many threads of two kinds, with at least one worker: both constructors make
\* one thread per unit of a positive number.  No task or worker is a name for none.
ASSUME PoolsAssumption ==
    /\ IsFiniteSet(Workers) /\ Workers # {}
    /\ IsFiniteSet(Clients) /\ Workers \cap Clients = {}
    /\ NoTask \notin Tasks /\ Nobody \notin Workers
    /\ MaxAdded \in Nat

VARIABLES
    pool,  \* the pool that runs
    tasks_queue, stop, condition, queue_mutex, pc1, request, dtor, accepted,
    processed, deleted,
    task, isEmpty, isFull, initnum, cond, _mutex, pc2, done, added, ran, finish

P1 == INSTANCE ThreadPool1 WITH pc <- pc1
P2 == INSTANCE ThreadPool2 WITH pc <- pc2

allVars == <<pool, tasks_queue, stop, condition, queue_mutex, pc1, request, dtor,
             accepted, processed, deleted, task, isEmpty, isFull, initnum, cond,
             _mutex, pc2, done, added, ran, finish>>

Init == pool \in {1, 2} /\ P1!Init /\ P2!Init

Only1 == pool = 1 /\ UNCHANGED <<pool, task, isEmpty, isFull, initnum, cond,
                                 _mutex, pc2, done, added, ran, finish>>
Only2 == pool = 2 /\ UNCHANGED <<pool, tasks_queue, stop, condition, queue_mutex,
                                 pc1, request, dtor, accepted, processed, deleted>>

Worker1(w) == P1!WorkerStep(w) /\ Only1
Client1(c) == (P1!AppendNotify(c) \/ P1!DeleteTask(c)) /\ Only1
DtorNotify1 == P1!DtorNotify /\ Only1
DtorJoin1 == P1!DtorJoin /\ Only1
Worker2(w) == P2!WorkerStep(w) /\ Only2
Client2(c) == P2!ClientStep(c) /\ Only2

Next == (P1!Next /\ Only1) \/ (P2!Next /\ Only2)

\* The fairness of the two modules, each for the behaviours that run it.
Fairness ==
    /\ \A w \in Workers : SF_allVars(Worker1(w)) /\ SF_allVars(Worker2(w))
    /\ \A c \in Clients : WF_allVars(Client1(c)) /\ SF_allVars(Client2(c))
    /\ WF_allVars(DtorNotify1) /\ WF_allVars(DtorJoin1)

Spec == Init /\ [][Next]_allVars
FairSpec == Spec /\ Fairness

-----------------------------------------------------------------------------
\* threadPool_1 completes requests in submission order, one at a time.
ProcessedInOrder == P1!TypeOK /\ P1!ProcessedInOrder

\* threadPool_1 loses no wakeup before it is stopped.
QueuedTaskHasWorker == P1!QueuedTaskHasWorker

\* The flags of threadPool_2 agree with its queue, which stays bounded.
FlagsExact == P2!TypeOK /\ P2!FlagsExact

\* Everything submitted is run: by threadPool_1 unless it is destroyed first, by
\* threadPool_2 with one producer, whose addTask() calls return.
SubmittedAreRun == P1!ProcessedUnlessStopped /\ P2!AddedAreRun /\ P2!AddReturns

=============================================================================
