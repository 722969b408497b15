---------------------------- MODULE ThreadPool2 -----------------------------
(***************************************************************************)
(* The bounded thread pool of cpp/base/threadPool_2/ThreadPool.{h,cpp}:     *)
(* producers wait while isFull, workers wait while isEmpty, both on the     *)
(* same condition variable cond, and every change wakes one of them.        *)
(* start(num) makes num both the number of workers and the queue's bound.   *)
(* Tasks run with _mutex held.  done is never assigned after the            *)
(* constructor, so neither "if(!done)" nor "while(!done)" ever fails.       *)
(***************************************************************************)
EXTENDS Naturals, Sequences, FiniteSets, Platform

CONSTANTS Workers,   \* the threads start() creates
          Clients,   \* callers of addTask()
          MaxAdded,  \* bound on the calls to addTask()
          Nobody

VARIABLES
    task,            \* number of queued tasks: their identity is not looked at
    isEmpty, isFull, \* the flags kept beside the queue
    initnum,         \* its bound
    cond,            \* producers and workers blocked on the one condition variable
    _mutex,          \* the worker running a task with the lock held
    pc, done,
    added, ran,      \* counters: tasks pushed, tasks run
    finish           \* progress of finish()

vars == <<task, isEmpty, isFull, initnum, cond, _mutex, pc, done, added, ran, finish>>

Threads == Workers \cup Clients

TypeOK ==
    /\ task \in Nat /\ initnum \in Nat /\ added \in 0 .. MaxAdded /\ ran \in Nat
    /\ isEmpty \in BOOLEAN /\ isFull \in BOOLEAN /\ done \in BOOLEAN
    /\ cond \subseteq Threads
    /\ _mutex \in Workers \cup {Nobody}
    /\ pc \in [Threads -> {"new", "idle", "add", "check", "take", "run", "exited"}]
    /\ \A w \in Workers : pc[w] = "run" <=> _mutex = w
    /\ finish \in {"no", "joining"}

\* ThreadPool() and main()'s setSize(5); no thread runs yet.
Init ==
    /\ task = 0 /\ isEmpty = TRUE /\ isFull = FALSE /\ done = FALSE
    /\ initnum = 5
    /\ cond = {} /\ _mutex = Nobody
    /\ pc = [x \in Threads |-> IF x \in Workers THEN "new" ELSE "idle"]
    /\ added = 0 /\ ran = 0 /\ finish = "no"

\* start(num): setSize(num) and num threads in runTask().
Start ==
    /\ \A w \in Workers : pc[w] = "new"
    /\ initnum' = Cardinality(Workers)
    /\ pc' = [x \in Threads |-> IF x \in Workers THEN "check" ELSE pc[x]]
    /\ UNCHANGED <<task, isEmpty, isFull, cond, _mutex, done, added, ran, finish>>

Started == \A w \in Workers : pc[w] # "new"
Free(x) == x \notin cond /\ _mutex = Nobody

-----------------------------------------------------------------------------
\* addTask(): called when the pool is not done.
AddCall(c) ==
    /\ Started /\ finish = "no"
    /\ pc[c] = "idle" /\ ~done
    /\ added + Cardinality({d \in Clients : pc[d] = "add"}) < MaxAdded
    /\ pc' = [pc EXCEPT ![c] = "add"]
    /\ UNCHANGED <<task, isEmpty, isFull, initnum, cond, _mutex, done, added, ran,
                   finish>>

\* "while(isFull) cond.wait(lk)"
AddWait(c) ==
    /\ pc[c] = "add" /\ Free(c)
    /\ isFull
    /\ cond' = cond \cup {c}
    /\ UNCHANGED <<task, isEmpty, isFull, initnum, _mutex, pc, done, added, ran,
                   finish>>

\* Mutant: isFull is tested against the size before the push.
AddTask_LateFull(c) ==
    /\ pc[c] = "add" /\ Free(c)
    /\ ~isFull
    /\ task' = task + 1
    /\ isFull' = (task = initnum)
    /\ isEmpty' = FALSE
    /\ cond' \in WakeOne(cond)
    /\ added' = added + 1
    /\ pc' = [pc EXCEPT ![c] = "idle"]
    /\ UNCHANGED <<initnum, _mutex, done, ran, finish>>

\* Mutant: nobody is told of the new task.
AddTask_Silent(c) ==
    /\ pc[c] = "add" /\ Free(c)
    /\ ~isFull
    /\ task' = task + 1
    /\ isFull' = (isFull \/ task + 1 = initnum)
    /\ isEmpty' = FALSE
    /\ added' = added + 1
    /\ pc' = [pc EXCEPT ![c] = "idle"]
    /\ UNCHANGED <<initnum, cond, _mutex, done, ran, finish>>

\* The push, the flags and notify_one(), all under the lock.
AddTask(c) ==
    /\ pc[c] = "add" /\ Free(c)
    /\ ~isFull
    /\ task' = task + 1
    /\ isFull' = (isFull \/ task + 1 = initnum)
    /\ isEmpty' = FALSE
    /\ cond' \in WakeOne(cond)
    /\ added' = added + 1
    /\ pc' = [pc EXCEPT ![c] = "idle"]
    /\ UNCHANGED <<initnum, _mutex, done, ran, finish>>

-----------------------------------------------------------------------------
\* "while(!done)", read without the lock.
CheckDone(w) ==
    /\ pc[w] = "check"
    /\ pc' = [pc EXCEPT ![w] = IF done THEN "exited" ELSE "take"]
    /\ UNCHANGED <<task, isEmpty, isFull, initnum, cond, _mutex, done, added, ran,
                   finish>>

\* "while(isEmpty) cond.wait(lk)"
TakeWait(w) ==
    /\ pc[w] = "take" /\ Free(w)
    /\ isEmpty
    /\ cond' = cond \cup {w}
    /\ UNCHANGED <<task, isEmpty, isFull, initnum, _mutex, pc, done, added, ran,
                   finish>>

\* front(), pop(), the flags; the task starts with _mutex held.
Take(w) ==
    /\ pc[w] = "take" /\ Free(w)
    /\ ~isEmpty
    /\ task' = task - 1
    /\ isEmpty' = (isEmpty \/ task - 1 = 0)
    /\ isFull' = FALSE
    /\ _mutex' = w
    /\ pc' = [pc EXCEPT ![w] = "run"]
    /\ UNCHANGED <<initnum, cond, done, added, ran, finish>>

\* Mutant: producers are not told of the free slot.
RunTask_Silent(w) ==
    /\ pc[w] = "run"
    /\ ran' = ran + 1
    /\ _mutex' = Nobody
    /\ pc' = [pc EXCEPT ![w] = "check"]
    /\ UNCHANGED <<task, isEmpty, isFull, initnum, cond, done, added, finish>>

\* ta() returns, notify_one(), unlock.
RunTask(w) ==
    /\ pc[w] = "run"
    /\ ran' = ran + 1
    /\ cond' \in WakeOne(cond)
    /\ _mutex' = Nobody
    /\ pc' = [pc EXCEPT ![w] = "check"]
    /\ UNCHANGED <<task, isEmpty, isFull, initnum, done, added, finish>>

Spurious ==
    /\ cond' \in SpuriousWake(cond)
    /\ UNCHANGED <<task, isEmpty, isFull, initnum, _mutex, pc, done, added, ran,
                   finish>>

-----------------------------------------------------------------------------
\* finish(): called by the producer when it has nothing more to add.  It joins the
\* workers and, as nothing ever sets done, does not return.
FinishCall ==
    /\ Started /\ finish = "no"
    /\ \A c \in Clients : pc[c] = "idle"
    /\ finish' = "joining"
    /\ UNCHANGED <<task, isEmpty, isFull, initnum, cond, _mutex, pc, done, added, ran>>

WorkerStep(w) == CheckDone(w) \/ TakeWait(w) \/ Take(w) \/ RunTask(w)
ClientStep(c) == AddWait(c) \/ AddTask(c)

Next ==
    \/ Start
    \/ \E c \in Clients : AddCall(c) \/ ClientStep(c)
    \/ \E w \in Workers : WorkerStep(w)
    \/ Spurious
    \/ FinishCall

\* Threads run, tasks return, and a thread that keeps asking for _mutex gets it.
Fairness ==
    /\ \A w \in Workers : SF_vars(WorkerStep(w))
    /\ \A c \in Clients : SF_vars(ClientStep(c))

Spec == Init /\ [][Next]_vars
FairSpec == Spec /\ Fairness

-----------------------------------------------------------------------------
\* The flags and the bound always agree with the queue, whoever runs: this is
\* what the "while(isFull)" and "while(isEmpty)" loops rely on.
FlagsExact ==
    /\ isEmpty <=> task = 0
    /\ isFull <=> task = initnum
    /\ task <= initnum

\* Every task added is run: nobody sleeps for ever while one is queued.
AddedAreRun == \A n \in 1 .. MaxAdded : added >= n ~> ran >= n

\* A producer that found the queue full gets its task in after some task has
\* been handled.
AddReturns == \A c \in Clients : pc[c] = "add" ~> pc[c] = "idle"

=============================================================================
