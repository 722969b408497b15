---------------------------- MODULE TaskExecutor ----------------------------
(***************************************************************************)
(* What a thread pool promises its users, with no thread, lock or condition *)
(* variable in sight: tasks are started in the order of submission, at most *)
(* MaxParallel at a time, submission is refused once the pool is closed,    *)
(* and closing returns only when every accepted task has completed.         *)
(***************************************************************************)
EXTENDS Naturals, Sequences, FiniteSets

CONSTANTS Tasks,        \* the tasks that may be submitted
          MaxParallel   \* the number of worker threads

VARIABLES phase,     \* "open", then "closed", then "done"
          queue,     \* accepted, not started
          running,   \* started, not completed
          completed  \* completed

execVars == <<phase, queue, running, completed>>

Queued == {queue[i] : i \in DOMAIN queue}

Init == phase = "open" /\ queue = <<>> /\ running = {} /\ completed = {}

Submit(t) ==
    /\ phase = "open"
    /\ t \notin Queued \cup running \cup completed
    /\ queue' = Append(queue, t)
    /\ UNCHANGED <<phase, running, completed>>

Start ==
    /\ queue # <<>>
    /\ Cardinality(running) < MaxParallel
    /\ running' = running \cup {Head(queue)}
    /\ queue' = Tail(queue)
    /\ UNCHANGED <<phase, completed>>

Complete(t) ==
    /\ t \in running
    /\ running' = running \ {t}
    /\ completed' = completed \cup {t}
    /\ UNCHANGED <<phase, queue>>

Close == phase = "open" /\ phase' = "closed" /\ UNCHANGED <<queue, running, completed>>

Return ==
    /\ phase = "closed"
    /\ queue = <<>> /\ running = {}
    /\ phase' = "done"
    /\ UNCHANGED <<queue, running, completed>>

Next ==
    \/ \E t \in Tasks : Submit(t) \/ Complete(t)
    \/ Start \/ Close \/ Return

\* Work that has been accepted is done, and closing returns; submitting and
\* closing are up to the user.
Fairness ==
    /\ WF_execVars(Start) /\ WF_execVars(Return)
    /\ \A t \in Tasks : WF_execVars(Complete(t))

Spec == Init /\ [][Next]_execVars
FairSpec == Spec /\ Fairness

=============================================================================
