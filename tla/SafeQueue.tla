----------------------------- MODULE SafeQueue ------------------------------
(***************************************************************************)
(* The bounded blocking queue of cpp/stl/safeQueue.cpp.  push() and pop()   *)
(* hold _mutex from the test of the flags to the push, the pop or the wait; *)
(* quit() and finished() set an atomic flag and notify without the lock, so *)
(* their steps fall between the test and the wait of another thread.        *)
(***************************************************************************)
EXTENDS Naturals, Sequences, FiniteSets, Platform

CONSTANTS Pushers, Poppers,  \* the calling threads
          SizeMax,           \* _size_max
          MaxPushes,         \* bound on the items pushed, which are 1, 2, 3, ...
          Nobody

ASSUME QueueAssumption ==
    /\ IsFiniteSet(Pushers) /\ IsFiniteSet(Poppers) /\ Pushers \cap Poppers = {}
    /\ Nobody \notin Pushers \cup Poppers
    /\ SizeMax \in Nat /\ MaxPushes \in Nat

VARIABLES
    _queue, _quit, _finished,
    _mutex,            \* the thread holding the lock between two steps
    _fullQue, _empty,  \* the threads blocked on the two condition variables
    pc,                \* "idle" outside a call
    ctl,               \* notifications quit() / finished() still has to send
    pushed, popped,    \* history: items accepted and delivered, in order
    sawEnd             \* some pop() returned false because of _finished

threadVars == <<_queue, _mutex, _fullQue, _empty, pc, pushed, popped, sawEnd>>
vars == <<threadVars, _quit, _finished, ctl>>

Threads == Pushers \cup Poppers

TypeOK ==
    /\ _queue \in Seq(Nat) /\ pushed \in Seq(Nat) /\ popped \in Seq(Nat)
    /\ _quit \in BOOLEAN /\ _finished \in BOOLEAN /\ sawEnd \in BOOLEAN
    /\ _mutex \in Threads \cup {Nobody}
    /\ _fullQue \subseteq Pushers /\ _empty \subseteq Poppers
    /\ pc \in [Threads -> {"idle", "lock", "inside", "wait"}]
    /\ ctl \in SUBSET {"empty", "full"}
    /\ \A x \in Threads : pc[x] \in {"inside", "wait"} <=> _mutex = x
    /\ \A x \in _fullQue \cup _empty : pc[x] = "lock"

Init ==
    /\ _queue = <<>> /\ _quit = FALSE /\ _finished = FALSE
    /\ _mutex = Nobody /\ _fullQue = {} /\ _empty = {}
    /\ pc = [x \in Threads |-> "idle"]
    /\ ctl = {} /\ pushed = <<>> /\ popped = <<>> /\ sawEnd = FALSE

-----------------------------------------------------------------------------
Call(x) ==
    /\ pc[x] = "idle"
    /\ pc' = [pc EXCEPT ![x] = "lock"]
    /\ UNCHANGED <<_queue, _quit, _finished, _mutex, _fullQue, _empty, ctl, pushed,
                   popped, sawEnd>>

\* _mutex can be locked: on entry, or to return from wait().
CanLock(x) == pc[x] = "lock" /\ _mutex = Nobody /\ x \notin _fullQue \cup _empty

\* push(): "while (!_quit && !_finished)"; leaving the loop returns false.
PushTest(p) ==
    /\ CanLock(p)
    /\ IF _quit \/ _finished
         THEN pc' = [pc EXCEPT ![p] = "idle"] /\ UNCHANGED _mutex
         ELSE pc' = [pc EXCEPT ![p] = "inside"] /\ _mutex' = p
    /\ UNCHANGED <<_queue, _quit, _finished, _fullQue, _empty, ctl, pushed, popped,
                   sawEnd>>

\* Mutant: the waiting readers do not hear of the item.
Push_NoNotify(p) ==
    /\ pc[p] = "inside"
    /\ Len(_queue) < SizeMax
    /\ pushed' = Append(pushed, Len(pushed) + 1)
    /\ _queue' = Append(_queue, Len(pushed) + 1)
    /\ _mutex' = Nobody
    /\ pc' = [pc EXCEPT ![p] = "idle"]
    /\ UNCHANGED <<_quit, _finished, _fullQue, _empty, ctl, popped, sawEnd>>

\* Mutant: "<=" instead of "<".
Push_OneMore(p) ==
    /\ pc[p] = "inside"
    /\ Len(_queue) <= SizeMax
    /\ pushed' = Append(pushed, Len(pushed) + 1)
    /\ _queue' = Append(_queue, Len(pushed) + 1)
    /\ _empty' = WakeAll(_empty)
    /\ _mutex' = Nobody
    /\ pc' = [pc EXCEPT ![p] = "idle"]
    /\ UNCHANGED <<_quit, _finished, _fullQue, ctl, popped, sawEnd>>

\* There is room: push, wake every reader, return true.
Push(p) ==
    /\ pc[p] = "inside"
    /\ Len(_queue) < SizeMax
    /\ pushed' = Append(pushed, Len(pushed) + 1)
    /\ _queue' = Append(_queue, Len(pushed) + 1)
    /\ _empty' = WakeAll(_empty)
    /\ _mutex' = Nobody
    /\ pc' = [pc EXCEPT ![p] = "idle"]
    /\ UNCHANGED <<_quit, _finished, _fullQue, ctl, popped, sawEnd>>

\* Mutant: the lock is not released by the wait.
PushWait_KeepsLock(p) ==
    /\ pc[p] = "inside"
    /\ Len(_queue) >= SizeMax
    /\ _fullQue' = _fullQue \cup {p}
    /\ pc' = [pc EXCEPT ![p] = "lock"]
    /\ UNCHANGED <<_queue, _quit, _finished, _mutex, _empty, ctl, pushed, popped,
                   sawEnd>>

\* The queue is full: wait, without looking at the flags again.
PushWait(p) ==
    /\ pc[p] = "inside"
    /\ Len(_queue) >= SizeMax
    /\ _fullQue' = _fullQue \cup {p}
    /\ _mutex' = Nobody
    /\ pc' = [pc EXCEPT ![p] = "lock"]
    /\ UNCHANGED <<_queue, _quit, _finished, _empty, ctl, pushed, popped, sawEnd>>

-----------------------------------------------------------------------------
\* pop(): "while (!_quit)"; leaving the loop returns false.
PopTest(c) ==
    /\ CanLock(c)
    /\ IF _quit
         THEN pc' = [pc EXCEPT ![c] = "idle"] /\ UNCHANGED _mutex
         ELSE pc' = [pc EXCEPT ![c] = "inside"] /\ _mutex' = c
    /\ UNCHANGED <<_queue, _quit, _finished, _fullQue, _empty, ctl, pushed, popped,
                   sawEnd>>

\* Mutant: front() without pop().
Pop_Keeps(c) ==
    /\ pc[c] = "inside"
    /\ _queue # <<>>
    /\ popped' = Append(popped, Head(_queue))
    /\ _fullQue' = WakeAll(_fullQue)
    /\ _mutex' = Nobody
    /\ pc' = [pc EXCEPT ![c] = "idle"]
    /\ UNCHANGED <<_queue, _quit, _finished, _empty, ctl, pushed, sawEnd>>

\* There is an item: take it, wake every writer, return true.
Pop(c) ==
    /\ pc[c] = "inside"
    /\ _queue # <<>>
    /\ popped' = Append(popped, Head(_queue))
    /\ _queue' = Tail(_queue)
    /\ _fullQue' = WakeAll(_fullQue)
    /\ _mutex' = Nobody
    /\ pc' = [pc EXCEPT ![c] = "idle"]
    /\ UNCHANGED <<_quit, _finished, _empty, ctl, pushed, sawEnd>>

\* Mutant: _finished ends pop() whatever is left in the queue.
PopEnd_Eager(c) ==
    /\ pc[c] = "inside"
    /\ _finished
    /\ sawEnd' = TRUE
    /\ _mutex' = Nobody
    /\ pc' = [pc EXCEPT ![c] = "idle"]
    /\ UNCHANGED <<_queue, _quit, _finished, _fullQue, _empty, ctl, pushed, popped>>

\* Empty and finished: return false.
PopEnd(c) ==
    /\ pc[c] = "inside"
    /\ _queue = <<>> /\ _finished
    /\ sawEnd' = TRUE
    /\ _mutex' = Nobody
    /\ pc' = [pc EXCEPT ![c] = "idle"]
    /\ UNCHANGED <<_queue, _quit, _finished, _fullQue, _empty, ctl, pushed, popped>>

\* Empty and not finished: decide to wait ...
PopDecide(c) ==
    /\ pc[c] = "inside"
    /\ _queue = <<>> /\ ~_finished
    /\ pc' = [pc EXCEPT ![c] = "wait"]
    /\ UNCHANGED <<_queue, _quit, _finished, _mutex, _fullQue, _empty, ctl, pushed,
                   popped, sawEnd>>

\* ... and wait, which releases the lock.
PopWait(c) ==
    /\ pc[c] = "wait"
    /\ _empty' = _empty \cup {c}
    /\ _mutex' = Nobody
    /\ pc' = [pc EXCEPT ![c] = "lock"]
    /\ UNCHANGED <<_queue, _quit, _finished, _fullQue, ctl, pushed, popped, sawEnd>>

Spurious ==
    /\ \/ _empty' \in SpuriousWake(_empty) /\ UNCHANGED _fullQue
       \/ _fullQue' \in SpuriousWake(_fullQue) /\ UNCHANGED _empty
    /\ UNCHANGED <<_queue, _quit, _finished, _mutex, pc, ctl, pushed, popped, sawEnd>>

-----------------------------------------------------------------------------
\* quit() and finished(), called by one owner thread: the flag first.
Quit ==
    /\ ~_quit /\ ctl = {}
    /\ _quit' = TRUE /\ ctl' = {"empty", "full"}
    /\ UNCHANGED <<threadVars, _finished>>

Finished ==
    /\ ~_finished /\ ctl = {}
    /\ _finished' = TRUE /\ ctl' = {"empty"}
    /\ UNCHANGED <<threadVars, _quit>>

\* _empty.notify_all() ...
NotifyEmpty ==
    /\ "empty" \in ctl
    /\ _empty' = WakeAll(_empty)
    /\ ctl' = ctl \ {"empty"}
    /\ UNCHANGED <<_queue, _quit, _finished, _mutex, _fullQue, pc, pushed, popped, sawEnd>>

\* ... and, in quit() only, _fullQue.notify_all().
NotifyFull ==
    /\ ctl = {"full"}
    /\ _fullQue' = WakeAll(_fullQue)
    /\ ctl' = {}
    /\ UNCHANGED <<_queue, _quit, _finished, _mutex, _empty, pc, pushed, popped, sawEnd>>

PushStep(p) == PushTest(p) \/ Push(p) \/ PushWait(p)
PopStep(c) == PopTest(c) \/ Pop(c) \/ PopEnd(c) \/ PopDecide(c) \/ PopWait(c)

\* Pushers stop calling when MaxPushes items have been accepted.
Next ==
    \/ \E p \in Pushers : PushStep(p)
    \/ \E p \in Pushers : Len(pushed) + Cardinality({q \in Pushers : pc[q] # "idle"})
                             < MaxPushes /\ Call(p)
    \/ \E c \in Poppers : Call(c) \/ PopStep(c)
    \/ Spurious
    \/ Quit \/ Finished \/ NotifyEmpty \/ NotifyFull

\* Threads run, and one that keeps trying to lock _mutex succeeds.
Fairness ==
    /\ \A p \in Pushers : SF_vars(PushStep(p))
    /\ \A c \in Poppers : SF_vars(PopStep(c))
    /\ WF_vars(NotifyEmpty) /\ WF_vars(NotifyFull)

Spec == Init /\ [][Next]_vars
FairSpec == Spec /\ Fairness

-----------------------------------------------------------------------------
\* Items come out in the order in which they went in, none lost or duplicated.
Fifo == pushed = popped \o _queue

\* The queue never exceeds _size_max.
Bounded == Len(_queue) <= SizeMax

\* push() and pop() never lose each other's notifications: nobody sleeps for an
\* item that is there, or for room that is there.
SleepersHaveReason ==
    /\ _queue # <<>> => _empty = {}
    /\ Len(_queue) < SizeMax => _fullQue = {}

\* Once a pop() has reported the end of input, everything accepted has been
\* delivered and nothing is accepted any more, although finished() takes no lock.
EndIsFinal == sawEnd => _queue = <<>> /\ \A p \in Pushers : pc[p] # "inside"

\* A reader is served, or somebody else takes the item first, or quit() is called.
PopServed ==
    \A c \in Poppers :
        (_queue # <<>> /\ pc[c] = "lock") ~> (pc[c] = "idle" \/ _queue = <<>> \/ _quit)

\* quit(): every blocked call returns.
QuitEndsCalls == \A x \in Threads : (_quit /\ pc[x] # "idle") ~> pc[x] = "idle"

=============================================================================
