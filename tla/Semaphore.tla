----------------------------- MODULE Semaphore ------------------------------
(***************************************************************************)
(* The counting semaphore of cpp/cpp_language/my_semaphore_impl.cpp (class  *)
(* semaphore; my_sem is the same with other names).  wait() and signal()    *)
(* are critical sections of mx; signal() notifies while it holds mx.        *)
(***************************************************************************)
EXTENDS Naturals, FiniteSets, Platform

CONSTANTS Waiters,     \* threads that call wait(): func2
          Signallers,  \* threads that call signal(): func1
          Initial,     \* the constructor's argument
          MaxSignals   \* bound on the calls of signal()

VARIABLES count,
          cond,     \* threads blocked in cond.wait()
          calling,  \* threads inside wait()
          signals,  \* number of signal() calls so far
          passed    \* number of wait() calls that returned

vars == <<count, cond, calling, signals, passed>>

TypeOK ==
    /\ count \in Nat /\ signals \in 0 .. MaxSignals /\ passed \in Nat
    /\ calling \subseteq Waiters /\ cond \subseteq calling

Init == count = Initial /\ cond = {} /\ calling = {} /\ signals = 0 /\ passed = 0

WaitCall(w) ==
    /\ w \notin calling
    /\ calling' = calling \cup {w}
    /\ UNCHANGED <<count, cond, signals, passed>>

\* The predicate "count > 0" is false: block.
WaitBlock(w) ==
    /\ w \in calling \ cond
    /\ count = 0
    /\ cond' = cond \cup {w}
    /\ UNCHANGED <<count, calling, signals, passed>>

\* Mutant: the predicate is "count >= 0", the subtraction saturates.
WaitPass_Zero(w) ==
    /\ w \in calling \ cond
    /\ count' = IF count > 0 THEN count - 1 ELSE 0
    /\ passed' = passed + 1
    /\ calling' = calling \ {w}
    /\ UNCHANGED <<cond, signals>>

\* The predicate is true: take a unit and return.
WaitPass(w) ==
    /\ w \in calling \ cond
    /\ count > 0
    /\ count' = count - 1
    /\ passed' = passed + 1
    /\ calling' = calling \ {w}
    /\ UNCHANGED <<cond, signals>>

\* Mutant: notifies only on the step from zero to one.
Signal_Edge ==
    /\ signals < MaxSignals
    /\ count' = count + 1
    /\ cond' \in IF count = 0 THEN WakeOne(cond) ELSE {cond}
    /\ signals' = signals + 1
    /\ UNCHANGED <<calling, passed>>

\* "++count; cond.notify_one();" under the lock.
Signal ==
    /\ signals < MaxSignals
    /\ count' = count + 1
    /\ cond' \in WakeOne(cond)
    /\ signals' = signals + 1
    /\ UNCHANGED <<calling, passed>>

Spurious == cond' \in SpuriousWake(cond) /\ UNCHANGED <<count, calling, signals, passed>>

WaitStep(w) == WaitBlock(w) \/ WaitPass(w)
Next ==
    \/ \E w \in Waiters : WaitCall(w) \/ WaitStep(w)
    \/ \E s \in Signallers : Signal
    \/ Spurious

\* A thread inside wait() that is not blocked runs and gets mx.
Fairness == \A w \in Waiters : WF_vars(WaitStep(w))
Spec == Init /\ [][Next]_vars
FairSpec == Spec /\ Fairness

-----------------------------------------------------------------------------
\* Units are neither created nor lost: no more wait() calls return than units
\* were available, and the rest is still there.
Conserved == count + passed = Initial + signals

\* No lost wakeup: while a thread sleeps, every available unit has a thread that
\* is awake inside wait() and will take it.
UnitsHaveTakers == cond # {} => count <= Cardinality(calling \ cond)

\* A unit and a thread inside wait() find each other.
WaitersServed ==
    (count > 0 /\ calling # {}) ~> (count = 0 \/ calling = {})

=============================================================================
