----------------------------- MODULE TurnTaking -----------------------------
(***************************************************************************)
(* Programs that print "A B C A B C ..." from several threads.              *)
(*                                                                         *)
(* Cond threads are those of cpp/thread/print.cpp (and temp.cpp): they hold *)
(* m, wait on cond until flag is their id, print, pass the turn on and      *)
(* notify_all().  Spin threads are those of cpp/thread/print_abc.cpp: they  *)
(* read the turn without the lock, yield until it is theirs and take the    *)
(* lock only to print.                                                      *)
(***************************************************************************)
EXTENDS Naturals, Sequences, FiniteSets, Platform

CONSTANTS N,       \* number of threads, with the ids 0 .. N-1
          Rounds,  \* how often each prints
          Spin     \* TRUE: print_abc.cpp, FALSE: print.cpp

VARIABLES flag,  \* whose turn it is (cnt in print_abc.cpp)
          cond,  \* the threads blocked on the condition variable
          pc,    \* "test", "print" or "done"
          left,  \* rounds each thread still has to do
          out    \* what has been printed

vars == <<flag, cond, pc, left, out>>
Ids == 0 .. N - 1

TypeOK ==
    /\ flag \in Ids /\ cond \subseteq Ids
    /\ pc \in [Ids -> {"test", "print", "done"}]
    /\ left \in [Ids -> 0 .. Rounds]
    /\ out \in Seq(Ids)
    /\ \A i \in Ids : pc[i] = "done" <=> left[i] = 0

Init ==
    /\ flag = 0 /\ cond = {}
    /\ pc = [i \in Ids |-> IF Rounds = 0 THEN "done" ELSE "test"]
    /\ left = [i \in Ids |-> Rounds]
    /\ out = <<>>

\* "while (id != flag) cond.wait(lk);"
CondWait(i) ==
    /\ ~Spin /\ pc[i] = "test" /\ i \notin cond
    /\ flag # i
    /\ cond' = cond \cup {i}
    /\ UNCHANGED <<flag, pc, left, out>>

\* Mutant: notify_one() does not have to wake the thread whose turn it is.
PassOn_One(i) ==
    /\ out' = Append(out, i)
    /\ flag' = (flag + 1) % N
    /\ cond' \in WakeOne(cond)
    /\ left' = [left EXCEPT ![i] = @ - 1]
    /\ pc' = [pc EXCEPT ![i] = IF left[i] = 1 THEN "done" ELSE "test"]

\* Prints, "flag = (flag + 1) % 3", notify_all(), next round.
PassOn(i) ==
    /\ out' = Append(out, i)
    /\ flag' = (flag + 1) % N
    /\ cond' = WakeAll(cond)
    /\ left' = [left EXCEPT ![i] = @ - 1]
    /\ pc' = [pc EXCEPT ![i] = IF left[i] = 1 THEN "done" ELSE "test"]

\* Mutant: the test is an if: a thread that was woken does not repeat it.
CondPrint_NoRetest(i) ==
    /\ ~Spin /\ pc[i] = "test" /\ i \notin cond
    /\ PassOn(i)

\* It is the thread's turn: print with the lock held since the test.
CondPrint(i) ==
    /\ ~Spin /\ pc[i] = "test" /\ i \notin cond
    /\ flag = i
    /\ PassOn(i)

\* "while (ch != cnt + 'A') yield();"
SpinYield(i) == Spin /\ pc[i] = "test" /\ flag # i /\ UNCHANGED vars

\* The loop is left, still without the lock ...
SpinTest(i) ==
    /\ Spin /\ pc[i] = "test"
    /\ flag = i
    /\ pc' = [pc EXCEPT ![i] = "print"]
    /\ UNCHANGED <<flag, cond, left, out>>

\* ... then lock, print, pass the turn on.
SpinPrint(i) ==
    /\ pc[i] = "print"
    /\ PassOn(i)

Spurious == cond' \in SpuriousWake(cond) /\ UNCHANGED <<flag, pc, left, out>>

Step(i) == CondWait(i) \/ CondPrint(i) \/ SpinTest(i) \/ SpinPrint(i)
Terminated == (\A i \in Ids : pc[i] = "done") /\ UNCHANGED vars
Next == (\E i \in Ids : Step(i) \/ SpinYield(i)) \/ Spurious \/ Terminated
Spec == Init /\ [][Next]_vars
FairSpec == Spec /\ \A i \in Ids : WF_vars(Step(i))

-----------------------------------------------------------------------------
\* The threads print strictly in turn, starting with thread 0, although the
\* spinning version tests the turn outside the lock.
InTurn == \A k \in 1 .. Len(out) : out[k] = (k - 1) % N

\* A thread sleeps only while it is not its turn.
SleepsOutOfTurn == flag \notin cond

\* Every thread prints all its rounds and ends: the turn is never lost.
AllPrinted == <>[](Len(out) = N * Rounds)

=============================================================================
