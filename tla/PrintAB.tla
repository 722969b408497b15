------------------------------ MODULE PrintAB -------------------------------
(***************************************************************************)
(* cpp/thread/print_a_b.cpp: two threads print A and B in turn, for ever.    *)
(* printA and printB wake one thread, printA2 and printB2 all.  A body runs   *)
(* with the mutex held from the test to notify().                           *)
(***************************************************************************)
EXTENDS Sequences, FiniteSets, Platform

VARIABLES abFlag,  \* flag: it is A's turn
          cond_var, \* the threads that sleep
          pair,    \* which functions main() starts: "one" or "all"
          shown    \* the last two letters

vars == <<abFlag, cond_var, pair, shown>>

Init == abFlag = TRUE /\ cond_var = {} /\ pair \in {"one", "all"} /\ shown = <<>>

\* wait(lck, predicate), then print, pass the turn on and notify.
Waits(t, turn) == t \notin cond_var /\ ~ turn /\ cond_var' = cond_var \cup {t} /\ UNCHANGED <<abFlag, shown>>
Prints(t, turn) ==
    /\ t \notin cond_var /\ turn
    /\ abFlag' = ~ abFlag
    /\ shown' = Append(IF Len(shown) = 2 THEN Tail(shown) ELSE shown, t)
printA == pair = "one" /\ UNCHANGED pair
             /\ (Waits("A", abFlag) \/ (Prints("A", abFlag) /\ cond_var' \in WakeOne(cond_var)))

printA2 == pair = "all" /\ UNCHANGED pair
             /\ (Waits("A", abFlag) \/ (Prints("A", abFlag) /\ cond_var' = WakeAll(cond_var)))

printB_Silent == pair = "one" /\ UNCHANGED pair
             /\ (Waits("B", ~ abFlag) \/ (Prints("B", ~ abFlag) /\ UNCHANGED cond_var))

printB == pair = "one" /\ UNCHANGED pair
             /\ (Waits("B", ~ abFlag) \/ (Prints("B", ~ abFlag) /\ cond_var' \in WakeOne(cond_var)))

printB2 == pair = "all" /\ UNCHANGED pair
             /\ (Waits("B", ~ abFlag) \/ (Prints("B", ~ abFlag) /\ cond_var' = WakeAll(cond_var)))

Spurious == cond_var' \in SpuriousWake(cond_var) /\ UNCHANGED <<abFlag, pair, shown>>

StepA == printA \/ printA2
StepB == printB \/ printB2
Next == StepA \/ StepB \/ Spurious

\* The letters alternate; the thread whose turn it is is awake; both go on for ever.
Alternate == Len(shown) = 2 => shown[1] # shown[2]
TurnAwake == (IF abFlag THEN "A" ELSE "B") \notin cond_var
BothPrint == \A t \in {"A", "B"} : []<>(shown # <<>> /\ shown[Len(shown)] = t)
=============================================================================
