---------------------------- MODULE CondExamples ----------------------------
(***************************************************************************)
(* The programs of cpp/base/threadtest/condition_variable that end, and the   *)
(* two promises of future/example5.cpp.  Each of a program's threads tests     *)
(* the shared word with the mutex held and sleeps, or goes on; main (or the    *)
(* thread main starts for it) changes the word and wakes them.  The programs   *)
(* differ in whether the mutex is held for the change and for the notify, in   *)
(* how many they wake, and in whether waiting has a limit.                    *)
(***************************************************************************)
EXTENDS Naturals, Sequences, FiniteSets, Platform

CONSTANTS Takers, Givers,  \* the waiting threads; the producers of example8
          Items            \* what example3 produces (10)

VARIABLES example,
          word,    \* ready, i, cargo, or how many promises are kept
          sent,    \* main's loop counter in example3
          cv,      \* the threads asleep
          at, shown

vars == <<example, word, sent, cv, at, shown>>

Examples == {"gate", "exit", "signals", "timed", "false", "atomic", "handoff", "cargo", "cargos",
             "numbers"}
One == CHOOSE t \in Takers : TRUE
Threads == Takers \cup Givers \cup {"main"}
Runs(e) == CASE e \in {"gate", "exit", "signals", "timed", "atomic"} -> Takers \cup {"main"}
             [] e = "cargos" -> Takers \cup Givers
             [] OTHER -> {One, "main"}

TypeOK ==
    /\ example \in Examples /\ sent \in 0 .. Items /\ cv \subseteq Runs(example)
    /\ \A t \in Threads : t \notin Runs(example) => at[t] = "done"

Init ==
    /\ example \in Examples
    /\ word = 0 /\ sent = 0 /\ cv = {} /\ shown = <<>>
    /\ at = [t \in Threads |-> IF t \in Runs(example) THEN "start" ELSE "done"]

In(e, t, pc) == example \in e /\ at[t] = pc /\ t \notin cv
Goes(t, pc) == at' = [at EXCEPT ![t] = pc]
Same(v) == UNCHANGED <<example, v>>
Sleeps(t) == cv' = cv \cup {t} /\ UNCHANGED <<word, at, shown>>

-----------------------------------------------------------------------------
\* A test of the word with the mutex held, and the sleep or the end that follows.
Tests(t) ==
    /\ t \in Takers /\ t \notin cv /\ at[t] = "start" /\ Same(sent)
    /\ \/ word = 0 /\ Sleeps(t)
       \/ /\ word # 0 /\ Goes(t, "done") /\ UNCHANGED <<word, cv>>
          /\ shown' = IF example = "timed" THEN Append(shown, <<TRUE, word>>) ELSE shown

\* example1, 10 and 16, 4 and 11, 6, and 9.
print_id(t) == example \in {"gate", "exit"} /\ Tests(t)
waits(t) == example = "signals" /\ Tests(t)
waits_for(t) == example = "timed" /\ Tests(t)
waits_done(t) == example = "false" /\ Tests(t)

\* example7 and 14: i is set without the mutex, so that it can change after the test.
MutexFree == \A t \in Takers : at[t] # "blocking"
waits_until(t) ==
    /\ t \in Takers /\ In({"atomic"}, t, "start") /\ MutexFree
    /\ Goes(t, IF word = 0 THEN "blocking" ELSE "done")
    /\ UNCHANGED <<example, word, sent, cv, shown>>
Blocks(t) ==
    /\ In({"atomic"}, t, "blocking") /\ Goes(t, "start") /\ cv' = cv \cup {t}
    /\ UNCHANGED <<example, word, sent, shown>>

\* wait_for() and wait_until() give up, take the mutex and return the predicate.
Timeout(t) ==
    /\ example \in {"timed", "atomic"} /\ t \in cv /\ at[t] = "start"
    /\ cv' = cv \ {t} /\ Goes(t, "late") /\ UNCHANGED <<example, word, sent, shown>>
Late(t) ==
    /\ In({"timed", "atomic"}, t, "late") /\ MutexFree
    /\ Goes(t, "done") /\ UNCHANGED <<example, word, sent, cv>>
    /\ shown' = IF example = "timed" THEN Append(shown, <<word = 1, word>>) ELSE shown

\* One step of main, or of the thread that acts for it.
Main(e, pc, next) == In(e, "main", pc) /\ Goes("main", next) /\ UNCHANGED <<example, sent, shown>>

\* go() of example1: the change and notify_all() with the mutex held.  In example17
\* notify_all_at_thread_exit() unlocks and notifies when the thread is over.
go == Main({"gate"}, "start", "done") /\ word' = 1 /\ cv' = WakeAll(cv)
go_at_exit == Main({"exit"}, "start", "notify") /\ word' = 1 /\ UNCHANGED cv

\* signals(): a notify before anything has changed, then the change, then the real one;
\* with the mutex for the change (example4, 6) and without it (example7).
FalseNotify == Main({"signals", "timed", "atomic"}, "start", "set") /\ cv' = WakeAll(cv) /\ UNCHANGED word
SetLocked == Main({"signals", "timed"}, "set", "notify") /\ word' = 1 /\ UNCHANGED cv
SetAtomic == Main({"atomic"}, "set", "notify") /\ word' = 1 /\ UNCHANGED cv
NotifyAll_One ==
    Main({"exit", "signals", "timed", "atomic"}, "notify", "done") /\ cv' \in WakeOne(cv) /\ UNCHANGED word

NotifyAll ==
    Main({"exit", "signals", "timed", "atomic"}, "notify", "done") /\ cv' = WakeAll(cv) /\ UNCHANGED word

\* example9 repeats "lk.unlock(); cv.notify_one(); lk.lock()" until done.
FalseNotifyOne == Main({"false"}, "start", "set") /\ cv' \in WakeOne(cv) /\ UNCHANGED word
SetAndTest ==
    Main({"false"}, "set", IF at[One] = "done" THEN "done" ELSE "notify") /\ word' = 1 /\ UNCHANGED cv
NotifyTrue == Main({"false"}, "notify", "again") /\ cv' \in WakeOne(cv) /\ UNCHANGED word
Again ==
    Main({"false"}, "again", IF at[One] = "done" THEN "done" ELSE "notify") /\ UNCHANGED <<word, cv>>

-----------------------------------------------------------------------------
\* example2: the worker processes the data and notifies after it has unlocked.
worker_thread ==
    /\ In({"handoff"}, One, "start") /\ Same(sent)
    /\ IF word = 0 THEN Sleeps(One) ELSE word' = 2 /\ Goes(One, "notify") /\ UNCHANGED <<cv, shown>>
WorkerNotify ==
    /\ In({"handoff"}, One, "notify")
    /\ cv' \in WakeOne(cv) /\ Goes(One, "done") /\ UNCHANGED <<example, word, sent, shown>>
SendData == Main({"handoff"}, "start", "notify") /\ word' = 1 /\ UNCHANGED cv
NotifyWorker == Main({"handoff"}, "notify", "again") /\ cv' \in WakeOne(cv) /\ UNCHANGED word
AwaitWorker ==
    /\ In({"handoff"}, "main", "again") /\ Same(sent)
    /\ IF word = 2 THEN Goes("main", "done") /\ UNCHANGED <<word, cv, shown>> ELSE Sleeps("main")

\* example3 and 12: main spins without the mutex until the cargo is gone.
shipment_available == word # 0
consume ==
    /\ In({"cargo"}, One, "start") /\ Same(sent)
    /\ IF shipment_available
       THEN /\ shown' = Append(shown, word) /\ word' = 0 /\ UNCHANGED cv
            /\ Goes(One, IF Len(shown) + 1 = Items THEN "done" ELSE "start")
       ELSE Sleeps(One)
Spin ==
    /\ In({"cargo"}, "main", "start") /\ ~ shipment_available
    /\ Goes("main", "put") /\ UNCHANGED <<example, word, sent, cv, shown>>
Put ==
    /\ In({"cargo"}, "main", "put")
    /\ word' = sent + 1 /\ sent' = sent + 1 /\ cv' \in WakeOne(cv)
    /\ Goes("main", IF sent + 1 = Items THEN "done" ELSE "start") /\ UNCHANGED <<example, shown>>

\* example8: as many consumers as producers, each side with a condition variable.
WakesOneOf(S) == \E left \in WakeOne(cv \cap S) : cv' = (cv \ S) \cup left
consumer(t) ==
    /\ t \in Takers /\ In({"cargos"}, t, "start") /\ Same(sent)
    /\ IF word = 0 THEN Sleeps(t)
       ELSE word' = 0 /\ shown' = Append(shown, word) /\ Goes(t, "done") /\ WakesOneOf(Givers)
producer(g) ==
    /\ g \in Givers /\ In({"cargos"}, g, "start") /\ Same(sent)
    /\ IF word # 0 THEN Sleeps(g)
       ELSE word' = g /\ Goes(g, "done") /\ WakesOneOf(Takers) /\ UNCHANGED shown

\* future/example5: main prints the numbers early when the letters take too long.
value_reader ==
    /\ In({"numbers"}, One, "start") /\ word < 2 /\ word' = word + 1
    /\ Goes(One, IF word = 1 THEN "done" ELSE "start") /\ UNCHANGED <<example, sent, cv, shown>>
WaitNumbers ==
    /\ In({"numbers"}, "main", "start") /\ word >= 1
    /\ shown' = IF word = 2 THEN <<>> ELSE <<"numbers">>
    /\ Goes("main", "letters") /\ UNCHANGED <<example, word, sent, cv>>
WaitLetters_Again ==
    /\ In({"numbers"}, "main", "letters") /\ word = 2
    /\ shown' = shown \o <<"numbers", "letters">>
    /\ Goes("main", "done") /\ UNCHANGED <<example, word, sent, cv>>

WaitLetters ==
    /\ In({"numbers"}, "main", "letters") /\ word = 2
    /\ shown' = (IF shown = <<>> THEN <<"numbers">> ELSE shown) \o <<"letters">>
    /\ Goes("main", "done") /\ UNCHANGED <<example, word, sent, cv>>

-----------------------------------------------------------------------------
Spurious == cv' \in SpuriousWake(cv) /\ UNCHANGED <<example, word, sent, at, shown>>

Step(t) ==
    \/ print_id(t) \/ waits(t) \/ waits_for(t) \/ waits_done(t) \/ waits_until(t) \/ Blocks(t)
    \/ Late(t) \/ consumer(t) \/ producer(t)
    \/ t = One /\ (worker_thread \/ WorkerNotify \/ consume \/ value_reader)
MainStep ==
    \/ go \/ go_at_exit \/ FalseNotify \/ SetLocked \/ SetAtomic \/ NotifyAll
    \/ FalseNotifyOne \/ SetAndTest \/ NotifyTrue \/ Again \/ SendData \/ NotifyWorker
    \/ AwaitWorker \/ Spin \/ Put \/ WaitNumbers \/ WaitLetters
Terminated == (\A t \in Threads : at[t] = "done") /\ UNCHANGED vars
Next ==
    \/ MainStep \/ Spurious \/ Terminated
    \/ \E t \in Takers \cup Givers : Step(t) \/ Timeout(t)

\* When the last notify has been given nobody sleeps for it, although the notify may come
\* before, between or after the tests; a full cargo has a consumer awake for it, an empty
\* one a producer.
NobodyForgotten ==
    /\ TypeOK
    /\ example \in {"gate", "exit", "signals", "false", "handoff"} /\ at["main"] = "done" => cv = {}
    /\ example = "cargo" /\ One \in cv => word = 0
    /\ example = "cargos" =>
          LET side == IF word = 0 THEN Givers ELSE Takers
          IN  side \cap cv # {} => \E t \in side \ cv : at[t] # "done"

\* Cargoes arrive in order, none is lost or overwritten; waiting reports a timeout only
\* while i was still unset; the numbers are printed once and before the letters.
Delivered ==
    /\ example = "cargo" => shown = [k \in DOMAIN shown |-> k]
    /\ example = "cargos" =>
          {shown[k] : k \in DOMAIN shown} \cup ({word} \ {0}) = {g \in Givers : at[g] = "done"}
    /\ example = "timed" => \A k \in DOMAIN shown : shown[k][1] = (shown[k][2] = 1)
    /\ example = "numbers" /\ at["main"] = "done" => shown = <<"numbers", "letters">>

\* Every program ends.
AllEnd == <>(\A t \in DOMAIN at : at[t] = "done")
=============================================================================
