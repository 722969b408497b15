---------------------------- MODULE LockExamples ----------------------------
(***************************************************************************)
(* Programs that share data without condition variables: three of           *)
(* cpp/base/threadtest (the list of atomic/example8.cpp that grows by          *)
(* compare-and-swap, the counter of mutex/example2.cpp that is increased when  *)
(* try_lock() succeeds, the two tasks of mutex/example15.cpp that take two     *)
(* mutexes in opposite orders), and the counter of cpp/thread/c_thread.cpp     *)
(* that has no lock.                                                         *)
(***************************************************************************)
EXTENDS Naturals, FiniteSets

CONSTANTS Threads, Nobody,
          Attempts     \* tries of each thread for the counter (10000)

VARIABLES example,
          word,    \* list_head, or counter
          owner,   \* mutex -> the thread that has it ("foo" is also the counter's)
          at,
          mine     \* thread -> its locals
VARIABLES sharedi, tmp, racePc, i   \* the unsynchronised counter, see its section

vars == <<example, word, owner, at, mine>>
A == CHOOSE t \in Threads : TRUE
B == CHOOSE t \in Threads \ {A} : TRUE
Runs(e) == IF e = "order" THEN {A, B} ELSE Threads

TypeOK ==
    /\ example \in {"list", "try", "order"}
    /\ owner \in [{"foo", "bar"} -> Threads \cup {Nobody}]
    /\ \A t \in Threads \ Runs(example) : at[t] = "done"

Init ==
    /\ example \in {"list", "try", "order"}
    /\ word = IF example = "list" THEN Nobody ELSE 0
    /\ owner = [m \in {"foo", "bar"} |-> Nobody]
    /\ at = [t \in Threads |-> IF t \in Runs(example) THEN "start" ELSE "done"]
    /\ mine = [t \in Threads |-> IF example = "list" THEN [oldHead |-> Nobody, next |-> Nobody]
                                 ELSE [i |-> 0, read |-> 0, won |-> 0]]

In(e, t, pc) == example = e /\ at[t] = pc
Goes(t, pc) == at' = [at EXCEPT ![t] = pc]
Takes(t, m) == owner[m] = Nobody /\ owner' = [owner EXCEPT ![m] = t]
Drops(m) == owner' = [owner EXCEPT ![m] = Nobody]

-----------------------------------------------------------------------------
\* append(): the node of a thread has the thread's name.
append(t) ==
    /\ In("list", t, "start")
    /\ mine' = [mine EXCEPT ![t] = [oldHead |-> word, next |-> word]]
    /\ Goes(t, "swap") /\ UNCHANGED <<example, word, owner>>

\* compare_exchange_weak() may fail without a reason; when it fails it loads oldHead.
CompareExchange_Stale(t) ==
    /\ In("list", t, "swap") /\ UNCHANGED <<example, owner>>
    /\ \/ word = mine[t].oldHead /\ word' = t /\ Goes(t, "done") /\ UNCHANGED mine
       \/ mine' = [mine EXCEPT ![t].oldHead = word] /\ UNCHANGED <<word, at>>

CompareExchange(t) ==
    /\ In("list", t, "swap") /\ UNCHANGED <<example, owner>>
    /\ \/ word = mine[t].oldHead /\ word' = t /\ Goes(t, "done") /\ UNCHANGED mine
       \/ mine' = [mine EXCEPT ![t].oldHead = word] /\ Goes(t, "relink") /\ UNCHANGED word
Relink(t) ==
    /\ In("list", t, "relink")
    /\ mine' = [mine EXCEPT ![t].next = mine[t].oldHead] /\ Goes(t, "swap")
    /\ UNCHANGED <<example, word, owner>>

\* main after the joins: "while (it = list_head) {list_head = it->next; delete it;}".
Cleanup ==
    /\ example = "list" /\ (\A t \in Threads : at[t] \in {"done", "deleted"}) /\ word # Nobody
    /\ Goes(word, "deleted") /\ word' = mine[word].next /\ UNCHANGED <<example, owner, mine>>

-----------------------------------------------------------------------------
\* attempt_10k_increases(): try_lock() may also fail without a reason.
Counted(t) == mine' = [mine EXCEPT ![t].i = @ + 1]
Left(t) == Goes(t, IF mine[t].i + 1 = Attempts THEN "done" ELSE "start")
TryLock_Ignored(t) ==
    /\ In("try", t, "start") /\ UNCHANGED <<example, word, mine>>
    /\ (Takes(t, "foo") \/ UNCHANGED owner) /\ Goes(t, "load")

TryLock(t) ==
    /\ In("try", t, "start") /\ UNCHANGED <<example, word>>
    /\ \/ Takes(t, "foo") /\ Goes(t, "load") /\ UNCHANGED mine
       \/ Counted(t) /\ Left(t) /\ UNCHANGED owner
Load(t) ==
    /\ In("try", t, "load") /\ mine' = [mine EXCEPT ![t].read = word]
    /\ Goes(t, "store") /\ UNCHANGED <<example, word, owner>>
StoreUnlock(t) ==
    /\ In("try", t, "store") /\ word' = mine[t].read + 1 /\ Left(t)
    /\ mine' = [mine EXCEPT ![t] = [i |-> @.i + 1, read |-> 0, won |-> @.won + 1]]
    /\ Drops("foo") /\ UNCHANGED example

-----------------------------------------------------------------------------
\* task_a() locks foo, then bar.
task_a ==
    /\ UNCHANGED <<example, word, mine>>
    /\ \/ In("order", A, "start") /\ Takes(A, "foo") /\ Goes(A, "second")
       \/ In("order", A, "second") /\ Takes(A, "bar") /\ Goes(A, "unlock")
       \/ In("order", A, "unlock") /\ Drops("foo") /\ Goes(A, "last")
       \/ In("order", A, "last") /\ Drops("bar") /\ Goes(A, "done")

\* task_b() tries bar, then foo; try_lock() gives bar back when foo is taken.
task_b_Keeps ==
    /\ UNCHANGED <<example, word, mine>>
    /\ \/ In("order", B, "start") /\ Takes(B, "bar") /\ Goes(B, "second")
       \/ In("order", B, "start") /\ Goes(B, "done") /\ UNCHANGED owner
       \/ In("order", B, "second") /\ Takes(B, "foo") /\ Goes(B, "unlock")
       \/ In("order", B, "second") /\ Goes(B, "done") /\ UNCHANGED owner
       \/ In("order", B, "unlock") /\ Drops("bar") /\ Goes(B, "last")
       \/ In("order", B, "last") /\ Drops("foo") /\ Goes(B, "done")

task_b ==
    /\ UNCHANGED <<example, word, mine>>
    /\ \/ In("order", B, "start") /\ Takes(B, "bar") /\ Goes(B, "second")
       \/ In("order", B, "start") /\ Goes(B, "done") /\ UNCHANGED owner
       \/ In("order", B, "second") /\ Takes(B, "foo") /\ Goes(B, "unlock")
       \/ In("order", B, "second") /\ Drops("bar") /\ Goes(B, "done")
       \/ In("order", B, "unlock") /\ Drops("bar") /\ Goes(B, "last")
       \/ In("order", B, "last") /\ Drops("foo") /\ Goes(B, "done")

Step(t) ==
    \/ append(t) \/ CompareExchange(t) \/ Relink(t) \/ TryLock(t) \/ Load(t) \/ StoreUnlock(t)
    \/ (t = A /\ task_a) \/ (t = B /\ task_b)
Ended == (\A t \in DOMAIN at : at[t] \in {"done", "deleted"}) /\ (example = "list" => word = Nobody)
Next == (\E t \in Threads : Step(t)) \/ Cleanup \/ (Ended /\ UNCHANGED vars)

-----------------------------------------------------------------------------
\* The nodes that were appended and not deleted; that a list of them runs from the head
\* to a null next; the increases that were counted, the won-th of each thread by its number.
Appended == {t \in Threads : at[t] = "done"}
IsList(s, n) ==
    /\ word = IF n = 0 THEN Nobody ELSE s[1]
    /\ \A k \in 1 .. n : mine[s[k]].next = IF k = n THEN Nobody ELSE s[k + 1]
Increases == {x \in Threads \X (1 .. Attempts) : x[2] <= mine[x[1]].won}

\* The list always holds exactly the nodes appended and not deleted, each once; every
\* increase under the mutex is counted.
NothingLost ==
    /\ TypeOK
    /\ example = "list" =>
          LET n == Cardinality(Appended) IN
          \E s \in [1 .. n -> Appended] :
             IsList(s, n) /\ \A t \in Appended : \E k \in 1 .. n : s[k] = t
    /\ example = "try" => word = Cardinality(Increases)

\* A mutex belongs to the task that is between its lock and its unlock.
MutexesOwned ==
    example = "order" =>
       /\ owner["foo"] = A <=> at[A] \in {"second", "unlock"}
       /\ owner["bar"] = A <=> at[A] \in {"unlock", "last"}
       /\ owner["bar"] = B <=> at[B] \in {"second", "unlock"}
       /\ owner["foo"] = B <=> at[B] \in {"unlock", "last"}

\* The tasks end, whatever the order in which they take the mutexes; so do the attempts.
AllEnd == <>(example = "list" \/ Ended)
-----------------------------------------------------------------------------
\* cpp/thread/c_thread.cpp: threads increment sharedi without a lock, as a load, an addition
\* in a local and a store.  Each of the three runs "for (i = 0; i <= 100000; i++)", here
\* Attempts times.
\*   tmp: each thread's local
\*   racePc: "load", "store" or "done"
\*   i: iterations each thread has completed

raceVars == <<sharedi, tmp, racePc, i>>

RaceInit ==
    /\ sharedi = 0
    /\ tmp = [t \in Threads |-> 0]
    /\ racePc = [t \in Threads |-> "load"]
    /\ i = [t \in Threads |-> 0]

\* "tmp = sharedi; tmp = tmp + 1;"
RaceLoad(t) ==
    /\ racePc[t] = "load"
    /\ tmp' = [tmp EXCEPT ![t] = sharedi + 1]
    /\ racePc' = [racePc EXCEPT ![t] = "store"]
    /\ UNCHANGED <<sharedi, i>>

\* Mutant: the local is added to sharedi instead of stored.
RaceStore_Adds(t) ==
    /\ racePc[t] = "store"
    /\ sharedi' = sharedi + tmp[t]
    /\ i' = [i EXCEPT ![t] = @ + 1]
    /\ racePc' = [racePc EXCEPT ![t] = IF i[t] + 1 = Attempts THEN "done" ELSE "load"]
    /\ UNCHANGED tmp

\* "sharedi = tmp;" and the next iteration.
RaceStore(t) ==
    /\ racePc[t] = "store"
    /\ sharedi' = tmp[t]
    /\ i' = [i EXCEPT ![t] = @ + 1]
    /\ racePc' = [racePc EXCEPT ![t] = IF i[t] + 1 = Attempts THEN "done" ELSE "load"]
    /\ UNCHANGED tmp

RaceEnded == (\A t \in Threads : racePc[t] = "done") /\ UNCHANGED raceVars
RaceNext == (\E t \in Threads : RaceLoad(t) \/ RaceStore(t)) \/ RaceEnded

\* What is left of the increments: updates are lost, but never more than all but two, and
\* none is counted twice.
FinalRange ==
    (\A t \in Threads : racePc[t] = "done") =>
        sharedi \in 2 .. Cardinality(Threads) * Attempts
=============================================================================
