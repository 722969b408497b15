-------------------------- MODULE ProducerConsumer --------------------------
(***************************************************************************)
(* cpp/cpp_language/old/mult_thread/producer_consumer_1.cpp: producers and  *)
(* consumers share one queue, one mutex and one condition variable, test in *)
(* a loop and notify_all() under the lock.  producer_consumer_2.cpp is the  *)
(* same program with the bound 100 in place of MAX_SIZE.                    *)
(***************************************************************************)
EXTENDS Naturals, FiniteSets, Platform

CONSTANTS Producers, Consumers,
          MAX_SIZE     \* the "largest number of products"

VARIABLES q,    \* number of queued products
          con,  \* threads blocked on the condition variable
          run   \* the thread that acted last: history for the liveness property

vars == <<q, con, run>>
Threads == Producers \cup Consumers

TypeOK == q \in 0 .. MAX_SIZE + 1 /\ con \subseteq Threads /\ run \in Threads \cup {"none"}

Init == q = 0 /\ con = {} /\ run = "none"

\* "while (q.size() > MAX_SIZE) con.wait(lk);"
ProducerWait(p) ==
    /\ p \notin con
    /\ q > MAX_SIZE
    /\ con' = con \cup {p}
    /\ UNCHANGED <<q, run>>

\* push, then notify_all().
Produce(p) ==
    /\ p \notin con
    /\ q <= MAX_SIZE
    /\ q' = q + 1
    /\ con' = WakeAll(con)
    /\ run' = p

\* "while (q.empty()) con.wait(lk);"
ConsumerWait(c) ==
    /\ c \notin con
    /\ q = 0
    /\ con' = con \cup {c}
    /\ UNCHANGED <<q, run>>

\* Mutant: a consumer tells nobody.
Consume_Silent(c) ==
    /\ c \notin con
    /\ q > 0
    /\ q' = q - 1
    /\ run' = c
    /\ UNCHANGED con

\* pop, then notify_all().
Consume(c) ==
    /\ c \notin con
    /\ q > 0
    /\ q' = q - 1
    /\ con' = WakeAll(con)
    /\ run' = c

Spurious == con' \in SpuriousWake(con) /\ UNCHANGED <<q, run>>

ProducerStep(p) == ProducerWait(p) \/ Produce(p)
ConsumerStep(c) == ConsumerWait(c) \/ Consume(c)
Next ==
    \/ \E p \in Producers : ProducerStep(p)
    \/ \E c \in Consumers : ConsumerStep(c)
    \/ Spurious

\* The scheduler lets every awake thread run.
Fairness ==
    /\ \A p \in Producers : WF_vars(ProducerStep(p))
    /\ \A c \in Consumers : WF_vars(ConsumerStep(c))
Spec == Init /\ [][Next]_vars
FairSpec == Spec /\ Fairness

-----------------------------------------------------------------------------
\* Nobody sleeps without reason on the shared condition variable: a sleeping
\* consumer means an empty queue, a sleeping producer a full one, so both kinds
\* never sleep together.
SleepersBlocked ==
    /\ con \cap Consumers # {} => q = 0
    /\ con \cap Producers # {} => q = MAX_SIZE + 1

\* Producing and consuming both go on for ever.
BothGoOn == []<>(run \in Producers) /\ []<>(run \in Consumers)

=============================================================================
