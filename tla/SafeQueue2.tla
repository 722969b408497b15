----------------------------- MODULE SafeQueue2 -----------------------------
(***************************************************************************)
(* threadsafe_queue of cpp/stl/safe_queue_2.cpp: push(), the wait_and_pop()  *)
(* that returns a pointer, try_pop(T&) and empty().  Only the number of       *)
(* queued values matters.                                                   *)
(***************************************************************************)
EXTENDS Naturals, Sequences, FiniteSets, Platform

CONSTANTS Poppers,
          QueueBound     \* bound on the length of the queue

VARIABLES data_queue,  \* how many values are queued
          data_cond,   \* the threads that sleep
          popping      \* the threads inside wait_and_pop()

vars == <<data_queue, data_cond, popping>>
TypeOK == data_queue \in 0 .. QueueBound /\ data_cond \subseteq popping /\ popping \subseteq Poppers

Init == data_queue = 0 /\ data_cond = {} /\ popping = {}

push_First ==
    /\ data_queue < QueueBound
    /\ data_queue' = data_queue + 1
    /\ data_cond' \in IF data_queue = 0 THEN WakeOne(data_cond) ELSE {data_cond}
    /\ UNCHANGED popping
push ==
    /\ data_queue < QueueBound
    /\ data_queue' = data_queue + 1
    /\ data_cond' \in WakeOne(data_cond)
    /\ UNCHANGED popping

Call(t) ==
    t \notin popping /\ popping' = popping \cup {t} /\ UNCHANGED <<data_queue, data_cond>>
\* data_cond.wait(lk, predicate), and what follows it.
wait_and_pop(t) ==
    /\ t \in popping \ data_cond
    /\ IF data_queue = 0
       THEN data_cond' = data_cond \cup {t} /\ UNCHANGED <<data_queue, popping>>
       ELSE data_queue' = data_queue - 1 /\ popping' = popping \ {t} /\ UNCHANGED data_cond

empty == data_queue = 0
\* Any other thread may take a value; it finds the queue empty and returns false, else.
try_pop == ~ empty /\ data_queue' = data_queue - 1 /\ UNCHANGED <<data_cond, popping>>

Spurious == data_cond' \in SpuriousWake(data_cond) /\ UNCHANGED <<data_queue, popping>>
Next == push \/ try_pop \/ Spurious \/ \E t \in Poppers : Call(t) \/ wait_and_pop(t)

\* While anybody sleeps, every queued value has a thread of its own that is awake and about
\* to take it: two pushes in a row wake two threads.
ValuesHaveTakers ==
    TypeOK /\ (data_cond # {} => data_queue <= Cardinality(popping \ data_cond))
=============================================================================
