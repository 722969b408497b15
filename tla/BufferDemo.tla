----------------------------- MODULE BufferDemo -----------------------------
(***************************************************************************)
(* Class demo of cpp/thread/producer_and_consumer.cpp: a buffer with two    *)
(* condition variables.  Producers wait on is_full and tell consumers after *)
(* the unlock; consumers tell producers only when they find the buffer      *)
(* empty, just before they wait on is_empty.  Item ids are not modelled.    *)
(***************************************************************************)
EXTENDS Naturals, FiniteSets, Platform

CONSTANTS Producers, Consumers, buffsize

VARIABLES item_buff,          \* number of items
          is_full, is_empty,  \* blocked producers, blocked consumers
          pc,                 \* "loop", or "notify" after a producer's unlock
          last                \* history: who produced or consumed last

vars == <<item_buff, is_full, is_empty, pc, last>>

TypeOK ==
    /\ item_buff \in 0 .. buffsize
    /\ is_full \subseteq Producers /\ is_empty \subseteq Consumers
    /\ pc \in [Producers -> {"loop", "notify"}]
    /\ \A p \in is_full : pc[p] = "loop"
    /\ last \in Producers \cup Consumers \cup {"none"}

Init ==
    /\ item_buff = 0 /\ is_full = {} /\ is_empty = {}
    /\ pc = [p \in Producers |-> "loop"] /\ last = "none"

ProducerWait(p) ==
    /\ pc[p] = "loop" /\ p \notin is_full
    /\ item_buff = buffsize
    /\ is_full' = is_full \cup {p}
    /\ UNCHANGED <<item_buff, is_empty, pc, last>>

\* push and unlock ...
ProduceItem(p) ==
    /\ pc[p] = "loop" /\ p \notin is_full
    /\ item_buff # buffsize
    /\ item_buff' = item_buff + 1 /\ last' = p
    /\ pc' = [pc EXCEPT ![p] = "notify"]
    /\ UNCHANGED <<is_full, is_empty>>

\* Mutant: consumers are not told.
ProducerNotify_Silent(p) ==
    /\ pc[p] = "notify"
    /\ pc' = [pc EXCEPT ![p] = "loop"]
    /\ UNCHANGED <<item_buff, is_full, is_empty, last>>

\* ... then is_empty.notify_all().
ProducerNotify(p) ==
    /\ pc[p] = "notify"
    /\ is_empty' = WakeAll(is_empty)
    /\ pc' = [pc EXCEPT ![p] = "loop"]
    /\ UNCHANGED <<item_buff, is_full, last>>

\* Mutant: an idle consumer does not wake the producer.
ConsumerWait_Silent(c) ==
    /\ c \notin is_empty
    /\ item_buff = 0
    /\ is_empty' = is_empty \cup {c}
    /\ UNCHANGED <<item_buff, is_full, pc, last>>

\* Empty: is_full.notify_one(), then wait, in one critical section.
ConsumerWait(c) ==
    /\ c \notin is_empty
    /\ item_buff = 0
    /\ is_full' \in WakeOne(is_full)
    /\ is_empty' = is_empty \cup {c}
    /\ UNCHANGED <<item_buff, pc, last>>

\* pop; the producers hear nothing of it.
ConsumeItem(c) ==
    /\ c \notin is_empty
    /\ item_buff > 0
    /\ item_buff' = item_buff - 1 /\ last' = c
    /\ UNCHANGED <<is_full, is_empty, pc>>

Spurious ==
    /\ \/ is_full' \in SpuriousWake(is_full) /\ UNCHANGED is_empty
       \/ is_empty' \in SpuriousWake(is_empty) /\ UNCHANGED is_full
    /\ UNCHANGED <<item_buff, pc, last>>

ProducerStep(p) == ProducerWait(p) \/ ProduceItem(p) \/ ProducerNotify(p)
ConsumerStep(c) == ConsumerWait(c) \/ ConsumeItem(c)
Next ==
    \/ \E p \in Producers : ProducerStep(p)
    \/ \E c \in Consumers : ConsumerStep(c)
    \/ Spurious

Fairness ==
    /\ \A p \in Producers : WF_vars(ProducerStep(p))
    /\ \A c \in Consumers : WF_vars(ConsumerStep(c))
Spec == Init /\ [][Next]_vars
FairSpec == Spec /\ Fairness

-----------------------------------------------------------------------------
\* Somebody is always awake to move things on: when every producer sleeps, a
\* consumer is awake or has an unsent notification coming.
SomebodyAwake ==
    is_full = Producers => is_empty # Consumers

\* Items for sleeping consumers are announced: a consumer sleeps beside an item
\* only while another is awake or a producer still has its notification to send.
ItemsAnnounced ==
    item_buff > 0 /\ is_empty = Consumers => \E p \in Producers : pc[p] = "notify"

\* Items are produced and consumed for ever.
KeepsFlowing == []<>(last \in Producers) /\ []<>(last \in Consumers)

=============================================================================
