--------------------------- MODULE MonitorsProofs ---------------------------
(***************************************************************************)
(* Proofs about the programs of MCMonitors, for any sets of threads, any     *)
(* number of philosophers, any buffer size, any number of signals, rounds    *)
(* and callers: first those that wait on a condition variable or for their   *)
(* turn, then those with mutexes alone or without.                          *)
(***************************************************************************)
EXTENDS MCMonitors, SharedLemmas

\* Every instance has its own copy of Cardinality; they are the same operator.
LEMMA SameCardinality ==
    /\ \A S : Sem!Cardinality(S) = Cardinality(S)
    /\ \A S : SQ!Cardinality(S) = Cardinality(S)
BY Zenon DEF Sem!Cardinality, SQ!Cardinality, Cardinality

-----------------------------------------------------------------------------
(* The semaphore. *)

\* The invariant of the semaphore is inductive as it stands.
SemInv == Sem!TypeOK /\ Sem!Conserved /\ Sem!UnitsHaveTakers

\* The constructor leaves the initial units and nobody inside.
LEMMA SemInit == Sem!Init => SemInv
BY MonitorsAssumption, FS_EmptySet, SameCardinality
   DEF Sem!Init, SemInv, Sem!TypeOK, Sem!Conserved, Sem!UnitsHaveTakers

\* Every step of wait() and signal() keeps the units and their takers.
LEMMA SemStep == SemInv /\ [Sem!Next]_semVars => SemInv'
<1> SUFFICES ASSUME SemInv, [Sem!Next]_semVars PROVE SemInv'
  OBVIOUS
<1> DEFINE awake == calling \ semCond
<1> USE MonitorsAssumption, SameCardinality
    DEF SemInv, Sem!TypeOK, Sem!Conserved, Sem!UnitsHaveTakers
<1>0. IsFiniteSet(awake) /\ IsFiniteSet(awake') /\ Cardinality(awake) \in Nat
      /\ Cardinality(awake') \in Nat
  <2>1. awake \subseteq Waiters /\ awake' \subseteq Waiters
    BY DEF Sem!Next, Sem!WaitStep, Sem!WaitCall, Sem!WaitBlock, Sem!WaitPass,
           Sem!Signal, Sem!Spurious, semVars
  <2> QED BY <2>1, FS_Subset, FS_CardinalityType
<1>1. ASSUME NEW w \in Waiters, Sem!WaitCall(w) PROVE SemInv'
  <2>1. awake' = awake \cup {w} /\ w \notin awake
    BY <1>1 DEF Sem!WaitCall
  <2>2. Cardinality(awake') = Cardinality(awake) + 1
    BY <1>0, <2>1, OneMore
  <2> QED BY <1>0, <1>1, <2>2 DEF Sem!WaitCall
<1>2. ASSUME NEW w \in Waiters, Sem!WaitBlock(w) PROVE SemInv'
  BY <1>0, <1>2 DEF Sem!WaitBlock
<1>3. ASSUME NEW w \in Waiters, Sem!WaitPass(w) PROVE SemInv'
  <2>1. awake = awake' \cup {w} /\ w \notin awake'
    BY <1>3 DEF Sem!WaitPass
  <2>2. Cardinality(awake) = Cardinality(awake') + 1
    BY <1>0, <2>1, OneMore
  <2> QED BY <1>0, <1>3, <2>2 DEF Sem!WaitPass
<1>4. CASE Sem!Signal
  <2>1. CASE semCond = {}
    BY <1>4, <2>1 DEF Sem!Signal, Sem!WakeOne
  <2>2. CASE semCond # {}
    <3>1. PICK x \in semCond : semCond' = semCond \ {x}
      BY <1>4, <2>2 DEF Sem!Signal, Sem!WakeOne
    <3>2. awake' = awake \cup {x} /\ x \notin awake
      BY <1>4, <3>1 DEF Sem!Signal
    <3>3. Cardinality(awake') = Cardinality(awake) + 1
      BY <1>0, <3>2, OneMore
    <3> QED BY <1>0, <1>4, <2>2, <3>1, <3>3 DEF Sem!Signal
  <2> QED BY <2>1, <2>2
<1>5. CASE Sem!Spurious
  <2>1. PICK x \in semCond : semCond' = semCond \ {x}
    BY <1>5 DEF Sem!Spurious, Sem!SpuriousWake
  <2>2. awake' = awake \cup {x} /\ x \notin awake
    BY <1>5, <2>1 DEF Sem!Spurious
  <2>3. Cardinality(awake') = Cardinality(awake) + 1
    BY <1>0, <2>2, OneMore
  <2> QED BY <1>0, <1>5, <2>1, <2>3 DEF Sem!Spurious
<1>6. CASE UNCHANGED semVars
  BY <1>6 DEF semVars
<1> QED BY <1>1, <1>2, <1>3, <1>4, <1>5, <1>6 DEF Sem!Next, Sem!WaitStep

-----------------------------------------------------------------------------
(* The second queue: values take the place of units. *)

\* Before the first call the queue is empty and nobody is inside.
LEMMA QueueInit == SQ!Init => SQ!ValuesHaveTakers
BY MonitorsAssumption DEF SQ!Init, SQ!ValuesHaveTakers, SQ!TypeOK

\* Every step of push(), wait_and_pop() and try_pop() keeps the takers of the values.
LEMMA QueueStep == SQ!ValuesHaveTakers /\ [SQ!Next]_sqVars => SQ!ValuesHaveTakers'
<1> SUFFICES ASSUME SQ!ValuesHaveTakers, [SQ!Next]_sqVars PROVE SQ!ValuesHaveTakers'
  OBVIOUS
<1> DEFINE awake == popping \ data_cond
<1> USE MonitorsAssumption, SameCardinality DEF SQ!ValuesHaveTakers, SQ!TypeOK, SQ!empty
<1>0. IsFiniteSet(awake) /\ IsFiniteSet(awake') /\ Cardinality(awake) \in Nat
      /\ Cardinality(awake') \in Nat
  <2>1. awake \subseteq Poppers /\ awake' \subseteq Poppers
    BY DEF SQ!Next, SQ!push, SQ!try_pop, SQ!Spurious, SQ!Call, SQ!wait_and_pop, sqVars
  <2> QED BY <2>1, FS_Subset, FS_CardinalityType
<1>1. CASE SQ!push
  <2>1. CASE data_cond = {}
    BY <1>1, <2>1 DEF SQ!push, SQ!WakeOne
  <2>2. CASE data_cond # {}
    <3>1. PICK x \in data_cond : data_cond' = data_cond \ {x}
      BY <1>1, <2>2 DEF SQ!push, SQ!WakeOne
    <3>2. awake' = awake \cup {x} /\ x \notin awake
      BY <1>1, <3>1 DEF SQ!push
    <3>3. Cardinality(awake') = Cardinality(awake) + 1
      BY <1>0, <3>2, OneMore
    <3> QED BY <1>0, <1>1, <2>2, <3>1, <3>3 DEF SQ!push
  <2> QED BY <2>1, <2>2
<1>2. CASE SQ!try_pop
  BY <1>0, <1>2 DEF SQ!try_pop
<1>3. CASE SQ!Spurious
  <2>1. PICK x \in data_cond : data_cond' = data_cond \ {x}
    BY <1>3 DEF SQ!Spurious, SQ!SpuriousWake
  <2>2. awake' = awake \cup {x} /\ x \notin awake
    BY <1>3, <2>1 DEF SQ!Spurious
  <2>3. Cardinality(awake') = Cardinality(awake) + 1
    BY <1>0, <2>2, OneMore
  <2> QED BY <1>0, <1>3, <2>1, <2>3 DEF SQ!Spurious
<1>4. ASSUME NEW t \in Poppers, SQ!Call(t) PROVE SQ!ValuesHaveTakers'
  <2>1. awake' = awake \cup {t} /\ t \notin awake
    BY <1>4 DEF SQ!Call
  <2>2. Cardinality(awake') = Cardinality(awake) + 1
    BY <1>0, <2>1, OneMore
  <2> QED BY <1>0, <1>4, <2>2 DEF SQ!Call
<1>5. ASSUME NEW t \in Poppers, SQ!wait_and_pop(t) PROVE SQ!ValuesHaveTakers'
  <2>1. CASE data_queue = 0
    BY <1>0, <1>5, <2>1 DEF SQ!wait_and_pop
  <2>2. CASE data_queue # 0
    <3>1. awake = awake' \cup {t} /\ t \notin awake'
      BY <1>5, <2>2 DEF SQ!wait_and_pop
    <3>2. Cardinality(awake) = Cardinality(awake') + 1
      BY <1>0, <3>1, OneMore
    <3> QED BY <1>0, <1>5, <2>2, <3>2 DEF SQ!wait_and_pop
  <2> QED BY <2>1, <2>2
<1>6. CASE UNCHANGED sqVars
  BY <1>6 DEF sqVars
<1> QED BY <1>1, <1>2, <1>3, <1>4, <1>5, <1>6 DEF SQ!Next

-----------------------------------------------------------------------------
(* Producers and consumers with one condition variable, and with two. *)

PCInv == PC!TypeOK /\ PC!SleepersBlocked

\* The queue is empty and nobody sleeps yet.
LEMMA PCInit == PC!Init => PCInv
BY MonitorsAssumption DEF PC!Init, PCInv, PC!TypeOK, PC!SleepersBlocked

\* Who goes to sleep has a reason, and every change of the queue wakes everybody.
LEMMA PCStep == PCInv /\ [PC!Next]_pcVars => PCInv'
<1> SUFFICES ASSUME PCInv, [PC!Next]_pcVars PROVE PCInv'
  OBVIOUS
<1> USE MonitorsAssumption DEF PCInv, PC!TypeOK, PC!SleepersBlocked, PC!Threads
<1>1. ASSUME NEW p \in Producers, PC!ProducerWait(p) PROVE PCInv'
  BY <1>1 DEF PC!ProducerWait
<1>2. ASSUME NEW p \in Producers, PC!Produce(p) PROVE PCInv'
  BY <1>2 DEF PC!Produce, PC!WakeAll
<1>3. ASSUME NEW c \in Consumers, PC!ConsumerWait(c) PROVE PCInv'
  BY <1>3 DEF PC!ConsumerWait
<1>4. ASSUME NEW c \in Consumers, PC!Consume(c) PROVE PCInv'
  BY <1>4 DEF PC!Consume, PC!WakeAll
<1>5. CASE PC!Spurious
  BY <1>5 DEF PC!Spurious, PC!SpuriousWake
<1>6. CASE UNCHANGED pcVars
  BY <1>6 DEF pcVars
<1> QED
  BY <1>1, <1>2, <1>3, <1>4, <1>5, <1>6 DEF PC!Next, PC!ProducerStep, PC!ConsumerStep

DemoInv == Demo!TypeOK /\ Demo!SomebodyAwake /\ Demo!ItemsAnnounced

\* The buffer is empty and everybody is awake.
LEMMA DemoInit == Demo!Init => DemoInv
BY MonitorsAssumption
   DEF Demo!Init, DemoInv, Demo!TypeOK, Demo!SomebodyAwake, Demo!ItemsAnnounced

\* The last producer cannot go to sleep while all consumers do: the buffer is full, so a
\* notification is still to come.
LEMMA DemoStep == DemoInv /\ [Demo!Next]_demoVars => DemoInv'
<1> SUFFICES ASSUME DemoInv, [Demo!Next]_demoVars PROVE DemoInv'
  OBVIOUS
<1> USE MonitorsAssumption
    DEF DemoInv, Demo!TypeOK, Demo!SomebodyAwake, Demo!ItemsAnnounced
<1>1. ASSUME NEW p \in Producers, Demo!ProducerWait(p) PROVE DemoInv'
  <2>1. is_full' = Producers => is_empty # Consumers
    <3> SUFFICES ASSUME is_empty = Consumers PROVE is_full' # Producers
      OBVIOUS
    <3>1. PICK n \in Producers : demoPc[n] = "notify"
      BY <1>1 DEF Demo!ProducerWait
    <3> QED BY <1>1, <3>1 DEF Demo!ProducerWait
  <2> QED BY <1>1, <2>1 DEF Demo!ProducerWait
<1>2. ASSUME NEW p \in Producers, Demo!ProduceItem(p) PROVE DemoInv'
  BY <1>2 DEF Demo!ProduceItem
<1>3. ASSUME NEW p \in Producers, Demo!ProducerNotify(p) PROVE DemoInv'
  BY <1>3 DEF Demo!ProducerNotify, Demo!WakeAll
<1>4. ASSUME NEW c \in Consumers, Demo!ConsumerWait(c) PROVE DemoInv'
  <2>1. is_full' \subseteq is_full /\ is_full' # Producers
    BY <1>4 DEF Demo!ConsumerWait, Demo!WakeOne
  <2> QED BY <1>4, <2>1 DEF Demo!ConsumerWait
<1>5. ASSUME NEW c \in Consumers, Demo!ConsumeItem(c) PROVE DemoInv'
  BY <1>5 DEF Demo!ConsumeItem
<1>6. CASE Demo!Spurious
  BY <1>6 DEF Demo!Spurious, Demo!SpuriousWake
<1>7. CASE UNCHANGED demoVars
  BY <1>7 DEF demoVars
<1> QED BY <1>1, <1>2, <1>3, <1>4, <1>5, <1>6, <1>7
        DEF Demo!Next, Demo!ProducerStep, Demo!ConsumerStep
-----------------------------------------------------------------------------
(* Printing in turn. *)

\* The turn after the next line is the next turn.
LEMMA NextTurn ==
    ASSUME NEW N \in Nat \ {0}, NEW n \in Nat
    PROVE  n % N \in 0 .. N - 1 /\ ((n % N) + 1) % N = (n + 1) % N
<1> DEFINE d == n \div N
           r == n % N
<1>1. n = N * d + r /\ r \in 0 .. N - 1 /\ d \in Int
  BY DivMod
<1> HIDE DEF d, r
<1>2. CASE r + 1 < N
  <2> DEFINE m == n + 1
             s == r + 1
  <2>1. m = N * d + s /\ s = N * 0 + s /\ s \in 0 .. N - 1 /\ m \in Nat /\ 0 \in Int
    BY <1>1, <1>2
  <2> HIDE DEF m, s
  <2>2. m % N = s
    BY <1>1, <2>1, ModUnique
  <2>3. s % N = s
    BY <2>1, ModUnique
  <2> QED BY <1>1, <2>2, <2>3 DEF r, m, s
<1>3. CASE r + 1 = N
  <2>1. n + 1 = N * (d + 1) + 0 /\ r + 1 = N * 1 + 0 /\ 0 \in 0 .. N - 1
    BY <1>1, <1>3
  <2>2. n + 1 \in Nat /\ r + 1 \in Nat /\ d + 1 \in Int /\ 1 \in Int
    BY <1>1
  <2>3. (n + 1) % N = 0
    BY <2>1, <2>2, ModUnique
  <2>4. (r + 1) % N = 0
    BY <2>1, <2>2, ModUnique
  <2> QED BY <1>1, <2>3, <2>4 DEF r
<1> QED BY <1>1, <1>2, <1>3

\* The turn is the number of lines printed so far, and a spinning thread that has seen its
\* turn still has it when it prints.  Both versions keep this.
Ids == 0 .. Printers - 1
TurnInv ==
    /\ flag \in Ids /\ out \in Seq(Ids)
    /\ turnPc \in [Ids -> {"test", "print", "done"}]
    /\ flag = Len(out) % Printers
    /\ \A t \in Ids : turnPc[t] = "print" => flag = t
    /\ Cond!InTurn /\ Cond!SleepsOutOfTurn

\* Thread 0 begins.
LEMMA TurnInit == Cond!Init \/ Spin!Init => TurnInv
<1> SUFFICES ASSUME Cond!Init \/ Spin!Init PROVE TurnInv
  OBVIOUS
<1>1. Printers \in Nat \ {0} /\ 0 \in Ids
  BY MonitorsAssumption DEF Ids
<1>2. out = <<>> /\ flag = 0 /\ turnCond = {}
  BY DEF Cond!Init, Spin!Init
<1>3. turnPc \in [Ids -> {"test", "print", "done"}] /\ \A t \in Ids : turnPc[t] # "print"
  BY DEF Cond!Init, Spin!Init, Ids, Cond!Ids, Spin!Ids
<1>4. 0 = Printers * 0 + 0 /\ 0 \in 0 .. Printers - 1
  BY <1>1
<1>5. 0 % Printers = 0
  BY <1>1, <1>4, ModUnique
<1> QED BY <1>1, <1>2, <1>3, <1>5 DEF TurnInv, Cond!InTurn, Cond!SleepsOutOfTurn

\* Printing by the thread whose turn it is.
LEMMA TurnPasses ==
    ASSUME TurnInv, NEW t \in Ids, flag = t, NEW pc \in {"test", "done"},
           out' = Append(out, t), flag' = (flag + 1) % Printers, turnCond' = {},
           turnPc' = [turnPc EXCEPT ![t] = pc]
    PROVE  TurnInv'
<1>1. Printers \in Nat \ {0} /\ Len(out) \in Nat /\ out' \in Seq(Ids) /\ Len(out') = Len(out) + 1
  BY MonitorsAssumption DEF TurnInv
<1>2. flag' = Len(out') % Printers /\ flag' \in Ids
  <2>1. flag = Len(out) % Printers
    BY DEF TurnInv
  <2>2. ((Len(out) % Printers) + 1) % Printers = (Len(out) + 1) % Printers
    BY <1>1, NextTurn
  <2>3. (Len(out) + 1) % Printers \in 0 .. Printers - 1
    BY <1>1, NextTurn
  <2> QED BY <1>1, <2>1, <2>2, <2>3 DEF Ids
<1>3. Cond!InTurn'
  <2> SUFFICES ASSUME NEW k \in 1 .. Len(out) + 1 PROVE out'[k] = (k - 1) % Printers
    BY <1>1 DEF Cond!InTurn
  <2>1. CASE k \in 1 .. Len(out)
    BY <1>1, <2>1 DEF TurnInv, Cond!InTurn
  <2>2. CASE k = Len(out) + 1
    BY <1>1, <2>2 DEF TurnInv
  <2> QED BY <1>1, <2>1, <2>2
<1>4. turnPc' \in [Ids -> {"test", "print", "done"}] /\ \A u \in Ids : turnPc'[u] # "print"
  BY DEF TurnInv
<1> QED BY <1>1, <1>2, <1>3, <1>4 DEF TurnInv, Cond!SleepsOutOfTurn

\* No step of the waiting version disturbs the turn.
LEMMA CondStep == TurnInv /\ [Cond!Next]_turnVars => TurnInv'
<1> SUFFICES ASSUME TurnInv, [Cond!Next]_turnVars PROVE TurnInv'
  OBVIOUS
<1> USE DEF Cond!Ids, Ids
<1>1. ASSUME NEW t \in Ids, Cond!CondWait(t) PROVE TurnInv'
  BY <1>1 DEF Cond!CondWait, TurnInv, Cond!InTurn, Cond!SleepsOutOfTurn
<1>2. ASSUME NEW t \in Ids, Cond!PassOn(t), flag = t PROVE TurnInv'
  BY <1>2, TurnPasses DEF Cond!PassOn, Cond!WakeAll
<1>3. CASE Cond!Spurious
  BY <1>3 DEF Cond!Spurious, Cond!SpuriousWake, TurnInv, Cond!InTurn, Cond!SleepsOutOfTurn
<1>4. CASE UNCHANGED turnVars
  BY <1>4 DEF turnVars, TurnInv, Cond!InTurn, Cond!SleepsOutOfTurn
<1> QED
  BY <1>1, <1>2, <1>3, <1>4
  DEF Cond!Next, Cond!Step, Cond!CondPrint, Cond!SpinTest, Cond!SpinPrint, Cond!SpinYield,
      Cond!Terminated, Cond!vars, turnVars, TurnInv

\* Nor does one of the spinning version.
LEMMA SpinStep == TurnInv /\ [Spin!Next]_turnVars => TurnInv'
<1> SUFFICES ASSUME TurnInv, [Spin!Next]_turnVars PROVE TurnInv'
  OBVIOUS
<1> USE DEF Spin!Ids, Ids
<1>1. ASSUME NEW t \in Ids, Spin!SpinTest(t) PROVE TurnInv'
  BY <1>1 DEF Spin!SpinTest, TurnInv, Cond!InTurn, Cond!SleepsOutOfTurn
<1>2. ASSUME NEW t \in Ids, Spin!PassOn(t), flag = t PROVE TurnInv'
  BY <1>2, TurnPasses DEF Spin!PassOn, Spin!WakeAll
<1>3. CASE Spin!Spurious
  BY <1>3 DEF Spin!Spurious, Spin!SpuriousWake, TurnInv, Cond!InTurn, Cond!SleepsOutOfTurn
<1>4. CASE UNCHANGED turnVars
  BY <1>4 DEF turnVars, TurnInv, Cond!InTurn, Cond!SleepsOutOfTurn
<1> QED
  BY <1>1, <1>2, <1>3, <1>4
  DEF Spin!Next, Spin!Step, Spin!CondWait, Spin!CondPrint, Spin!SpinPrint, Spin!SpinYield,
      Spin!Terminated, Spin!vars, turnVars, TurnInv

-----------------------------------------------------------------------------
(* Two printers in turn. *)

Letters == {"A", "B"}

\* The flag is the opposite of the last letter, and its owner is awake.
ABInv ==
    /\ abFlag \in BOOLEAN /\ cond_var \subseteq {"A", "B"}
    /\ shown \in Seq(Letters) /\ Len(shown) <= 2
    /\ Len(shown) > 0 => shown[Len(shown)] = IF abFlag THEN "B" ELSE "A"
    /\ AB!TurnAwake /\ AB!Alternate

\* A begins.
LEMMA ABInit == AB!Init => ABInv
BY DEF AB!Init, ABInv, AB!TurnAwake, AB!Alternate

\* The thread whose turn it is.
Turn == IF abFlag THEN "A" ELSE "B"

\* A letter follows the other one, with at most one kept before it.
LEMMA NextLetter ==
    ASSUME ABInv,
           Len(shown) = 2 => shown' = Append(Tail(shown), Turn),
           Len(shown) # 2 => shown' = Append(shown, Turn)
    PROVE  /\ shown' \in Seq(Letters) /\ Len(shown') > 0 /\ Len(shown') <= 2
           /\ shown'[Len(shown')] = Turn /\ AB!Alternate'
<1>1. shown \in Seq(Letters) /\ Len(shown) <= 2 /\ Turn \in Letters
  <2>1. shown \in Seq(Letters) /\ Len(shown) <= 2
    BY DEF ABInv
  <2>2. Turn \in Letters
    BY DEF Turn, Letters
  <2> QED BY <2>1, <2>2
<1>2. Len(shown) > 0 => shown[Len(shown)] # Turn
  <2>1. CASE abFlag
    BY <2>1 DEF ABInv, Turn
  <2>2. CASE ~abFlag
    BY <2>2 DEF ABInv, Turn
  <2> QED BY <2>1, <2>2
<1>3. CASE Len(shown) = 2
  <2> DEFINE w == Tail(shown)
  <2>1. w \in Seq(Letters) /\ Len(w) = 1 /\ w[1] = shown[2] /\ shown' = Append(w, Turn)
    BY <1>1, <1>3
  <2> HIDE DEF w
  <2>2. shown' \in Seq(Letters) /\ Len(shown') = 2 /\ shown'[2] = Turn /\ shown'[1] = shown[2]
    BY <1>1, <2>1
  <2> QED BY <1>1, <1>2, <1>3, <2>2 DEF AB!Alternate
<1>4. CASE Len(shown) # 2
  <2>1. shown' = Append(shown, Turn)
    BY <1>4
  <2>2. shown' \in Seq(Letters) /\ Len(shown') = Len(shown) + 1 /\ shown'[Len(shown')] = Turn
        /\ (Len(shown) = 1 => shown'[1] = shown[1])
    BY <1>1, <2>1
  <2>3. CASE Len(shown) = 1
    BY <1>1, <1>2, <2>2, <2>3 DEF AB!Alternate
  <2>4. CASE Len(shown) = 0
    BY <1>1, <2>2, <2>4 DEF AB!Alternate
  <2>5. Len(shown) \in Nat /\ \A n \in Nat : n <= 2 /\ n # 2 => n = 0 \/ n = 1
    BY <1>1
  <2> QED BY <1>1, <1>4, <2>3, <2>4, <2>5
<1> QED BY <1>3, <1>4

\* Printing passes the turn on; both ways of notifying leave the other thread awake.
LEMMA ABPrints ==
    ASSUME ABInv, Turn \notin cond_var, abFlag' = ~abFlag,
           Len(shown) = 2 => shown' = Append(Tail(shown), Turn),
           Len(shown) # 2 => shown' = Append(shown, Turn),
           cond_var' \in AB!WakeOne(cond_var) \cup {AB!WakeAll(cond_var)}
    PROVE  ABInv'
<1>1. cond_var' = {}
  BY DEF ABInv, Turn, AB!WakeOne, AB!WakeAll
<1>2. shown' \in Seq(Letters) /\ Len(shown') > 0 /\ Len(shown') <= 2 /\ shown'[Len(shown')] = Turn
      /\ AB!Alternate'
  BY NextLetter
<1>3. CASE abFlag
  BY <1>1, <1>2, <1>3 DEF ABInv, AB!TurnAwake, Turn
<1>4. CASE ~abFlag
  BY <1>1, <1>2, <1>4 DEF ABInv, AB!TurnAwake, Turn
<1> QED BY <1>3, <1>4

\* No step of either pair of printers disturbs the turn.
LEMMA ABStep == ABInv /\ [AB!Next]_abVars => ABInv'
<1> SUFFICES ASSUME ABInv, [AB!Next]_abVars PROVE ABInv'
  OBVIOUS
<1>1. CASE AB!Waits("A", abFlag) \/ AB!Waits("B", ~abFlag)
  <2>1. Turn \notin cond_var' /\ cond_var' \subseteq {"A", "B"}
    BY <1>1 DEF AB!Waits, ABInv, AB!TurnAwake, Turn
  <2>2. UNCHANGED <<abFlag, shown>>
    BY <1>1 DEF AB!Waits
  <2> QED BY <2>1, <2>2 DEF ABInv, AB!TurnAwake, AB!Alternate, Turn
<1>2. ASSUME AB!Prints("A", abFlag),
             cond_var' \in AB!WakeOne(cond_var) \cup {AB!WakeAll(cond_var)}
      PROVE  ABInv'
  BY <1>2, ABPrints DEF AB!Prints, Turn
<1>3. ASSUME AB!Prints("B", ~abFlag),
             cond_var' \in AB!WakeOne(cond_var) \cup {AB!WakeAll(cond_var)}
      PROVE  ABInv'
  BY <1>3, ABPrints DEF AB!Prints, Turn
<1>4. CASE AB!Spurious
  BY <1>4 DEF AB!Spurious, AB!SpuriousWake, ABInv, AB!TurnAwake, AB!Alternate
<1>5. CASE UNCHANGED abVars
  BY <1>5 DEF abVars, ABInv, AB!TurnAwake, AB!Alternate
<1> QED BY <1>1, <1>2, <1>3, <1>4, <1>5
        DEF AB!Next, AB!StepA, AB!StepB, AB!printA, AB!printA2, AB!printB, AB!printB2

-----------------------------------------------------------------------------
(* The examples with condition variables. *)

\* Where a thread of the examples can be.
Places == {"start", "blocking", "late", "set", "notify", "again", "put", "letters", "done"}

\* What holds in every example: a thread that sleeps has tested and not gone on, and a
\* thread that the example does not start is over.
CEFrame ==
    /\ example \in CE!Examples /\ exCv \subseteq CE!Runs(example) /\ mine \in 0 .. MaxSignals
    /\ exAt \in [CE!Threads -> Places]
    /\ \A t \in CE!Threads : t \notin CE!Runs(example) => exAt[t] = "done"
    /\ \A t \in exCv : IF t = "main" THEN exAt[t] = "again" /\ example = "handoff"
                         ELSE exAt[t] = "start"

\* The gate, the signals and the timed waits: the word is set before the last notify.
GateInv ==
    example \in {"gate", "exit", "signals", "timed"} =>
       /\ word \in {0, 1}
       /\ exAt["main"] \in {"notify", "done"} => word = 1
       /\ exAt["main"] = "done" => exCv = {}

\* A report of a timed wait is right about the word it returns.
Reports == {<<TRUE, 1>>, <<FALSE, 0>>}
TimedInv == example = "timed" => exOut \in Seq(Reports)

\* example9 goes on until its thread is done; main of example2 until the data is processed.
FalseInv == example = "false" /\ exAt["main"] = "done" => exAt[CE!One] = "done"
HandoffInv ==
    example = "handoff" =>
       /\ word = 2 => exAt[CE!One] # "start"
       /\ exAt["main"] = "done" => word = 2

\* The cargo is the one sent last, those before it have arrived.
CargoInv ==
    example = "cargo" =>
       /\ exOut \in Seq(Nat) /\ \A k \in 1 .. Len(exOut) : exOut[k] = k
       /\ word \in Nat /\ word \in {0, mine} /\ Len(exOut) = IF word = 0 THEN mine ELSE mine - 1
       /\ exAt["main"] \in {"start", "put"} => mine < MaxSignals
       /\ exAt["main"] = "put" => word = 0
       /\ CE!One \in exCv => word = 0

\* A full cargo has a consumer awake, an empty one a producer; nothing is lost.
Side == IF word = 0 THEN Callers ELSE Waiters
CargosInv ==
    example = "cargos" =>
       /\ word \in Callers \cup {0} /\ exOut \in Seq(Callers)
       /\ Side \cap exCv # {} => \E t \in Side \ exCv : exAt[t] # "done"
       /\ {exOut[k] : k \in 1 .. Len(exOut)} \cup ({word} \ {0}) = {g \in Callers : exAt[g] = "done"}

\* The numbers are printed before the letters.
NumbersInv ==
    example = "numbers" =>
       /\ exAt["main"] = "start" => exOut = <<>>
       /\ exAt["main"] = "letters" => exOut \in {<<>>, <<"numbers">>}
       /\ exAt["main"] = "done" => exOut = <<"numbers", "letters">>

CEInv == CEFrame /\ GateInv /\ TimedInv /\ FalseInv /\ HandoffInv /\ CargoInv /\ CargosInv /\ NumbersInv

\* The threads of an example, and who they are not.
LEMMA CEThreads ==
    /\ CE!One \in Waiters /\ CE!One \notin Callers /\ CE!One # "main"
    /\ "main" \notin Waiters /\ "main" \notin Callers /\ Waiters \cap Callers = {}
    /\ \A t \in Waiters \cup Callers \cup {"main"} : t \in CE!Threads
<1>1. Waiters # {} /\ Waiters \cap Callers = {} /\ "main" \notin Waiters \cup Callers
  BY MonitorsAssumption
<1>2. CE!One \in Waiters
  BY <1>1 DEF CE!One
<1> QED BY <1>1, <1>2 DEF CE!Threads

\* An example starts its threads.
LEMMA CEInit == CE!Init => CEInv
<1> SUFFICES ASSUME CE!Init PROVE CEInv
  OBVIOUS
<1>1. MaxSignals \in Nat \ {0} /\ 0 \in 0 .. MaxSignals
  BY MonitorsAssumption
<1>2. CEFrame
  BY <1>1 DEF CE!Init, CEFrame, Places
<1>3. word = 0 /\ mine = 0 /\ exCv = {} /\ exOut = <<>>
  BY DEF CE!Init
<1>4. \A t \in CE!Threads : t \in CE!Runs(example) => exAt[t] = "start"
  BY DEF CE!Init
<1>5. example # "cargos" => exAt["main"] = "start"
  BY <1>4, CEThreads DEF CE!Runs
<1>6. example = "cargos" => \A g \in Callers : exAt[g] = "start"
  BY <1>4, CEThreads DEF CE!Runs
<1>7. GateInv /\ TimedInv /\ FalseInv /\ HandoffInv /\ NumbersInv
  BY <1>3, <1>5 DEF GateInv, TimedInv, FalseInv, HandoffInv, NumbersInv
<1>8. CargoInv
  BY <1>1, <1>3, <1>5 DEF CargoInv
<1>9. CargosInv
  BY <1>3, <1>6 DEF CargosInv, Side
<1> QED BY <1>2, <1>7, <1>8, <1>9 DEF CEInv

-----------------------------------------------------------------------------
\* Every step of an example is one of four kinds: a thread that is awake goes on and wakes
\* some, a thread goes to sleep, a thread gives up or goes to sleep late, some wake up.
Moves(t) ==
    /\ t \in CE!Threads /\ t \notin exCv /\ exAt[t] # "done" /\ exCv' \subseteq exCv
    /\ \E p \in Places : exAt' = [exAt EXCEPT ![t] = p]
Rests(t) ==
    /\ t \in CE!Threads /\ t \notin exCv /\ exCv' = exCv \cup {t} /\ exAt' = exAt
    /\ IF t = "main" THEN exAt[t] = "again" /\ example = "handoff" ELSE exAt[t] = "start"
Late(t) ==
    /\ t \in CE!Threads /\ t # "main" /\ exAt[t] # "done"
    /\ \/ exCv' = exCv \cup {t} /\ exAt' = [exAt EXCEPT ![t] = "start"]
       \/ exCv' = exCv \ {t} /\ exAt' = [exAt EXCEPT ![t] = "late"]
Wakes == exCv' \subseteq exCv /\ exAt' = exAt

\* Such a step keeps the frame.
LEMMA CEKinds ==
    ASSUME CEFrame, example' = example, mine' \in 0 .. MaxSignals,
           Wakes \/ \E t \in CE!Threads : Moves(t) \/ Rests(t) \/ Late(t)
    PROVE  CEFrame'
<1>1. CASE Wakes
  BY <1>1 DEF Wakes, CEFrame
<1>2. ASSUME NEW t \in CE!Threads, Moves(t) PROVE CEFrame'
  BY <1>2 DEF Moves, CEFrame
<1>3. ASSUME NEW t \in CE!Threads, Rests(t) PROVE CEFrame'
  BY <1>3 DEF Rests, CEFrame, Places
<1>4. ASSUME NEW t \in CE!Threads, Late(t) PROVE CEFrame'
  <2>1. t \in CE!Runs(example) /\ t # "main"
    BY <1>4 DEF Late, CEFrame
  <2>2. CASE exCv' = exCv \cup {t} /\ exAt' = [exAt EXCEPT ![t] = "start"]
    BY <2>1, <2>2 DEF CEFrame, Places
  <2>3. CASE exCv' = exCv \ {t} /\ exAt' = [exAt EXCEPT ![t] = "late"]
    BY <2>1, <2>3 DEF CEFrame, Places
  <2> QED BY <1>4, <2>2, <2>3 DEF Late
<1> QED BY <1>1, <1>2, <1>3, <1>4

\* notify_one() and a wakeup without a reason only take threads away.
LEMMA CEWakes ==
    /\ \A S : \A T \in CE!WakeOne(S) : T \subseteq S
    /\ \A S : \A T \in CE!SpuriousWake(S) : T \subseteq S
BY DEF CE!WakeOne, CE!SpuriousWake

\* Steps of the waiting threads.
LEMMA CETakerSteps ==
    ASSUME CEFrame, NEW t \in Waiters \cup Callers, CE!Step(t) \/ CE!Timeout(t)
    PROVE  CEFrame'
<1> USE CEThreads DEF Places, CE!In, CE!Goes, CE!Same, CE!Sleeps
<1>1. t \in CE!Threads /\ mine \in 0 .. MaxSignals
  BY DEF CEFrame
<1>2. CASE CE!Tests(t)
  <2>1. CASE word = 0 /\ CE!Sleeps(t)
    BY <1>1, <1>2, <2>1, CEKinds DEF CE!Tests, Rests
  <2>2. CASE word # 0 /\ CE!Goes(t, "done") /\ UNCHANGED <<word, exCv>>
    BY <1>1, <1>2, <2>2, CEKinds DEF CE!Tests, Moves
  <2> QED BY <1>2, <2>1, <2>2 DEF CE!Tests
<1>3. CASE CE!waits_until(t)
  BY <1>1, <1>3, CEKinds DEF CE!waits_until, Moves
<1>4. CASE CE!Blocks(t)
  BY <1>1, <1>4, CEKinds DEF CE!Blocks, Late
<1>5. CASE CE!Timeout(t)
  BY <1>1, <1>5, CEKinds DEF CE!Timeout, Late
<1>6. CASE CE!Late(t)
  BY <1>1, <1>6, CEKinds DEF CE!Late, Moves
<1>7. ASSUME NEW S, CE!WakesOneOf(S) PROVE exCv' \subseteq exCv
  BY <1>7, CEWakes DEF CE!WakesOneOf
<1>8. CASE CE!consumer(t)
  <2>1. CASE word = 0
    BY <1>1, <1>8, <2>1, CEKinds DEF CE!consumer, Rests
  <2>2. CASE word # 0
    BY <1>1, <1>7, <1>8, <2>2, CEKinds DEF CE!consumer, Moves
  <2> QED BY <2>1, <2>2
<1>9. CASE CE!producer(t)
  <2>1. CASE word # 0
    BY <1>1, <1>9, <2>1, CEKinds DEF CE!producer, Rests
  <2>2. CASE word = 0
    BY <1>1, <1>7, <1>9, <2>2, CEKinds DEF CE!producer, Moves
  <2> QED BY <2>1, <2>2
<1>10. CASE t = CE!One /\ CE!worker_thread
  <2>1. CASE word = 0
    BY <1>1, <1>10, <2>1, CEKinds DEF CE!worker_thread, Rests
  <2>2. CASE word # 0
    BY <1>1, <1>10, <2>2, CEKinds DEF CE!worker_thread, Moves
  <2> QED BY <2>1, <2>2
<1>11. CASE t = CE!One /\ CE!WorkerNotify
  BY <1>1, <1>11, CEKinds, CEWakes DEF CE!WorkerNotify, Moves
<1>12. CASE t = CE!One /\ CE!consume
  <2>1. CASE word = 0
    BY <1>1, <1>12, <2>1, CEKinds DEF CE!consume, CE!shipment_available, Rests
  <2>2. CASE word # 0
    BY <1>1, <1>12, <2>2, CEKinds DEF CE!consume, CE!shipment_available, Moves
  <2> QED BY <2>1, <2>2
<1>13. CASE t = CE!One /\ CE!value_reader
  BY <1>1, <1>13, CEKinds DEF CE!value_reader, Moves
<1> QED
  BY <1>2, <1>3, <1>4, <1>5, <1>6, <1>8, <1>9, <1>10, <1>11, <1>12, <1>13
  DEF CE!Step, CE!print_id, CE!waits, CE!waits_for, CE!waits_done

\* Steps of main.
LEMMA CEMainSteps ==
    ASSUME CEFrame, CE!MainStep, CargoInv
    PROVE  CEFrame'
<1> USE CEThreads DEF Places
<1>1. "main" \in CE!Threads /\ mine \in 0 .. MaxSignals
  BY DEF CEFrame
<1>2. ASSUME NEW e, NEW pc, NEW next \in Places, pc # "done", CE!Main(e, pc, next),
             exCv' \subseteq exCv
      PROVE  CEFrame'
  BY <1>1, <1>2, CEKinds DEF CE!Main, CE!In, CE!Goes, Moves
<1>3. CASE CE!go \/ CE!go_at_exit
  BY <1>2, <1>3 DEF CE!go, CE!go_at_exit, CE!WakeAll
<1>4. CASE CE!FalseNotify \/ CE!SetLocked \/ CE!SetAtomic \/ CE!NotifyAll
  BY <1>2, <1>4 DEF CE!FalseNotify, CE!SetLocked, CE!SetAtomic, CE!NotifyAll, CE!WakeAll
<1>5. CASE CE!FalseNotifyOne \/ CE!NotifyTrue \/ CE!NotifyWorker
  BY <1>2, <1>5, CEWakes DEF CE!FalseNotifyOne, CE!NotifyTrue, CE!NotifyWorker
<1>6. CASE CE!SetAndTest \/ CE!Again \/ CE!SendData
  BY <1>2, <1>6 DEF CE!SetAndTest, CE!Again, CE!SendData
<1>7. CASE CE!AwaitWorker
  <2>1. CASE word = 2
    BY <1>1, <1>7, <2>1, CEKinds DEF CE!AwaitWorker, CE!In, CE!Goes, CE!Same, Moves
  <2>2. CASE word # 2
    BY <1>1, <1>7, <2>2, CEKinds DEF CE!AwaitWorker, CE!In, CE!Same, CE!Sleeps, Rests
  <2> QED BY <2>1, <2>2
<1>8. CASE CE!Spin
  BY <1>1, <1>8, CEKinds DEF CE!Spin, CE!In, CE!Goes, Moves
<1>9. CASE CE!Put
  <2>1. mine' \in 0 .. MaxSignals
    BY <1>1, <1>9, MonitorsAssumption DEF CE!Put, CE!In, CargoInv
  <2>2. Moves("main")
    BY <1>1, <1>9, CEWakes DEF CE!Put, CE!In, CE!Goes, Moves
  <2> QED BY <1>1, <1>9, <2>1, <2>2, CEKinds DEF CE!Put
<1>10. CASE CE!WaitNumbers
  BY <1>1, <1>10, CEKinds DEF CE!WaitNumbers, CE!In, CE!Goes, Moves
<1>11. CASE CE!WaitLetters
  BY <1>1, <1>11, CEKinds DEF CE!WaitLetters, CE!In, CE!Goes, Moves
<1> QED BY <1>3, <1>4, <1>5, <1>6, <1>7, <1>8, <1>9, <1>10, <1>11 DEF CE!MainStep

\* No step disturbs the frame.
LEMMA CEFrameStep == ASSUME CEFrame, CargoInv, [CE!Next]_exVars PROVE CEFrame'
<1>1. CASE CE!Spurious
  <2>1. exCv' \subseteq exCv /\ exAt' = exAt /\ example' = example /\ mine' = mine
    BY <1>1, CEWakes DEF CE!Spurious
  <2> QED BY <2>1, CEKinds DEF CEFrame, Wakes
<1>2. CASE UNCHANGED exVars
  BY <1>2 DEF exVars, CEFrame
<1> QED BY <1>1, <1>2, CETakerSteps, CEMainSteps DEF CE!Next, CE!Terminated, CE!vars, exVars

-----------------------------------------------------------------------------
\* The steps that each example can take.
LEMMA ByExample ==
    ASSUME [CE!Next]_exVars
    PROVE  /\ example' = example
           /\ example \in {"gate", "exit", "signals", "timed"} =>
                 \/ UNCHANGED exVars \/ CE!Spurious \/ CE!go \/ CE!go_at_exit \/ CE!FalseNotify
                 \/ CE!SetLocked \/ CE!NotifyAll
                 \/ \E t \in Waiters \cup Callers : CE!Tests(t) \/ CE!Timeout(t) \/ CE!Late(t)
           /\ example = "false" =>
                 \/ UNCHANGED exVars \/ CE!Spurious \/ CE!FalseNotifyOne \/ CE!SetAndTest
                 \/ CE!NotifyTrue \/ CE!Again
                 \/ \E t \in Waiters : CE!Tests(t)
           /\ example = "handoff" =>
                 \/ UNCHANGED exVars \/ CE!Spurious \/ CE!worker_thread \/ CE!WorkerNotify
                 \/ CE!SendData \/ CE!NotifyWorker \/ CE!AwaitWorker
           /\ example = "cargo" =>
                 UNCHANGED exVars \/ CE!Spurious \/ CE!consume \/ CE!Spin \/ CE!Put
           /\ example = "cargos" =>
                 \/ UNCHANGED exVars \/ CE!Spurious
                 \/ \E t \in Waiters \cup Callers : CE!consumer(t) \/ CE!producer(t)
           /\ example = "numbers" =>
                 \/ UNCHANGED exVars \/ CE!Spurious \/ CE!value_reader \/ CE!WaitNumbers
                 \/ CE!WaitLetters
<1> USE DEF CE!Next, CE!MainStep, CE!Spurious, CE!Terminated, CE!Step, CE!Timeout, exVars, CE!vars,
        CE!print_id, CE!waits, CE!waits_for, CE!waits_done, CE!waits_until, CE!Blocks,
        CE!Late, CE!consumer, CE!producer, CE!worker_thread, CE!WorkerNotify, CE!consume,
        CE!value_reader, CE!go, CE!go_at_exit, CE!FalseNotify, CE!SetLocked, CE!SetAtomic,
        CE!NotifyAll, CE!FalseNotifyOne, CE!SetAndTest, CE!NotifyTrue, CE!Again, CE!SendData,
        CE!NotifyWorker, CE!AwaitWorker, CE!Spin, CE!Put, CE!WaitNumbers, CE!WaitLetters,
        CE!In, CE!Main, CE!Same
<1>1. example' = example
  BY DEF CE!Tests
<1>2. \A t : CE!Tests(t) => t \in Waiters
  BY DEF CE!Tests
<1> QED BY <1>1, <1>2

\* The gate and the signals: only a thread that finds the word unset goes to sleep, and the
\* word is set before the last notify.
LEMMA GateStep == ASSUME CEFrame, GateInv, [CE!Next]_exVars PROVE GateInv'
<1> SUFFICES ASSUME example \in {"gate", "exit", "signals", "timed"} PROVE GateInv'
  BY ByExample DEF GateInv
<1> USE CEThreads DEF CE!In, CE!Goes, CE!Same, CE!Main, GateInv
<1>0. exAt \in [CE!Threads -> Places] /\ example' = example
  BY ByExample DEF CEFrame
<1>1. ASSUME NEW t \in Waiters \cup Callers, CE!Tests(t) PROVE GateInv'
  <2>1. word' = word /\ exAt'["main"] = exAt["main"] /\ (word = 0 \/ exCv' = exCv)
    BY <1>0, <1>1 DEF CE!Tests, CE!Sleeps
  <2> QED BY <1>0, <2>1
<1>2. ASSUME NEW t \in Waiters \cup Callers, CE!Timeout(t) \/ CE!Late(t) PROVE GateInv'
  <2>1. exCv' \subseteq exCv /\ word' = word /\ exAt'["main"] = exAt["main"]
    BY <1>0, <1>2 DEF CE!Timeout, CE!Late
  <2> QED BY <1>0, <2>1
<1>3. CASE CE!go \/ CE!go_at_exit
  BY <1>0, <1>3 DEF CE!go, CE!go_at_exit, CE!WakeAll
<1>4. CASE CE!FalseNotify \/ CE!SetLocked \/ CE!NotifyAll
  BY <1>0, <1>4 DEF CE!FalseNotify, CE!SetLocked, CE!NotifyAll, CE!WakeAll
<1>5. CASE CE!Spurious \/ UNCHANGED exVars
  BY <1>0, <1>5, CEWakes DEF CE!Spurious, exVars
<1> QED BY <1>1, <1>2, <1>3, <1>4, <1>5, ByExample

\* A timed wait that returns before the word is set reports it unset, one that returns
\* after reports it set.
LEMMA TimedStep == ASSUME CEFrame, GateInv, TimedInv, [CE!Next]_exVars PROVE TimedInv'
<1> SUFFICES ASSUME example = "timed" PROVE TimedInv'
  BY ByExample DEF TimedInv
<1> USE DEF CE!In, CE!Same, CE!Main, TimedInv
<1>0. example' = example /\ exOut \in Seq(Reports) /\ word \in {0, 1}
  BY ByExample DEF GateInv
<1>1. ASSUME NEW t \in Waiters \cup Callers, CE!Tests(t) PROVE TimedInv'
  <2>1. word # 0 => <<TRUE, word>> \in Reports
    BY <1>0 DEF Reports
  <2> DEFINE r == <<TRUE, word>>
  <2>2. exOut' = exOut \/ (word # 0 /\ exOut' = Append(exOut, r))
    BY <1>0, <1>1 DEF CE!Tests, CE!Sleeps
  <2>3. word # 0 => r \in Reports
    BY <2>1
  <2> HIDE DEF r
  <2> QED BY <1>0, <2>2, <2>3
<1>2. ASSUME NEW t \in Waiters \cup Callers, CE!Timeout(t) \/ CE!Late(t) PROVE TimedInv'
  <2>1. <<word = 1, word>> \in Reports
    BY <1>0 DEF Reports
  <2> DEFINE r == <<word = 1, word>>
  <2>2. exOut' = exOut \/ exOut' = Append(exOut, r)
    BY <1>0, <1>2 DEF CE!Timeout, CE!Late
  <2>3. r \in Reports
    BY <2>1
  <2> HIDE DEF r
  <2> QED BY <1>0, <2>2, <2>3
<1>3. CASE UNCHANGED exOut
  BY <1>0, <1>3
<1> QED BY <1>0, <1>1, <1>2, <1>3, ByExample
        DEF CE!go, CE!go_at_exit, CE!FalseNotify, CE!SetLocked, CE!NotifyAll, CE!Spurious, exVars

\* main of example9 ends only after it has seen that its thread is done.
LEMMA FalseStep == ASSUME CEFrame, FalseInv, [CE!Next]_exVars PROVE FalseInv'
<1> SUFFICES ASSUME example = "false" PROVE FalseInv'
  BY ByExample DEF FalseInv
<1>0. exAt \in [CE!Threads -> Places] /\ example' = example
  BY ByExample DEF CEFrame
<1> USE CEThreads DEF CE!In, CE!Goes, CE!Same, CE!Main, FalseInv
<1>1. ASSUME NEW t \in Waiters, CE!Tests(t) PROVE FalseInv'
  BY <1>0, <1>1 DEF CE!Tests, CE!Sleeps
<1>2. CASE CE!FalseNotifyOne \/ CE!SetAndTest \/ CE!NotifyTrue \/ CE!Again
  BY <1>0, <1>2 DEF CE!FalseNotifyOne, CE!SetAndTest, CE!NotifyTrue, CE!Again
<1>3. CASE CE!Spurious \/ UNCHANGED exVars
  BY <1>0, <1>3 DEF CE!Spurious, exVars
<1> QED BY <1>1, <1>2, <1>3, ByExample

\* main of example2 ends only when the worker has processed the data.
LEMMA HandoffStep == ASSUME CEFrame, HandoffInv, [CE!Next]_exVars PROVE HandoffInv'
<1> SUFFICES ASSUME example = "handoff" PROVE HandoffInv'
  BY ByExample DEF HandoffInv
<1>0. exAt \in [CE!Threads -> Places] /\ example' = example
  BY ByExample DEF CEFrame
<1> USE CEThreads DEF CE!In, CE!Goes, CE!Same, CE!Main, CE!Sleeps, HandoffInv
<1>1. CASE CE!worker_thread \/ CE!WorkerNotify
  BY <1>0, <1>1 DEF CE!worker_thread, CE!WorkerNotify
<1>2. CASE CE!SendData \/ CE!NotifyWorker \/ CE!AwaitWorker
  BY <1>0, <1>2 DEF CE!SendData, CE!NotifyWorker, CE!AwaitWorker
<1>3. CASE CE!Spurious \/ UNCHANGED exVars
  BY <1>0, <1>3 DEF CE!Spurious, exVars
<1> QED BY <1>1, <1>2, <1>3, ByExample

\* A cargo is sent only into an empty hold, and arrives before the next one.
LEMMA CargoStep == ASSUME CEFrame, CargoInv, [CE!Next]_exVars PROVE CargoInv'
<1> SUFFICES ASSUME example = "cargo" PROVE CargoInv'
  BY ByExample DEF CargoInv
<1>0. /\ exAt \in [CE!Threads -> Places] /\ example' = example
      /\ exCv \subseteq {CE!One, "main"} /\ "main" \notin exCv
  BY ByExample, CEThreads DEF CEFrame, CE!Runs, CE!Examples
<1>1. /\ exOut \in Seq(Nat) /\ word \in Nat /\ mine \in Nat /\ MaxSignals \in Nat
      /\ Len(exOut) = IF word = 0 THEN mine ELSE mine - 1
      /\ word = 0 \/ word = mine
  BY MonitorsAssumption DEF CargoInv, CEFrame
<1> USE CEThreads DEF CE!In, CE!Goes, CE!Same
<1>2. CASE CE!consume
  <2>1. CASE word = 0
    BY <1>0, <1>1, <1>2, <2>1 DEF CE!consume, CE!shipment_available, CE!Sleeps, CargoInv
  <2>2. CASE word # 0
    <3>1. /\ exOut' = Append(exOut, word) /\ word' = 0 /\ exCv' = exCv /\ mine' = mine
          /\ exAt'["main"] = exAt["main"]
      BY <1>0, <1>2, <2>2 DEF CE!consume, CE!shipment_available
    <3>2. word = Len(exOut) + 1 /\ exOut' \in Seq(Nat) /\ Len(exOut') = mine
      BY <1>1, <2>2, <3>1
    <3>3. \A k \in 1 .. Len(exOut') : exOut'[k] = k
      <4> SUFFICES ASSUME NEW k \in 1 .. Len(exOut) + 1 PROVE exOut'[k] = k
        BY <1>1, <3>1
      <4>1. CASE k \in 1 .. Len(exOut)
        BY <1>1, <3>1, <4>1 DEF CargoInv
      <4>2. CASE k = Len(exOut) + 1
        BY <1>1, <3>1, <3>2, <4>2
      <4> QED BY <1>1, <4>1, <4>2
    <3> QED BY <1>0, <1>1, <3>1, <3>2, <3>3 DEF CargoInv
  <2> QED BY <2>1, <2>2
<1>3. CASE CE!Spin
  BY <1>0, <1>1, <1>3 DEF CE!Spin, CE!shipment_available, CargoInv
<1>4. CASE CE!Put
  <2>1. /\ word = 0 /\ mine < MaxSignals /\ word' = mine + 1 /\ mine' = mine + 1 /\ exOut' = exOut
        /\ exCv' \in CE!WakeOne(exCv)
    BY <1>4 DEF CE!Put, CargoInv
  <2>2. CE!One \notin exCv'
    BY <1>0, <2>1 DEF CE!WakeOne
  <2>3. exAt'["main"] = IF mine + 1 = MaxSignals THEN "done" ELSE "start"
    BY <1>0, <1>4 DEF CE!Put
  <2>4. exAt'["main"] \in {"start", "put"} => mine + 1 < MaxSignals
    BY <1>1, <2>1, <2>3
  <2>5. exAt'["main"] # "put"
    BY <2>3
  <2>6. \A k \in 1 .. Len(exOut') : exOut'[k] = k
    BY <2>1 DEF CargoInv
  <2> QED BY <1>0, <1>1, <2>1, <2>2, <2>4, <2>5, <2>6 DEF CargoInv
<1>5. CASE CE!Spurious
  BY <1>0, <1>1, <1>5, CEWakes DEF CE!Spurious, CargoInv
<1>6. CASE UNCHANGED exVars
  BY <1>0, <1>1, <1>6 DEF exVars, CargoInv
<1> QED BY <1>2, <1>3, <1>4, <1>5, <1>6, ByExample

\* Two one-element sequences joined.
LEMMA TwoElements ==
    ASSUME NEW S, NEW a \in S, NEW b \in S
    PROVE  <<a>> \o <<b>> = <<a, b>>
<1> DEFINE s == <<a>> \o <<b>>
           t == <<a, b>>
<1>1. s \in Seq(S) /\ Len(s) = 2 /\ t \in Seq(S) /\ Len(t) = 2
  OBVIOUS
<1>2. s[1] = a /\ s[2] = b /\ t[1] = a /\ t[2] = b
  OBVIOUS
<1> HIDE DEF s, t
<1>3. s = t
  BY <1>1, <1>2, SeqEqual
<1> QED BY <1>3 DEF s, t

\* The numbers come out once and before the letters, however long the letters take.
LEMMA NumbersStep == ASSUME CEFrame, NumbersInv, [CE!Next]_exVars PROVE NumbersInv'
<1> SUFFICES ASSUME example = "numbers" PROVE NumbersInv'
  BY ByExample DEF NumbersInv
<1>0. exAt \in [CE!Threads -> Places] /\ example' = example
  BY ByExample DEF CEFrame
<1> USE CEThreads DEF CE!In, CE!Goes, CE!Same
<1>1. CASE CE!value_reader
  BY <1>0, <1>1 DEF CE!value_reader, NumbersInv
<1>2. CASE CE!WaitNumbers
  BY <1>0, <1>2 DEF CE!WaitNumbers, NumbersInv
<1>3. CASE CE!WaitLetters
  <2>1. exOut \in {<<>>, <<"numbers">>} /\ exAt'["main"] = "done"
    BY <1>0, <1>3 DEF CE!WaitLetters, NumbersInv
  <2>2. exOut' = <<"numbers">> \o <<"letters">>
    BY <1>3, <2>1 DEF CE!WaitLetters
  <2>3. <<"numbers">> \o <<"letters">> = <<"numbers", "letters">>
    <3> DEFINE W == {"numbers", "letters"}
    <3>1. "numbers" \in W /\ "letters" \in W
      OBVIOUS
    <3> HIDE DEF W
    <3> QED BY <3>1, TwoElements
  <2> QED BY <1>0, <2>1, <2>2, <2>3 DEF NumbersInv
<1>4. CASE CE!Spurious \/ UNCHANGED exVars
  BY <1>0, <1>4 DEF CE!Spurious, exVars, NumbersInv
<1> QED BY <1>1, <1>2, <1>3, <1>4, ByExample

\* Taking or bringing a cargo wakes a thread of the other side, if one sleeps.
LEMMA CargosStep == ASSUME CEFrame, CargosInv, [CE!Next]_exVars PROVE CargosInv'
<1> SUFFICES ASSUME example = "cargos" PROVE CargosInv'
  BY ByExample DEF CargosInv
<1>0. /\ exAt \in [CE!Threads -> Places] /\ example' = example
      /\ Waiters \cap Callers = {} /\ 0 \notin Callers
      /\ \A t \in exCv : exAt[t] = "start"
      /\ \A t \in Waiters \cup Callers : t \in CE!Threads
  BY ByExample, CEThreads, MonitorsAssumption DEF CEFrame
<1>1. /\ word \in Callers \cup {0} /\ exOut \in Seq(Callers)
      /\ Side \cap exCv # {} => \E t \in Side \ exCv : exAt[t] # "done"
      /\ {exOut[k] : k \in 1 .. Len(exOut)} \cup ({word} \ {0}) = {g \in Callers : exAt[g] = "done"}
  BY DEF CargosInv
<1> USE DEF CE!In, CE!Goes, CE!Same
<1>2. ASSUME NEW S \in {Waiters, Callers}, CE!WakesOneOf(S), NEW t \in Waiters \cup Callers,
             t \notin S, exAt' = [exAt EXCEPT ![t] = "done"]
      PROVE  S \cap exCv' # {} => \E u \in S \ exCv' : exAt'[u] # "done"
  <2> SUFFICES ASSUME S \cap exCv' # {} PROVE \E u \in S \ exCv' : exAt'[u] # "done"
    OBVIOUS
  <2>1. PICK rest \in CE!WakeOne(exCv \cap S) : exCv' = (exCv \ S) \cup rest
    BY <1>2 DEF CE!WakesOneOf
  <2>2. exCv \cap S # {}
    BY <2>1, CEWakes
  <2>3. PICK u \in exCv \cap S : rest = (exCv \cap S) \ {u}
    BY <2>1, <2>2 DEF CE!WakeOne
  <2>4. u \notin exCv' /\ u # t /\ exAt'[u] = "start"
    BY <1>0, <1>2, <2>1, <2>3
  <2> QED BY <2>3, <2>4
<1>3. ASSUME NEW t \in Waiters \cup Callers, CE!consumer(t) PROVE CargosInv'
  <2>1. t \in Waiters /\ t \notin Callers /\ t \notin exCv
    BY <1>0, <1>3 DEF CE!consumer
  <2>2. CASE word = 0
    <3>1. exCv' = exCv \cup {t} /\ UNCHANGED <<word, exAt, exOut>>
      BY <1>3, <2>2 DEF CE!consumer, CE!Sleeps
    <3>2. Side' \cap exCv' = Side \cap exCv /\ Side' \ exCv' = Side \ exCv
      BY <2>1, <2>2, <3>1 DEF Side
    <3> QED BY <1>0, <1>1, <3>1, <3>2 DEF CargosInv
  <2>3. CASE word # 0
    <3>1. /\ word' = 0 /\ exOut' = Append(exOut, word) /\ exAt' = [exAt EXCEPT ![t] = "done"]
          /\ CE!WakesOneOf(Callers) /\ word \in Callers
      BY <1>1, <1>3, <2>3 DEF CE!consumer
    <3>2. Side' \cap exCv' # {} => \E u \in Side' \ exCv' : exAt'[u] # "done"
      BY <1>2, <2>1, <3>1 DEF Side
    <3>3. exOut' \in Seq(Callers)
          /\ {exOut'[k] : k \in 1 .. Len(exOut')} = {exOut[k] : k \in 1 .. Len(exOut)} \cup {word}
      BY <1>1, <3>1, AppendRange
    <3>4. {g \in Callers : exAt'[g] = "done"} = {g \in Callers : exAt[g] = "done"}
      BY <1>0, <2>1, <3>1
    <3>5. {exOut'[k] : k \in 1 .. Len(exOut')} \cup ({word'} \ {0}) = {g \in Callers : exAt'[g] = "done"}
      BY <1>0, <1>1, <2>3, <3>1, <3>3, <3>4
    <3> QED BY <3>1, <3>2, <3>3, <3>5 DEF CargosInv
  <2> QED BY <2>2, <2>3
<1>4. ASSUME NEW t \in Waiters \cup Callers, CE!producer(t) PROVE CargosInv'
  <2>1. t \in Callers /\ t \notin Waiters /\ t \notin exCv /\ t # 0
    BY <1>0, <1>4 DEF CE!producer
  <2>2. CASE word # 0
    <3>1. exCv' = exCv \cup {t} /\ UNCHANGED <<word, exAt, exOut>>
      BY <1>4, <2>2 DEF CE!producer, CE!Sleeps
    <3>2. Side' \cap exCv' = Side \cap exCv /\ Side' \ exCv' = Side \ exCv
      BY <2>1, <2>2, <3>1 DEF Side
    <3> QED BY <1>0, <1>1, <3>1, <3>2 DEF CargosInv
  <2>3. CASE word = 0
    <3>1. /\ word' = t /\ exOut' = exOut /\ exAt' = [exAt EXCEPT ![t] = "done"]
          /\ CE!WakesOneOf(Waiters)
      BY <1>1, <1>4, <2>3 DEF CE!producer
    <3>2. Side' \cap exCv' # {} => \E u \in Side' \ exCv' : exAt'[u] # "done"
      BY <1>2, <2>1, <3>1 DEF Side
    <3>3. {g \in Callers : exAt'[g] = "done"} = {g \in Callers : exAt[g] = "done"} \cup {t}
      BY <1>0, <2>1, <3>1
    <3>4. {exOut'[k] : k \in 1 .. Len(exOut')} \cup ({word'} \ {0}) = {g \in Callers : exAt'[g] = "done"}
      BY <1>0, <1>1, <2>1, <2>3, <3>1, <3>3
    <3> QED BY <1>1, <2>1, <3>1, <3>2, <3>4 DEF CargosInv
  <2> QED BY <2>2, <2>3
<1>5. CASE CE!Spurious
  <2>1. exCv' \subseteq exCv /\ UNCHANGED <<example, word, exAt, exOut>>
    BY <1>5, CEWakes DEF CE!Spurious
  <2>2. Side' \cap exCv' # {} => \E t \in Side' \ exCv' : exAt'[t] # "done"
    BY <1>1, <2>1 DEF Side
  <2> QED BY <1>1, <2>1, <2>2 DEF CargosInv
<1>6. CASE UNCHANGED exVars
  BY <1>1, <1>6 DEF exVars, CargosInv, Side
<1> QED BY <1>3, <1>4, <1>5, <1>6, ByExample

\* All examples together.
LEMMA CEStep == CEInv /\ [CE!Next]_exVars => CEInv'
BY CEFrameStep, GateStep, TimedStep, FalseStep, HandoffStep, CargoStep, CargosStep, NumbersStep
   DEF CEInv

\* The invariant gives the two properties of the examples.
LEMMA CESound == CEInv => CE!NobodyForgotten /\ CE!Delivered
<1> SUFFICES ASSUME CEInv PROVE CE!NobodyForgotten /\ CE!Delivered
  OBVIOUS
<1> USE CEThreads DEF CEInv
<1>1. CE!TypeOK
  BY DEF CE!TypeOK, CEFrame
<1>2. example \in {"gate", "exit", "signals"} /\ exAt["main"] = "done" => exCv = {}
  BY DEF GateInv
<1>3. example \in {"false", "handoff"} /\ exAt["main"] = "done" => exCv = {}
  <2> SUFFICES ASSUME example \in {"false", "handoff"}, exAt["main"] = "done" PROVE exCv = {}
    OBVIOUS
  <2>1. exCv \subseteq {CE!One, "main"} /\ "main" \notin exCv
    BY DEF CEFrame, CE!Runs
  <2>2. CE!One \notin exCv
    BY DEF CEFrame, FalseInv, HandoffInv
  <2> QED BY <2>1, <2>2
<1>4. CE!NobodyForgotten
  BY <1>1, <1>2, <1>3 DEF CE!NobodyForgotten, CargoInv, CargosInv, Side
<1>5. example = "cargo" => exOut = [k \in DOMAIN exOut |-> k]
  <2> SUFFICES ASSUME example = "cargo" PROVE exOut = [k \in DOMAIN exOut |-> k]
    OBVIOUS
  <2>1. exOut \in Seq(Nat) /\ \A k \in 1 .. Len(exOut) : exOut[k] = k
    BY DEF CargoInv
  <2> QED BY <2>1
<1>6. example = "cargos" =>
         {exOut[k] : k \in DOMAIN exOut} \cup ({word} \ {0}) = {g \in Callers : exAt[g] = "done"}
  BY DEF CargosInv
<1>7. example = "timed" => \A k \in DOMAIN exOut : exOut[k][1] = (exOut[k][2] = 1)
  <2> SUFFICES ASSUME example = "timed", NEW k \in DOMAIN exOut
               PROVE exOut[k][1] = (exOut[k][2] = 1)
    OBVIOUS
  <2>1. exOut[k] \in Reports
    BY DEF TimedInv
  <2>2. CASE exOut[k] = <<TRUE, 1>>
    <3>1. exOut[k][1] = TRUE /\ exOut[k][2] = 1
      BY <2>2
    <3> QED BY <3>1, Zenon
  <2>3. CASE exOut[k] = <<FALSE, 0>>
    <3>1. exOut[k][1] = FALSE /\ exOut[k][2] = 0 /\ 0 # 1
      BY <2>3
    <3> QED BY <3>1, Zenon
  <2> QED BY <2>1, <2>2, <2>3 DEF Reports
<1>8. example = "numbers" /\ exAt["main"] = "done" => exOut = <<"numbers", "letters">>
  BY DEF NumbersInv
<1> QED BY <1>4, <1>5, <1>6, <1>7, <1>8 DEF CE!Delivered

-----------------------------------------------------------------------------
(* The suite: the programs with a condition variable or a turn. *)

\* The programs together.
MonitorsInv ==
    /\ SemInv /\ PCInv /\ DemoInv /\ SQ!ValuesHaveTakers /\ TurnInv /\ ABInv
    /\ prog = "ce" => CEInv

\* A step of the suite is a step of every program or leaves its state alone.
LEMMA Components ==
    ASSUME [Next]_allVars
    PROVE  /\ [Sem!Next]_semVars /\ [PC!Next]_pcVars /\ [Demo!Next]_demoVars
           /\ [SQ!Next]_sqVars /\ [AB!Next]_abVars /\ prog' = prog
           /\ [Cond!Next]_turnVars \/ [Spin!Next]_turnVars
           /\ prog = "ce" => [CE!Next]_exVars
BY DEF Next, allVars, Only, SemOnly, PcOnly, DemoOnly, PhilOnly, TurnOnly, RaceOnly, OneOnly,
       AbOnly, SqOnly, ExOnly

\* The invariant of the suite is inductive.
LEMMA MonitorsInductive ==
    /\ Init => MonitorsInv
    /\ MonitorsInv /\ [Next]_allVars => MonitorsInv'
<1>1. Init => MonitorsInv
  <2> SUFFICES ASSUME Init PROVE MonitorsInv
    OBVIOUS
  <2>1. Cond!Init \/ Spin!Init
    BY DEF Init
  <2>2. Sem!Init /\ PC!Init /\ Demo!Init /\ SQ!Init /\ AB!Init /\ (prog = "ce" => CE!Init)
    BY DEF Init
  <2> QED BY <2>1, <2>2, SemInit, PCInit, DemoInit, QueueInit, TurnInit, ABInit, CEInit
          DEF MonitorsInv
<1>2. MonitorsInv /\ [Next]_allVars => MonitorsInv'
  <2> SUFFICES ASSUME MonitorsInv, [Next]_allVars PROVE MonitorsInv'
    OBVIOUS
  <2>1. SemInv' /\ PCInv' /\ DemoInv' /\ SQ!ValuesHaveTakers' /\ ABInv'
    BY Components, SemStep, PCStep, DemoStep, QueueStep, ABStep DEF MonitorsInv
  <2>2. TurnInv'
    BY Components, CondStep, SpinStep DEF MonitorsInv
  <2>3. prog' = "ce" => CEInv'
    BY Components, CEStep DEF MonitorsInv
  <2> QED BY <2>1, <2>2, <2>3 DEF MonitorsInv
<1> QED BY <1>1, <1>2

\* Semaphore::wait() and signal(): units are neither made nor lost.
THEOREM SemConservedHolds == Spec => []SemConserved
<1>1. MonitorsInv => SemConserved
  BY DEF MonitorsInv, SemInv, SemConserved
<1> QED BY <1>1, MonitorsInductive, PTL DEF Spec

\* No program of the suite loses a wakeup: whoever sleeps on a condition variable has
\* nothing to do, or somebody is awake for it.
THEOREM NoLostWakeupHolds == Spec => []NoLostWakeup
<1>1. MonitorsInv => NoLostWakeup
  BY CESound
  DEF MonitorsInv, SemInv, PCInv, DemoInv, TurnInv, ABInv, NoLostWakeup
<1> QED BY <1>1, MonitorsInductive, PTL DEF Spec

\* The printing threads print strictly in turn, for any number of threads and rounds,
\* and what the examples deliver arrives once and in order.
THEOREM InTurnHolds == Spec => []InTurn
<1>1. MonitorsInv => InTurn
  BY CESound DEF MonitorsInv, TurnInv, ABInv, InTurn
<1> QED BY <1>1, MonitorsInductive, PTL DEF Spec

-----------------------------------------------------------------------------
(* The philosophers. *)

\* Each philosopher has exactly what its place in the loop says.
PhilInv == Phil!TypeOK /\ Phil!OwnsWhatItUnlocks

\* The chopsticks of a philosopher are two different ones.
LEMMA TwoChopsticks ==
    /\ Philosophs \in Nat \ {0, 1} /\ Nobody \notin Phil!Phil
    /\ \A p \in Phil!Phil : /\ Phil!Left(p) \in Phil!Phil /\ Phil!Right(p) \in Phil!Phil
                            /\ Phil!Left(p) # Phil!Right(p)
BY MonitorsAssumption DEF Phil!Phil, Phil!Left, Phil!Right

\* All chopsticks lie on the table.
LEMMA PhilInit == Phil!Init => PhilInv
BY TwoChopsticks DEF Phil!Init, PhilInv, Phil!TypeOK, Phil!OwnsWhatItUnlocks, Phil!Holds

\* No step takes a chopstick from somebody else.
LEMMA PhilStep == PhilInv /\ [Phil!Next]_philVars => PhilInv'
<1> SUFFICES ASSUME PhilInv, [Phil!Next]_philVars PROVE PhilInv'
  OBVIOUS
<1>0. /\ chopstick \in [Phil!Phil -> Phil!Phil \cup {Nobody}]
      /\ philPc \in [Phil!Phil -> {"left", "right", "back", "eat", "release"}]
      /\ \A p \in Phil!Phil : {c \in Phil!Phil : chopstick[c] = p} = Phil!Holds(p)
  BY DEF PhilInv, Phil!TypeOK, Phil!OwnsWhatItUnlocks
<1>1. ASSUME NEW p \in Phil!Phil, NEW c \in Phil!Phil, NEW o \in Phil!Phil \cup {Nobody},
             NEW pc \in {"left", "right", "back", "eat", "release"},
             chopstick' = [chopstick EXCEPT ![c] = o], philPc' = [philPc EXCEPT ![p] = pc],
             chopstick[c] \in {p, Nobody}, o \in {p, Nobody},
             Phil!Holds(p)' = {d \in Phil!Phil : chopstick'[d] = p}
      PROVE  PhilInv'
  <2>1. Phil!TypeOK'
    BY <1>0, <1>1 DEF Phil!TypeOK
  <2>2. ASSUME NEW u \in Phil!Phil, u # p
        PROVE  {d \in Phil!Phil : chopstick'[d] = u} = Phil!Holds(u)'
    <3>1. {d \in Phil!Phil : chopstick'[d] = u} = {d \in Phil!Phil : chopstick[d] = u}
      BY <1>0, <1>1, <2>2, TwoChopsticks
    <3>2. Phil!Holds(u)' = Phil!Holds(u)
      BY <1>0, <1>1, <2>2 DEF Phil!Holds
    <3> QED BY <1>0, <3>1, <3>2
  <2> QED BY <1>1, <2>1, <2>2 DEF PhilInv, Phil!OwnsWhatItUnlocks
<1>2. ASSUME NEW p \in Phil!Phil, Phil!TakeLeft(p) PROVE PhilInv'
  <2>1. Phil!Holds(p)' = {Phil!Left(p)}
    BY <1>0, <1>2 DEF Phil!TakeLeft, Phil!Holds
  <2>2. {d \in Phil!Phil : chopstick'[d] = p} = {Phil!Left(p)}
    BY <1>0, <1>2, TwoChopsticks DEF Phil!TakeLeft, Phil!Holds
  <2> QED BY <1>0, <1>1, <1>2, <2>1, <2>2, TwoChopsticks DEF Phil!TakeLeft
<1>3. ASSUME NEW p \in Phil!Phil, Phil!TryRight(p) PROVE PhilInv'
  <2>1. CASE chopstick[Phil!Right(p)] = Nobody
    <3>1. Phil!Holds(p)' = {Phil!Left(p), Phil!Right(p)}
      BY <1>0, <1>3, <2>1 DEF Phil!TryRight, Phil!Holds
    <3>2. {d \in Phil!Phil : chopstick[d] = p} = {Phil!Left(p)}
      BY <1>0, <1>3 DEF Phil!TryRight, Phil!Holds
    <3>3. {d \in Phil!Phil : chopstick'[d] = p} = {Phil!Left(p), Phil!Right(p)}
      BY <1>0, <1>3, <2>1, <3>2, TwoChopsticks DEF Phil!TryRight
    <3> QED BY <1>0, <1>1, <1>3, <2>1, <3>1, <3>3, TwoChopsticks DEF Phil!TryRight
  <2>2. CASE chopstick[Phil!Right(p)] # Nobody
    <3>1. chopstick' = chopstick /\ philPc' = [philPc EXCEPT ![p] = "back"] /\ philPc[p] = "right"
      BY <1>3, <2>2 DEF Phil!TryRight
    <3>2. \A u \in Phil!Phil : Phil!Holds(u)' = Phil!Holds(u)
      BY <1>0, <3>1 DEF Phil!Holds
    <3> QED BY <1>0, <3>1, <3>2 DEF PhilInv, Phil!TypeOK, Phil!OwnsWhatItUnlocks
  <2> QED BY <2>1, <2>2
<1>4. ASSUME NEW p \in Phil!Phil, Phil!PutBack(p) PROVE PhilInv'
  <2>1. {d \in Phil!Phil : chopstick[d] = p} = {Phil!Left(p)}
    BY <1>0, <1>4 DEF Phil!PutBack, Phil!Holds
  <2>2. Phil!Holds(p)' = {}
    BY <1>0, <1>4 DEF Phil!PutBack, Phil!Holds
  <2>3. {d \in Phil!Phil : chopstick'[d] = p} = {}
    BY <1>0, <1>4, <2>1, TwoChopsticks DEF Phil!PutBack
  <2>4. chopstick[Phil!Left(p)] = p
    BY <2>1, TwoChopsticks
  <2> QED BY <1>0, <1>1, <1>4, <2>2, <2>3, <2>4, TwoChopsticks DEF Phil!PutBack
<1>5. ASSUME NEW p \in Phil!Phil, Phil!ReleaseLeft(p) PROVE PhilInv'
  <2>1. {d \in Phil!Phil : chopstick[d] = p} = {Phil!Left(p), Phil!Right(p)}
    BY <1>0, <1>5 DEF Phil!ReleaseLeft, Phil!Holds
  <2>2. Phil!Holds(p)' = {Phil!Right(p)}
    BY <1>0, <1>5 DEF Phil!ReleaseLeft, Phil!Holds
  <2>3. {d \in Phil!Phil : chopstick'[d] = p} = {Phil!Right(p)}
    BY <1>0, <1>5, <2>1, TwoChopsticks DEF Phil!ReleaseLeft
  <2>4. chopstick[Phil!Left(p)] = p
    BY <2>1, TwoChopsticks
  <2> QED BY <1>0, <1>1, <1>5, <2>2, <2>3, <2>4, TwoChopsticks DEF Phil!ReleaseLeft
<1>6. ASSUME NEW p \in Phil!Phil, Phil!ReleaseRight(p) PROVE PhilInv'
  <2>1. {d \in Phil!Phil : chopstick[d] = p} = {Phil!Right(p)}
    BY <1>0, <1>6 DEF Phil!ReleaseRight, Phil!Holds
  <2>2. Phil!Holds(p)' = {}
    BY <1>0, <1>6 DEF Phil!ReleaseRight, Phil!Holds
  <2>3. {d \in Phil!Phil : chopstick'[d] = p} = {}
    BY <1>0, <1>6, <2>1, TwoChopsticks DEF Phil!ReleaseRight
  <2>4. chopstick[Phil!Right(p)] = p
    BY <2>1, TwoChopsticks
  <2> QED BY <1>0, <1>1, <1>6, <2>2, <2>3, <2>4, TwoChopsticks DEF Phil!ReleaseRight
<1>7. CASE UNCHANGED philVars
  BY <1>7 DEF philVars, PhilInv, Phil!TypeOK, Phil!OwnsWhatItUnlocks, Phil!Holds
<1> QED BY <1>2, <1>3, <1>4, <1>5, <1>6, <1>7 DEF Phil!Next, Phil!Step

\* A chopstick lies between two neighbours and belongs to one.
LEMMA PhilApart == PhilInv => Phil!NeighboursApart
<1> SUFFICES ASSUME PhilInv, NEW p \in Phil!Phil, philPc[p] = "eat", philPc[Phil!Left(p)] = "eat"
             PROVE  FALSE
  BY DEF Phil!NeighboursApart
<1>1. Phil!Left(p) \in Phil!Phil /\ Phil!Left(p) # p
  BY TwoChopsticks DEF Phil!Right
<1>2. Phil!Left(p) \in Phil!Holds(p) /\ Phil!Left(p) \in Phil!Holds(Phil!Left(p))
  BY DEF Phil!Holds, Phil!Right
<1> QED BY <1>1, <1>2 DEF PhilInv, Phil!OwnsWhatItUnlocks

-----------------------------------------------------------------------------
(* The examples with a mutex or a compare-and-swap. *)

\* The instances have their own copies of Cardinality; they are the same operator.
LEMMA LockCardinality ==
    /\ \A S : One!Cardinality(S) = Cardinality(S)
    /\ \A S : LE!Cardinality(S) = Cardinality(S)
BY Zenon DEF One!Cardinality, LE!Cardinality, Cardinality

OrderPlaces == {"start", "second", "unlock", "last", "done"}
ListPlaces == {"start", "swap", "relink", "done", "deleted"}
TryPlaces == {"start", "load", "store", "done"}
Node == Counters \cup {Nobody}

\* Two mutexes: only the two tasks own them, where their code says.
OrderInv ==
    /\ exAt \in [Counters -> OrderPlaces]
    /\ \A t \in Counters \ {LE!A, LE!B} : exAt[t] = "done"
    /\ LE!MutexesOwned

\* s lists n members of D, each once.
Lists(s, n, D) ==
    /\ n \in Nat /\ s \in [1 .. n -> D]
    /\ \A t \in D : \E k \in 1 .. n : s[k] = t
    /\ \A k, m \in 1 .. n : s[k] = s[m] => k = m

Listed ==
    \E s : Lists(s, Cardinality(LE!Appended), LE!Appended)
           /\ LE!IsList(s, Cardinality(LE!Appended))

\* The list: a node that waits for its exchange is linked to the head it expects.
ListInv ==
    /\ exAt \in [Counters -> ListPlaces]
    /\ mine \in [Counters -> [oldHead : Node, next : Node]]
    /\ word \in Node
    /\ \A t \in Counters : exAt[t] = "swap" => mine[t].next = mine[t].oldHead
    /\ Listed

\* The counter: it moves under the mutex only, and its increases are numbered.
TryInv ==
    /\ exAt \in [Counters -> TryPlaces]
    /\ mine \in [Counters -> [i : Nat, read : Nat, won : Nat]]
    /\ word \in Nat
    /\ \A t \in Counters : exCv["foo"] = t <=> exAt[t] \in {"load", "store"}
    /\ \A t \in Counters : exAt[t] = "store" => mine[t].read = word
    /\ \A t \in Counters : exAt[t] # "done" => mine[t].i < Rounds
    /\ \A t \in Counters : mine[t].won <= mine[t].i
    /\ word = Cardinality(LE!Increases)

LEInv ==
    /\ example \in {"list", "try", "order"}
    /\ exCv \in [{"foo", "bar"} -> Counters \cup {Nobody}]
    /\ example = "order" => OrderInv
    /\ example = "list" => ListInv
    /\ example = "try" => TryInv

\* The tasks are two.
LEMMA TwoTasks == LE!A \in Counters /\ LE!B \in Counters /\ LE!A # LE!B /\ Nobody \notin Counters
<1>1. PICK a, b \in Counters : a # b
  BY MonitorsAssumption
<1>2. LE!A \in Counters
  BY <1>1 DEF LE!A
<1>3. \E t : t \in Counters \ {LE!A}
  BY <1>1
<1>4. LE!B \in Counters \ {LE!A}
  BY <1>3 DEF LE!B
<1> QED BY <1>2, <1>4, MonitorsAssumption

\* The mutexes are free, the list is empty, nothing is counted.
LEMMA LEInit == LE!Init => LEInv
<1> SUFFICES ASSUME LE!Init PROVE LEInv
  OBVIOUS
<1>1. /\ exCv = [m \in {"foo", "bar"} |-> Nobody]
      /\ exAt = [t \in Counters |-> IF t \in LE!Runs(example) THEN "start" ELSE "done"]
      /\ example \in {"list", "try", "order"}
  BY DEF LE!Init
<1>2. exCv \in [{"foo", "bar"} -> Counters \cup {Nobody}]
      /\ exCv["foo"] = Nobody /\ exCv["bar"] = Nobody
  BY <1>1
<1>3. ASSUME example = "order" PROVE OrderInv
  <2>1. LE!Runs(example) = {LE!A, LE!B}
    BY <1>3 DEF LE!Runs
  <2>2. /\ exAt \in [Counters -> OrderPlaces]
        /\ \A t \in Counters \ {LE!A, LE!B} : exAt[t] = "done"
        /\ exAt[LE!A] = "start" /\ exAt[LE!B] = "start"
    BY <1>1, <2>1, TwoTasks DEF OrderPlaces
  <2>3. LE!MutexesOwned
    BY <1>2, <2>2, TwoTasks DEF LE!MutexesOwned
  <2> QED BY <2>2, <2>3 DEF OrderInv
<1>4. ASSUME example = "list" PROVE ListInv
  <2>1. LE!Runs(example) = Counters
    BY <1>4 DEF LE!Runs
  <2>2. exAt \in [Counters -> ListPlaces] /\ \A t \in Counters : exAt[t] = "start"
    BY <1>1, <2>1 DEF ListPlaces
  <2>3. /\ word = Nobody
        /\ mine \in [Counters -> [oldHead : Node, next : Node]]
    BY <1>4 DEF LE!Init, Node
  <2>4. LE!Appended = {} /\ Cardinality(LE!Appended) = 0
    BY <2>2, FS_EmptySet DEF LE!Appended
  <2>5. Lists(<<>>, 0, {}) /\ LE!IsList(<<>>, 0)
    BY <2>3 DEF Lists, LE!IsList
  <2> QED BY <2>2, <2>3, <2>4, <2>5 DEF ListInv, Listed, Node
<1>5. ASSUME example = "try" PROVE TryInv
  <2>1. LE!Runs(example) = Counters
    BY <1>5 DEF LE!Runs
  <2>2. exAt \in [Counters -> TryPlaces] /\ \A t \in Counters : exAt[t] = "start"
    BY <1>1, <2>1 DEF TryPlaces
  <2>3. /\ word = 0
        /\ mine = [t \in Counters |-> [i |-> 0, read |-> 0, won |-> 0]]
    BY <1>5 DEF LE!Init
  <2>4. LE!Increases = {}
    BY <2>3 DEF LE!Increases
  <2>5. Cardinality(LE!Increases) = 0
    BY <2>4, FS_EmptySet
  <2>6. /\ mine \in [Counters -> [i : Nat, read : Nat, won : Nat]]
        /\ \A t \in Counters : mine[t].i = 0 /\ mine[t].won = 0
    BY <2>3
  <2> QED BY <1>2, <2>2, <2>3, <2>5, <2>6, TwoTasks, MonitorsAssumption DEF TryInv
<1> QED BY <1>1, <1>2, <1>3, <1>4, <1>5 DEF LEInv

\* No step of a task touches a mutex of the other one.
LEMMA OrderStep ==
    ASSUME LEInv, example = "order", example' = example, LE!task_a \/ LE!task_b
    PROVE  OrderInv' /\ exCv' \in [{"foo", "bar"} -> Counters \cup {Nobody}]
<1>1. /\ exCv \in [{"foo", "bar"} -> Counters \cup {Nobody}]
      /\ exAt \in [Counters -> OrderPlaces]
      /\ \A t \in Counters \ {LE!A, LE!B} : exAt[t] = "done"
      /\ LE!MutexesOwned
  BY DEF LEInv, OrderInv
<1> USE TwoTasks DEF LE!In, LE!Goes, LE!Takes, LE!Drops
<1>2. CASE LE!task_a
  <2>1. /\ exCv' \in [{"foo", "bar"} -> Counters \cup {Nobody}]
        /\ exAt' \in [Counters -> OrderPlaces]
        /\ \A t \in Counters \ {LE!A} : exAt'[t] = exAt[t]
    BY <1>1, <1>2 DEF LE!task_a, OrderPlaces
  <2>2. LE!MutexesOwned'
    BY <1>1, <1>2, <2>1 DEF LE!task_a, LE!MutexesOwned
  <2> QED BY <1>1, <2>1, <2>2 DEF OrderInv
<1>3. CASE LE!task_b
  <2>1. /\ exCv' \in [{"foo", "bar"} -> Counters \cup {Nobody}]
        /\ exAt' \in [Counters -> OrderPlaces]
        /\ \A t \in Counters \ {LE!B} : exAt'[t] = exAt[t]
    BY <1>1, <1>3 DEF LE!task_b, OrderPlaces
  <2>2. LE!MutexesOwned'
    BY <1>1, <1>3, <2>1 DEF LE!task_b, LE!MutexesOwned
  <2> QED BY <1>1, <2>1, <2>2 DEF OrderInv
<1> QED BY <1>2, <1>3

\* A list with one node more in front, and without its first node.
LEMMA Longer ==
    ASSUME NEW D, NEW n, NEW s, Lists(s, n, D), NEW t, t \notin D,
           NEW r, r[1] = t, \A k \in 1 .. n : r[k + 1] = s[k],
           r = [k \in 1 .. n + 1 |-> r[k]]
    PROVE  Lists(r, n + 1, D \cup {t})
<1>1. n \in Nat /\ s \in [1 .. n -> D]
  BY DEF Lists
<1>2. r[1] = t /\ \A k \in 1 .. n : r[k + 1] = s[k]
  OBVIOUS
<1>3. ASSUME NEW k \in 1 .. n + 1
      PROVE  \/ k = 1 /\ r[k] = t
             \/ k - 1 \in 1 .. n /\ r[k] = s[k - 1] /\ r[k] \in D
  <2>1. CASE k = 1
    BY <2>1, <1>2
  <2>2. CASE k # 1
    <3>1. k - 1 \in 1 .. n /\ (k - 1) + 1 = k
      BY <1>1, <2>2
    <3> QED BY <1>1, <1>2, <3>1
  <2> QED BY <2>1, <2>2
<1>4. r \in [1 .. n + 1 -> D \cup {t}]
  BY <1>3
<1>5. \A u \in D \cup {t} : \E k \in 1 .. n + 1 : r[k] = u
  <2>1. ASSUME NEW u \in D PROVE \E k \in 1 .. n + 1 : r[k] = u
    <3>1. PICK k \in 1 .. n : s[k] = u
      BY DEF Lists
    <3>2. k + 1 \in 1 .. n + 1 /\ r[k + 1] = u
      BY <1>1, <1>2, <3>1
    <3> QED BY <3>2
  <2> QED BY <1>1, <1>2, <2>1
<1>6. \A k, m \in 1 .. n + 1 : r[k] = r[m] => k = m
  BY <1>1, <1>3 DEF Lists
<1> QED BY <1>1, <1>2, <1>4, <1>5, <1>6 DEF Lists

LEMMA Shorter ==
    ASSUME NEW D, NEW n, NEW s, Lists(s, n, D), n # 0,
           NEW r, r = [k \in 1 .. n - 1 |-> s[k + 1]]
    PROVE  /\ Lists(r, n - 1, D \ {s[1]}) /\ s[1] \in D
           /\ \A k \in 1 .. n - 1 : r[k] = s[k + 1]
<1>1. n \in Nat \ {0} /\ s \in [1 .. n -> D] /\ s[1] \in D
  BY DEF Lists
<1>2. \A k \in 1 .. n - 1 : r[k] = s[k + 1]
  OBVIOUS
<1>3. ASSUME NEW k \in 1 .. n - 1 PROVE r[k] \in D \ {s[1]}
  <2>1. k + 1 \in 1 .. n /\ k + 1 # 1 /\ 1 \in 1 .. n
    BY <1>1
  <2> QED BY <1>1, <1>2, <2>1 DEF Lists
<1>4. r \in [1 .. n - 1 -> D \ {s[1]}]
  BY <1>3
<1>5. ASSUME NEW u \in D \ {s[1]} PROVE \E k \in 1 .. n - 1 : r[k] = u
  <2>1. PICK k \in 1 .. n : s[k] = u
    BY DEF Lists
  <2>2. k - 1 \in 1 .. n - 1 /\ r[k - 1] = s[k]
    BY <1>1, <1>2, <2>1
  <2> QED BY <2>1, <2>2
<1>6. \A k, m \in 1 .. n - 1 : r[k] = r[m] => k = m
  BY <1>1, <1>2 DEF Lists
<1> QED BY <1>1, <1>2, <1>4, <1>5, <1>6 DEF Lists

\* A step that leaves the head and the nodes of the list alone leaves the list.
LEMMA ListKept ==
    ASSUME Listed, LE!Appended' = LE!Appended, word' = word,
           \A u \in LE!Appended : mine'[u].next = mine[u].next
    PROVE  Listed'
<1> DEFINE D == LE!Appended
           n == Cardinality(D)
<1>1. PICK s : Lists(s, n, D) /\ LE!IsList(s, n)
  BY DEF Listed
<1>2. \A k \in 1 .. n : s[k] \in D
  BY <1>1 DEF Lists
<1>3. LE!IsList(s, n)'
  BY <1>1, <1>2 DEF LE!IsList
<1> QED BY <1>1, <1>3 DEF Listed

\* The appended nodes are finitely many threads.
LEMMA AppendedFinite == IsFiniteSet(LE!Appended) /\ Cardinality(LE!Appended) \in Nat
<1>1. LE!Appended \in SUBSET Counters
  BY DEF LE!Appended
<1>2. IsFiniteSet(LE!Appended)
  BY <1>1, FS_Subset, MonitorsAssumption
<1> QED BY <1>2, FS_CardinalityType

\* append() and the second attempts change nodes that are not in the list yet.
LEMMA ListStep ==
    ASSUME LEInv, example = "list", example' = example, exCv' = exCv, NEW t \in Counters,
           LE!append(t) \/ LE!CompareExchange(t) \/ LE!Relink(t)
    PROVE  ListInv'
<1>1. /\ exAt \in [Counters -> ListPlaces]
      /\ mine \in [Counters -> [oldHead : Node, next : Node]]
      /\ word \in Node /\ Listed
      /\ \A u \in Counters : exAt[u] = "swap" => mine[u].next = mine[u].oldHead
  BY DEF LEInv, ListInv
<1> USE DEF LE!In, LE!Goes
<1>2. ASSUME NEW pc \in ListPlaces \ {"done"}, NEW rec \in [oldHead : Node, next : Node],
             exAt[t] # "done", word' = word,
             exAt' = [exAt EXCEPT ![t] = pc], mine' = [mine EXCEPT ![t] = rec],
             pc = "swap" => rec.next = rec.oldHead
      PROVE  ListInv'
  <2>1. /\ exAt' \in [Counters -> ListPlaces] /\ word' \in Node
        /\ mine' \in [Counters -> [oldHead : Node, next : Node]]
        /\ \A u \in Counters : exAt'[u] = "swap" => mine'[u].next = mine'[u].oldHead
    BY <1>1, <1>2
  <2>2. LE!Appended' = LE!Appended
    BY <1>1, <1>2 DEF LE!Appended, ListPlaces
  <2>3. \A u \in LE!Appended : mine'[u].next = mine[u].next
    BY <1>1, <1>2 DEF LE!Appended
  <2> QED BY <1>1, <1>2, <2>1, <2>2, <2>3, ListKept DEF ListInv
<1>3. CASE LE!append(t)
  <2>1. [oldHead |-> word, next |-> word] \in [oldHead : Node, next : Node]
    BY <1>1
  <2> QED BY <1>1, <1>2, <1>3, <2>1 DEF LE!append, ListPlaces
<1>4. CASE LE!Relink(t)
  <2> DEFINE rec == [mine[t] EXCEPT !.next = mine[t].oldHead]
  <2>1. rec \in [oldHead : Node, next : Node] /\ rec.next = rec.oldHead
    BY <1>1
  <2>2. mine' = [mine EXCEPT ![t] = rec] /\ exAt' = [exAt EXCEPT ![t] = "swap"] /\ word' = word
        /\ exAt[t] # "done"
    BY <1>1, <1>4 DEF LE!Relink
  <2> HIDE DEF rec
  <2> QED BY <1>2, <2>1, <2>2 DEF ListPlaces
<1>5. CASE LE!CompareExchange(t)
  <2>1. CASE word' = word
    <3>1. CASE mine' = [mine EXCEPT ![t].oldHead = word] /\ exAt' = [exAt EXCEPT ![t] = "relink"]
      <4> DEFINE rec == [mine[t] EXCEPT !.oldHead = word]
      <4>1. rec \in [oldHead : Node, next : Node]
        BY <1>1
      <4>2. mine' = [mine EXCEPT ![t] = rec] /\ exAt[t] # "done"
        BY <1>1, <1>5, <3>1 DEF LE!CompareExchange
      <4> HIDE DEF rec
      <4> QED BY <1>2, <2>1, <3>1, <4>1, <4>2 DEF ListPlaces
    <3>2. CASE word' = t
      <4>1. exAt[t] = "swap" /\ word = t
        BY <1>5, <2>1, <3>2 DEF LE!CompareExchange
      <4>2. PICK s : Lists(s, Cardinality(LE!Appended), LE!Appended)
                     /\ LE!IsList(s, Cardinality(LE!Appended))
        BY <1>1 DEF Listed
      <4>3. t \in LE!Appended
        BY <4>1, <4>2, TwoTasks, AppendedFinite DEF LE!IsList, Lists
      <4> QED BY <4>1, <4>3 DEF LE!Appended
    <3> QED BY <1>5, <3>1, <3>2 DEF LE!CompareExchange
  <2>2. CASE word' # word
    <3>1. /\ exAt[t] = "swap" /\ word' = t /\ exAt' = [exAt EXCEPT ![t] = "done"] /\ mine' = mine
          /\ word = mine[t].oldHead
      BY <1>5, <2>2 DEF LE!CompareExchange
    <3>2. /\ exAt' \in [Counters -> ListPlaces] /\ word' \in Node
          /\ mine' \in [Counters -> [oldHead : Node, next : Node]]
          /\ \A u \in Counters : exAt'[u] = "swap" => mine'[u].next = mine'[u].oldHead
      BY <1>1, <3>1 DEF ListPlaces, Node
    <3>3. t \notin LE!Appended /\ LE!Appended' = LE!Appended \cup {t}
      BY <1>1, <3>1 DEF LE!Appended
    <3>4. PICK n, s : /\ n = Cardinality(LE!Appended)
                      /\ Lists(s, n, LE!Appended) /\ LE!IsList(s, n)
      BY <1>1 DEF Listed
    <3>5. n \in Nat /\ Cardinality(LE!Appended \cup {t}) = n + 1
      BY <3>3, <3>4, AppendedFinite, OneMore
    <3>6. PICK r : r = [k \in 1 .. n + 1 |-> IF k = 1 THEN t ELSE s[k - 1]]
      OBVIOUS
    <3>7. /\ Lists(r, n + 1, LE!Appended \cup {t})
          /\ r[1] = t /\ \A k \in 1 .. n : r[k + 1] = s[k]
      <4>1. t \notin LE!Appended
        BY <3>3
      <4>2. Lists(s, n, LE!Appended)
        BY <3>4
      <4>3. r[1] = t /\ r = [k \in 1 .. n + 1 |-> r[k]]
        BY <3>5, <3>6
      <4>4. \A k \in 1 .. n : r[k + 1] = s[k]
        BY <3>5, <3>6
      <4> QED BY ONLY <4>1, <4>2, <4>3, <4>4, Longer
    <3>8. LE!IsList(r, n + 1)'
      <4>1. word' = IF n + 1 = 0 THEN Nobody ELSE r[1]
        BY <3>1, <3>5, <3>7
      <4>2. mine'[r[1]].next = IF n = 0 THEN Nobody ELSE r[2]
        <5>1. mine'[r[1]].next = word
          BY <1>1, <3>1, <3>7
        <5>2. n # 0 => r[2] = s[1]
          BY <3>5, <3>7
        <5> QED BY <3>4, <5>1, <5>2 DEF LE!IsList
      <4>3. ASSUME NEW k \in 1 .. n
            PROVE  mine'[r[k + 1]].next = IF k + 1 = n + 1 THEN Nobody ELSE r[(k + 1) + 1]
        <5>1. mine'[r[k + 1]].next = mine[s[k]].next
          BY <3>1, <3>7
        <5>2. k # n => r[(k + 1) + 1] = s[k + 1]
          BY <3>5, <3>7
        <5> QED BY <3>5, <3>4, <5>1, <5>2 DEF LE!IsList
      <4>4. ASSUME NEW j \in 1 .. n + 1
            PROVE  mine'[r[j]].next = IF j = n + 1 THEN Nobody ELSE r[j + 1]
        <5>1. j = 1 \/ j - 1 \in 1 .. n
          BY <3>5
        <5>2. CASE j = 1
          BY <3>5, <4>2, <5>2
        <5>3. CASE j - 1 \in 1 .. n
          BY <3>5, <4>3, <5>3
        <5> QED BY <5>1, <5>2, <5>3
      <4> QED BY <4>1, <4>4 DEF LE!IsList
    <3>9. Listed'
      BY <3>3, <3>5, <3>7, <3>8 DEF Listed
    <3> QED BY <3>2, <3>9 DEF ListInv
  <2> QED BY <2>1, <2>2
<1> QED BY <1>3, <1>4, <1>5

\* The loop of main takes the first node off.
LEMMA CleanupStep ==
    ASSUME LEInv, example = "list", LE!Cleanup
    PROVE  ListInv'
<1>1. /\ exAt \in [Counters -> ListPlaces]
      /\ mine \in [Counters -> [oldHead : Node, next : Node]]
      /\ word \in Node /\ Listed
      /\ \A u \in Counters : exAt[u] = "swap" => mine[u].next = mine[u].oldHead
  BY DEF LEInv, ListInv
<1>2. /\ word # Nobody /\ exAt' = [exAt EXCEPT ![word] = "deleted"] /\ word' = mine[word].next
      /\ mine' = mine
  BY DEF LE!Cleanup, LE!Goes
<1>3. PICK n, s : n = Cardinality(LE!Appended) /\ Lists(s, n, LE!Appended) /\ LE!IsList(s, n)
  BY <1>1 DEF Listed
<1>4. n \in Nat /\ n # 0 /\ word = s[1]
  BY <1>2, <1>3, AppendedFinite DEF LE!IsList
<1>5. LE!Appended' = LE!Appended \ {s[1]} /\ word \in Counters
  BY <1>1, <1>2, <1>4 DEF LE!Appended, Node
<1>6. PICK r : r = [k \in 1 .. n - 1 |-> s[k + 1]]
  OBVIOUS
<1>7. /\ Lists(r, n - 1, LE!Appended \ {s[1]}) /\ s[1] \in LE!Appended
      /\ \A k \in 1 .. n - 1 : r[k] = s[k + 1]
  BY <1>3, <1>4, <1>6, Shorter
<1>8. Cardinality(LE!Appended \ {s[1]}) = n - 1
  BY <1>3, <1>7, AppendedFinite, FS_RemoveElement
<1>9. LE!IsList(r, n - 1)'
  <2>1. word' = IF n - 1 = 0 THEN Nobody ELSE r[1]
    <3>1. word' = IF 1 = n THEN Nobody ELSE s[1 + 1]
      BY <1>2, <1>3, <1>4 DEF LE!IsList
    <3> QED BY <1>4, <1>7, <3>1
  <2>2. ASSUME NEW k \in 1 .. n - 1
        PROVE  mine'[r[k]].next = IF k = n - 1 THEN Nobody ELSE r[k + 1]
    <3>1. k + 1 \in 1 .. n /\ mine'[r[k]].next = mine[s[k + 1]].next
      BY <1>2, <1>4, <1>7
    <3>2. mine[s[k + 1]].next = IF k + 1 = n THEN Nobody ELSE s[(k + 1) + 1]
      BY <1>3, <3>1 DEF LE!IsList
    <3>3. k # n - 1 => r[k + 1] = s[(k + 1) + 1]
      BY <1>4, <1>7
    <3> QED BY <1>4, <3>1, <3>2, <3>3
  <2> QED BY <2>1, <2>2 DEF LE!IsList
<1>10. Listed'
  BY <1>5, <1>7, <1>8, <1>9 DEF Listed
<1>11. /\ exAt' \in [Counters -> ListPlaces] /\ word' \in Node
       /\ mine' \in [Counters -> [oldHead : Node, next : Node]]
       /\ \A u \in Counters : exAt'[u] = "swap" => mine'[u].next = mine'[u].oldHead
  BY <1>1, <1>2, <1>5 DEF ListPlaces
<1> QED BY <1>10, <1>11 DEF ListInv

\* The increases of the model, numbered, and one more.
LEMMA IncreasesStep ==
    ASSUME mine \in [Counters -> [i : Nat, read : Nat, won : Nat]],
           mine' \in [Counters -> [i : Nat, read : Nat, won : Nat]],
           NEW t \in Counters, mine[t].won < Rounds, mine'[t].won = mine[t].won + 1,
           \A u \in Counters \ {t} : mine'[u].won = mine[u].won
    PROVE  Cardinality(LE!Increases') = Cardinality(LE!Increases) + 1
<1> DEFINE f == [u \in Counters |-> mine[u].won]
           g == [u \in Counters |-> mine'[u].won]
           F == {x \in Counters \X (1 .. Rounds) : x[2] <= f[x[1]]}
           G == {x \in Counters \X (1 .. Rounds) : x[2] <= g[x[1]]}
<1>1. f \in [Counters -> Nat] /\ g \in [Counters -> Nat] /\ f[t] < Rounds
      /\ g = [f EXCEPT ![t] = f[t] + 1]
  OBVIOUS
<1>2. LE!Increases = F /\ LE!Increases' = G
  BY DEF LE!Increases
<1>3. IsFiniteSet(Counters) /\ Rounds \in Nat
  BY MonitorsAssumption
<1>5. /\ F = {x \in Counters \X (1 .. Rounds) : x[2] <= f[x[1]]}
      /\ G = {x \in Counters \X (1 .. Rounds) : x[2] <= g[x[1]]}
  OBVIOUS
<1> HIDE DEF f, g, F, G
<1>4. Cardinality(G) = Cardinality(F) + 1
  BY ONLY <1>1, <1>3, <1>5, t \in Counters, OncePerPair
<1> QED BY <1>2, <1>4

\* Only the thread with the mutex moves the counter, from the value it has just read.
LEMMA TryStep ==
    ASSUME LEInv, example = "try", example' = example, NEW t \in Counters,
           LE!TryLock(t) \/ LE!Load(t) \/ LE!StoreUnlock(t)
    PROVE  TryInv' /\ exCv' \in [{"foo", "bar"} -> Counters \cup {Nobody}]
<1>1. /\ exCv \in [{"foo", "bar"} -> Counters \cup {Nobody}]
      /\ exAt \in [Counters -> TryPlaces]
      /\ mine \in [Counters -> [i : Nat, read : Nat, won : Nat]]
      /\ word \in Nat /\ word = Cardinality(LE!Increases)
      /\ \A u \in Counters : exCv["foo"] = u <=> exAt[u] \in {"load", "store"}
      /\ \A u \in Counters : exAt[u] = "store" => mine[u].read = word
      /\ \A u \in Counters : exAt[u] # "done" => mine[u].i < Rounds
      /\ \A u \in Counters : mine[u].won <= mine[u].i
  BY DEF LEInv, TryInv
<1> USE TwoTasks, MonitorsAssumption DEF LE!In, LE!Goes, LE!Takes, LE!Drops
<1>2. ASSUME mine' \in [Counters -> [i : Nat, read : Nat, won : Nat]],
             \A u \in Counters : mine'[u].won = mine[u].won
      PROVE  LE!Increases' = LE!Increases
  BY <1>2 DEF LE!Increases
<1>3. CASE LE!TryLock(t)
  <2>1. CASE LE!Takes(t, "foo") /\ LE!Goes(t, "load") /\ mine' = mine
    <3>1. word' = word /\ exAt[t] = "start" /\ exCv["foo"] = Nobody
      BY <1>3, <2>1 DEF LE!TryLock
    <3>2. LE!Increases' = LE!Increases
      BY <1>1, <1>2, <2>1
    <3>3. /\ exCv' \in [{"foo", "bar"} -> Counters \cup {Nobody}] /\ exCv'["foo"] = t
          /\ exAt' \in [Counters -> TryPlaces] /\ exAt'[t] = "load"
          /\ \A u \in Counters \ {t} : exAt'[u] = exAt[u]
      BY <1>1, <2>1 DEF TryPlaces
    <3> QED BY <1>1, <2>1, <3>1, <3>2, <3>3 DEF TryInv
  <2>2. CASE LE!Counted(t) /\ LE!Left(t) /\ exCv' = exCv
    <3>1. word' = word /\ exAt[t] = "start"
      BY <1>3 DEF LE!TryLock
    <3> DEFINE pc == IF mine[t].i + 1 = Rounds THEN "done" ELSE "start"
    <3>2. /\ exAt' \in [Counters -> TryPlaces] /\ exAt'[t] = pc
          /\ \A u \in Counters \ {t} : exAt'[u] = exAt[u]
      BY <1>1, <2>2 DEF TryPlaces, LE!Left
    <3>3. /\ mine' \in [Counters -> [i : Nat, read : Nat, won : Nat]]
          /\ mine'[t].i = mine[t].i + 1 /\ mine'[t].won = mine[t].won
          /\ \A u \in Counters \ {t} : mine'[u] = mine[u]
      BY <1>1, <2>2 DEF LE!Counted
    <3>4. LE!Increases' = LE!Increases
      BY <1>1, <1>2, <3>3
    <3>5. \A u \in Counters : exAt'[u] # "done" => mine'[u].i < Rounds
      BY <1>1, <3>1, <3>2, <3>3
    <3>6. \A u \in Counters : mine'[u].won <= mine'[u].i
      BY <1>1, <3>3
    <3>7. \A u \in Counters : exCv'["foo"] = u <=> exAt'[u] \in {"load", "store"}
      BY <1>1, <2>2, <3>1, <3>2
    <3>8. \A u \in Counters : exAt'[u] = "store" => mine'[u].read = word'
      BY <1>1, <3>1, <3>2, <3>3
    <3> QED BY <1>1, <2>2, <3>1, <3>2, <3>3, <3>4, <3>5, <3>6, <3>7, <3>8 DEF TryInv
  <2> QED BY <1>3, <2>1, <2>2 DEF LE!TryLock
<1>4. CASE LE!Load(t)
  <2>1. /\ exAt' \in [Counters -> TryPlaces] /\ exAt'[t] = "store" /\ exAt[t] = "load"
        /\ \A u \in Counters \ {t} : exAt'[u] = exAt[u]
        /\ word' = word /\ exCv' = exCv
    BY <1>1, <1>4 DEF TryPlaces, LE!Load
  <2>2. /\ mine' \in [Counters -> [i : Nat, read : Nat, won : Nat]]
        /\ mine'[t].i = mine[t].i /\ mine'[t].won = mine[t].won /\ mine'[t].read = word
        /\ \A u \in Counters \ {t} : mine'[u] = mine[u]
    BY <1>1, <1>4 DEF LE!Load
  <2>3. LE!Increases' = LE!Increases
    BY <1>1, <1>2, <2>2
  <2>4. \A u \in Counters : exCv'["foo"] = u <=> exAt'[u] \in {"load", "store"}
    BY <1>1, <2>1
  <2>5. \A u \in Counters : exAt'[u] = "store" => mine'[u].read = word'
    BY <1>1, <2>1, <2>2
  <2>6. \A u \in Counters : /\ exAt'[u] # "done" => mine'[u].i < Rounds
                            /\ mine'[u].won <= mine'[u].i
    BY <1>1, <2>1, <2>2
  <2> QED BY <1>1, <2>1, <2>2, <2>3, <2>4, <2>5, <2>6 DEF TryInv
<1>5. CASE LE!StoreUnlock(t)
  <2> DEFINE pc == IF mine[t].i + 1 = Rounds THEN "done" ELSE "start"
  <2>1. /\ exAt' \in [Counters -> TryPlaces] /\ exAt'[t] = pc /\ exAt[t] = "store"
        /\ \A u \in Counters \ {t} : exAt'[u] = exAt[u]
        /\ word' = mine[t].read + 1
        /\ exCv' \in [{"foo", "bar"} -> Counters \cup {Nobody}] /\ exCv'["foo"] = Nobody
    BY <1>1, <1>5 DEF TryPlaces, LE!StoreUnlock, LE!Left
  <2>2. /\ mine' \in [Counters -> [i : Nat, read : Nat, won : Nat]]
        /\ mine'[t].i = mine[t].i + 1 /\ mine'[t].won = mine[t].won + 1
        /\ \A u \in Counters \ {t} : mine'[u] = mine[u]
    BY <1>1, <1>5 DEF LE!StoreUnlock
  <2>3. mine[t].won < Rounds /\ mine[t].i < Rounds
    BY <1>1, <2>1
  <2>4. Cardinality(LE!Increases') = Cardinality(LE!Increases) + 1
    BY <1>1, <2>2, <2>3, IncreasesStep
  <2>5. word' = word + 1
    BY <1>1, <2>1
  <2>6. \A u \in Counters \ {t} : exAt[u] \notin {"load", "store"}
    BY <1>1, <2>1
  <2>7. \A u \in Counters : exCv'["foo"] = u <=> exAt'[u] \in {"load", "store"}
    BY <1>1, <2>1, <2>6
  <2>8. \A u \in Counters : exAt'[u] = "store" => mine'[u].read = word'
    BY <1>1, <2>1, <2>6
  <2>9. \A u \in Counters : /\ exAt'[u] # "done" => mine'[u].i < Rounds
                            /\ mine'[u].won <= mine'[u].i
    BY <1>1, <2>1, <2>2, <2>3
  <2> QED BY <1>1, <2>1, <2>2, <2>4, <2>5, <2>7, <2>8, <2>9 DEF TryInv
<1> QED BY <1>3, <1>4, <1>5

\* No step of an example disturbs its invariant.
LEMMA LEStep == LEInv /\ [LE!Next]_exVars => LEInv'
<1> SUFFICES ASSUME LEInv, [LE!Next]_exVars PROVE LEInv'
  OBVIOUS
<1>0. example' = example
  BY DEF LE!Next, LE!Step, LE!append, LE!CompareExchange, LE!Relink, LE!TryLock, LE!Load,
         LE!StoreUnlock, LE!task_a, LE!task_b, LE!Cleanup, LE!vars, exVars
<1>1. CASE LE!task_a \/ LE!task_b
  <2>1. example = "order"
    BY <1>1 DEF LE!task_a, LE!task_b, LE!In
  <2> QED BY <1>0, <1>1, <2>1, OrderStep DEF LEInv
<1>2. ASSUME NEW t \in Counters, LE!append(t) \/ LE!CompareExchange(t) \/ LE!Relink(t) PROVE LEInv'
  <2>1. example = "list" /\ exCv' = exCv
    BY <1>2 DEF LE!append, LE!CompareExchange, LE!Relink, LE!In
  <2>2. ListInv'
    BY <1>0, <1>2, <2>1, ListStep
  <2> QED BY <1>0, <2>1, <2>2 DEF LEInv
<1>3. CASE LE!Cleanup
  <2>1. example = "list" /\ exCv' = exCv
    BY <1>3 DEF LE!Cleanup
  <2> QED BY <1>0, <1>3, <2>1, CleanupStep DEF LEInv
<1>4. ASSUME NEW t \in Counters, LE!TryLock(t) \/ LE!Load(t) \/ LE!StoreUnlock(t) PROVE LEInv'
  <2>1. example = "try"
    BY <1>4 DEF LE!TryLock, LE!Load, LE!StoreUnlock, LE!In
  <2> QED BY <1>0, <1>4, <2>1, TryStep DEF LEInv
<1>5. CASE UNCHANGED <<example, word, mine, exCv, exAt>>
  <2>1. LE!MutexesOwned' <=> LE!MutexesOwned
    BY <1>5 DEF LE!MutexesOwned
  <2>2. LE!Appended' = LE!Appended /\ LE!Increases' = LE!Increases
    BY <1>5 DEF LE!Appended, LE!Increases
  <2>3. Listed => Listed'
    BY <1>5, <2>2, ListKept
  <2> QED BY <1>5, <2>1, <2>2, <2>3 DEF LEInv, OrderInv, ListInv, TryInv
<1> QED
  BY <1>1, <1>2, <1>3, <1>4, <1>5
  DEF LE!Next, LE!Step, LE!vars, exVars

\* What the invariant says of the property.
LEMMA LESound == LEInv => LE!NothingLost /\ LE!MutexesOwned
<1> SUFFICES ASSUME LEInv PROVE LE!NothingLost /\ LE!MutexesOwned
  OBVIOUS
<1>1. LE!TypeOK
  BY DEF LEInv, LE!TypeOK, OrderInv, LE!Runs
<1>2. example = "list" =>
         \E s \in [1 .. Cardinality(LE!Appended) -> LE!Appended] :
            /\ LE!IsList(s, Cardinality(LE!Appended))
            /\ \A t \in LE!Appended : \E k \in 1 .. Cardinality(LE!Appended) : s[k] = t
  BY DEF LEInv, ListInv, Listed, Lists
<1>3. LE!MutexesOwned
  BY DEF LEInv, OrderInv, LE!MutexesOwned
<1>4. example = "try" => word = Cardinality(LE!Increases)
  BY DEF LEInv, TryInv
<1> QED BY <1>1, <1>2, <1>3, <1>4, LockCardinality DEF LE!NothingLost

-----------------------------------------------------------------------------
(* The unsynchronised counter. *)

\* The increments that were stored, numbered.
Stored == {x \in Counters \X (1 .. Rounds) : x[2] <= i[x[1]]}
AllDone == \A t \in Counters : racePc[t] = "done"

\* The counter is never above the number of stores, nor is what a thread has read; after
\* the first store it is not 0 again, so that who stores a second time stores 2 at least.
RaceInv ==
    /\ sharedi \in Nat /\ tmp \in [Counters -> Nat] /\ i \in [Counters -> 0 .. Rounds]
    /\ racePc \in [Counters -> {"load", "store", "done"}]
    /\ \A t \in Counters : racePc[t] = "done" <=> i[t] = Rounds
    /\ \A t \in Counters : i[t] >= 1 => sharedi >= 1
    /\ \A t \in Counters : racePc[t] = "store" =>
          /\ 1 <= tmp[t] /\ tmp[t] <= Cardinality(Stored) + 1
          /\ i[t] >= 1 => tmp[t] >= 2
    /\ sharedi <= Cardinality(Stored)
    /\ AllDone => sharedi >= 2

\* The numbered increments are finitely many.
LEMMA StoredFinite ==
    /\ IsFiniteSet(Counters \X (1 .. Rounds))
    /\ Cardinality(Counters \X (1 .. Rounds)) = Cardinality(Counters) * Rounds
    /\ Cardinality(Stored) \in Nat /\ Cardinality(Stored) <= Cardinality(Counters) * Rounds
<1>1. IsFiniteSet(Counters) /\ Rounds \in Nat \ {0, 1}
  BY MonitorsAssumption
<1>2. IsFiniteSet(1 .. Rounds) /\ Cardinality(1 .. Rounds) = Rounds
  BY <1>1, FS_Interval
<1>3. /\ IsFiniteSet(Counters \X (1 .. Rounds))
      /\ Cardinality(Counters \X (1 .. Rounds)) = Cardinality(Counters) * Rounds
  BY <1>1, <1>2, FS_Product
<1>4. Stored \in SUBSET (Counters \X (1 .. Rounds))
  BY DEF Stored
<1>5. IsFiniteSet(Stored) /\ Cardinality(Stored) <= Cardinality(Counters \X (1 .. Rounds))
  BY <1>3, <1>4, FS_Subset
<1> QED BY <1>3, <1>5, FS_CardinalityType

\* Nothing is stored yet.
LEMMA RaceInit == LE!RaceInit => RaceInv
<1> SUFFICES ASSUME LE!RaceInit PROVE RaceInv
  OBVIOUS
<1>1. /\ sharedi = 0 /\ tmp \in [Counters -> Nat] /\ i \in [Counters -> 0 .. Rounds]
      /\ racePc \in [Counters -> {"load", "store", "done"}]
      /\ \A t \in Counters : racePc[t] = "load" /\ i[t] = 0
      /\ Rounds # 0
  BY MonitorsAssumption DEF LE!RaceInit
<1>2. ~ AllDone
  BY <1>1, TwoTasks DEF AllDone
<1> QED BY <1>1, <1>2, StoredFinite DEF RaceInv

\* A load copies what is there; a store is one increment more.
LEMMA RaceStep == RaceInv /\ [LE!RaceNext]_raceVars => RaceInv'
<1> SUFFICES ASSUME RaceInv, [LE!RaceNext]_raceVars PROVE RaceInv'
  OBVIOUS
<1>1. /\ sharedi \in Nat /\ tmp \in [Counters -> Nat] /\ i \in [Counters -> 0 .. Rounds]
      /\ racePc \in [Counters -> {"load", "store", "done"}]
      /\ \A t \in Counters : racePc[t] = "done" <=> i[t] = Rounds
      /\ \A t \in Counters : i[t] >= 1 => sharedi >= 1
      /\ \A t \in Counters : racePc[t] = "store" =>
            /\ 1 <= tmp[t] /\ tmp[t] <= Cardinality(Stored) + 1
            /\ i[t] >= 1 => tmp[t] >= 2
      /\ sharedi <= Cardinality(Stored)
  BY DEF RaceInv
<1>2. Rounds \in Nat \ {0, 1} /\ Cardinality(Stored) \in Nat
  BY MonitorsAssumption, StoredFinite
<1>3. ASSUME NEW t \in Counters, LE!RaceLoad(t) PROVE RaceInv'
  <2>1. /\ racePc[t] = "load" /\ sharedi' = sharedi /\ i' = i
        /\ tmp' \in [Counters -> Nat] /\ tmp'[t] = sharedi + 1
        /\ racePc' \in [Counters -> {"load", "store", "done"}] /\ racePc'[t] = "store"
        /\ \A u \in Counters \ {t} : tmp'[u] = tmp[u] /\ racePc'[u] = racePc[u]
    BY <1>1, <1>3 DEF LE!RaceLoad
  <2>2. Stored' = Stored
    BY <2>1 DEF Stored
  <2>3. ~ AllDone'
    BY <2>1 DEF AllDone
  <2>4. \A u \in Counters : racePc'[u] = "store" =>
            /\ 1 <= tmp'[u] /\ tmp'[u] <= Cardinality(Stored) + 1
            /\ i[u] >= 1 => tmp'[u] >= 2
    BY <1>1, <1>2, <2>1
  <2>5. \A u \in Counters : racePc'[u] = "done" <=> i[u] = Rounds
    BY <1>1, <2>1
  <2> QED BY <1>1, <2>1, <2>2, <2>3, <2>4, <2>5 DEF RaceInv
<1>4. ASSUME NEW t \in Counters, LE!RaceStore(t) PROVE RaceInv'
  <2>0. racePc[t] = "store" /\ i[t] \in 0 .. Rounds /\ i[t] # Rounds /\ i[t] < Rounds
    BY <1>1, <1>2, <1>4 DEF LE!RaceStore
  <2>1. /\ sharedi' = tmp[t] /\ tmp' = tmp
        /\ i' = [i EXCEPT ![t] = i[t] + 1]
        /\ racePc' \in [Counters -> {"load", "store", "done"}]
        /\ racePc'[t] = IF i[t] + 1 = Rounds THEN "done" ELSE "load"
        /\ \A u \in Counters \ {t} : racePc'[u] = racePc[u]
    BY <1>1, <1>4 DEF LE!RaceStore
  <2>2. /\ i' \in [Counters -> 0 .. Rounds] /\ i'[t] = i[t] + 1
        /\ \A u \in Counters \ {t} : i'[u] = i[u]
    BY <1>1, <1>2, <2>0, <2>1
  <2>3. Cardinality(Stored') = Cardinality(Stored) + 1
    <3>1. i \in [Counters -> Nat] /\ i' \in [Counters -> Nat]
      BY <1>1, <1>2, <2>2
    <3>2. IsFiniteSet(Counters) /\ Rounds \in Nat
      BY MonitorsAssumption
    <3>3. /\ Stored = {x \in Counters \X (1 .. Rounds) : x[2] <= i[x[1]]}
          /\ Stored' = {x \in Counters \X (1 .. Rounds) : x[2] <= i'[x[1]]}
      BY DEF Stored
    <3>4. i[t] < Rounds /\ i' = [i EXCEPT ![t] = i[t] + 1]
      BY <2>0, <2>1
    <3> HIDE DEF Stored
    <3> QED BY ONLY <3>1, <3>2, <3>3, <3>4, t \in Counters, OncePerPair
  <2>4. tmp[t] \in Nat /\ 1 <= tmp[t] /\ tmp[t] <= Cardinality(Stored) + 1
        /\ (i[t] >= 1 => tmp[t] >= 2)
    BY <1>1, <2>0
  <2>5. \A u \in Counters : racePc'[u] = "done" <=> i'[u] = Rounds
    BY <1>1, <1>2, <2>0, <2>1, <2>2
  <2>6. \A u \in Counters : racePc'[u] = "store" =>
            /\ 1 <= tmp'[u] /\ tmp'[u] <= Cardinality(Stored') + 1
            /\ i'[u] >= 1 => tmp'[u] >= 2
    <3> SUFFICES ASSUME NEW u \in Counters, racePc'[u] = "store"
                 PROVE  /\ 1 <= tmp'[u] /\ tmp'[u] <= Cardinality(Stored') + 1
                        /\ i'[u] >= 1 => tmp'[u] >= 2
      OBVIOUS
    <3>1. u # t
      BY <2>1
    <3>2. racePc[u] = "store" /\ i'[u] = i[u] /\ tmp'[u] = tmp[u] /\ tmp[u] \in Nat
      BY <1>1, <2>1, <2>2, <3>1
    <3> QED BY <1>1, <1>2, <2>3, <3>2
  <2>7. AllDone' => sharedi' >= 2
    <3>1. AllDone' => i[t] >= 1
      BY <1>2, <2>0, <2>1 DEF AllDone
    <3> QED BY <2>1, <2>4, <3>1
  <2>8. sharedi' \in Nat /\ sharedi' >= 1 /\ sharedi' <= Cardinality(Stored')
    BY <1>2, <2>1, <2>3, <2>4
  <2> QED BY <1>1, <2>1, <2>2, <2>5, <2>6, <2>7, <2>8 DEF RaceInv
<1>5. CASE UNCHANGED raceVars
  BY <1>5 DEF RaceInv, Stored, AllDone, raceVars
<1> QED BY <1>3, <1>4, <1>5 DEF LE!RaceNext, LE!RaceEnded, LE!raceVars, raceVars

\* What is left when all have ended.
LEMMA RaceSound == RaceInv => LE!FinalRange
<1> SUFFICES ASSUME RaceInv, AllDone PROVE sharedi \in 2 .. Cardinality(Counters) * Rounds
  BY LockCardinality DEF LE!FinalRange, AllDone
<1>1. sharedi \in Nat /\ sharedi >= 2 /\ sharedi <= Cardinality(Stored)
  BY DEF RaceInv
<1>2. /\ Cardinality(Stored) \in Nat /\ Cardinality(Stored) <= Cardinality(Counters) * Rounds
      /\ Cardinality(Counters) * Rounds \in Nat
  BY StoredFinite, FS_CardinalityType
<1> HIDE DEF Stored
<1> QED BY <1>1, <1>2

-----------------------------------------------------------------------------
(* The singletons. *)

OnePlaces == {"idle", "lock", "test", "new", "store", "return", "delete"}
NewCallers == {t \in Callers : at[t].pc = "new"}
StoreCallers == {t \in Callers : at[t].pc = "store"}

\* With the lock: who is between the tests and the unlock has the mutex, and the object is
\* the one the pointer shows, or the one its caller is about to store.
LockedInv ==
    locked =>
       /\ \A t \in Callers : m_Mutex = t <=> at[t].pc \in {"test", "new", "store", "delete"}
       /\ \A t \in Callers : at[t].pc \in {"new", "store"} => instance = 0
       /\ \A t \in Callers : at[t].pc = "store" => live = {at[t].made} \ {0}
       /\ StoreCallers = {} => live = {instance} \ {0}

\* Without it: nobody returns before the pointer is set, who makes an object entered before
\* that, and there are fewer objects than addresses because each belonged to one caller.
LazyInv ==
    ~ locked =>
       /\ m_Mutex = Nobody
       /\ \A t \in Callers : at[t].pc \in {"idle", "new", "store", "return"}
       /\ \A t \in Callers : at[t].pc = "return" => instance # 0
       /\ returned => instance # 0
       /\ instance # 0 => instance \in live
       /\ \A t \in Callers : at[t].pc = "store" => at[t].made \in live
       /\ \A t \in Callers : at[t].pc \in {"new", "store"} => t \in early
       /\ instance = 0 => Cardinality(live) <= Cardinality(StoreCallers)
       /\ Cardinality(live) + Cardinality(NewCallers) <= Cardinality(Callers)

OneType ==
    /\ locked \in BOOLEAN /\ returned \in BOOLEAN /\ early \subseteq Callers
    /\ instance \in One!Addresses \cup {0} /\ live \subseteq One!Addresses
    /\ m_Mutex \in Callers \cup {Nobody}
    /\ at \in [Callers -> [pc : OnePlaces, made : One!Addresses \cup {0}]]

OneInv == OneType /\ LockedInv /\ LazyInv

\* There is one address more than callers.
LEMMA Addresses ==
    /\ IsFiniteSet(Callers) /\ Cardinality(Callers) \in Nat
    /\ IsFiniteSet(One!Addresses) /\ Cardinality(One!Addresses) = Cardinality(Callers) + 1
    /\ One!Addresses \subseteq Nat /\ 0 \notin One!Addresses /\ 1 \in One!Addresses
    /\ \A S \in SUBSET Callers : IsFiniteSet(S) /\ Cardinality(S) \in Nat
    /\ \A S \in SUBSET One!Addresses : IsFiniteSet(S) /\ Cardinality(S) \in Nat
<1>1. IsFiniteSet(Callers) /\ Cardinality(Callers) \in Nat
  BY MonitorsAssumption, FS_CardinalityType
<1>2. One!Addresses = 1 .. Cardinality(Callers) + 1
  BY LockCardinality DEF One!Addresses
<1>3. IsFiniteSet(One!Addresses) /\ Cardinality(One!Addresses) = Cardinality(Callers) + 1
  BY <1>1, <1>2, FS_Interval
<1>4. One!Addresses \subseteq Nat /\ 0 \notin One!Addresses /\ 1 \in One!Addresses
  BY <1>1, <1>2
<1> QED BY <1>1, <1>3, <1>4, FS_Subset, FS_CardinalityType

\* Nobody has called yet.
LEMMA OneInit == One!Init => OneInv
<1> SUFFICES ASSUME One!Init PROVE OneInv
  OBVIOUS
<1> USE DEF One!Init, One!NULL
<1>1. OneType
  BY DEF OneType, OnePlaces
<1>2. NewCallers = {} /\ StoreCallers = {}
  BY DEF NewCallers, StoreCallers
<1>3. LockedInv
  BY <1>2, MonitorsAssumption DEF LockedInv
<1>4. Cardinality({}) = 0
  BY FS_EmptySet
<1>5. LazyInv
  BY <1>2, <1>4, Addresses DEF LazyInv
<1> QED BY <1>1, <1>3, <1>5 DEF OneInv

\* One caller more or less in a place.
LEMMA Counted ==
    ASSUME NEW S \in SUBSET Callers, NEW T \in SUBSET Callers, NEW t \in Callers,
           t \notin S, T = S \cup {t}
    PROVE  Cardinality(T) = Cardinality(S) + 1
BY Addresses, FS_AddElement

\* Places of the others stay as they are.
LEMMA MovedTo ==
    ASSUME OneType, NEW t \in Callers, NEW r \in [pc : OnePlaces, made : One!Addresses \cup {0}],
           at' = [at EXCEPT ![t] = r]
    PROVE  /\ at' \in [Callers -> [pc : OnePlaces, made : One!Addresses \cup {0}]]
           /\ at'[t] = r /\ \A u \in Callers : u # t => at'[u] = at[u]
           /\ NewCallers' = IF r.pc = "new" THEN NewCallers \cup {t} ELSE NewCallers \ {t}
           /\ StoreCallers' = IF r.pc = "store" THEN StoreCallers \cup {t} ELSE StoreCallers \ {t}
BY DEF OneType, NewCallers, StoreCallers

\* Goes(t, p) changes only the place.
LEMMA GoesPlace ==
    ASSUME OneType, NEW t \in Callers, NEW p \in OnePlaces, One!Goes(t, p)
    PROVE  /\ at' \in [Callers -> [pc : OnePlaces, made : One!Addresses \cup {0}]]
           /\ at'[t].pc = p /\ at'[t].made = at[t].made
           /\ \A u \in Callers : u # t => at'[u] = at[u]
           /\ NewCallers' = IF p = "new" THEN NewCallers \cup {t} ELSE NewCallers \ {t}
           /\ StoreCallers' = IF p = "store" THEN StoreCallers \cup {t} ELSE StoreCallers \ {t}
<1> DEFINE r == [at[t] EXCEPT !.pc = p]
<1>1. r \in [pc : OnePlaces, made : One!Addresses \cup {0}] /\ r.pc = p /\ r.made = at[t].made
  BY DEF OneType
<1>2. at' = [at EXCEPT ![t] = r]
  BY DEF One!Goes
<1> HIDE DEF r
<1> QED BY <1>1, <1>2, MovedTo

\* The allocator finds a free address.
LEMMA FreeAddress ==
    ASSUME OneType, Cardinality(live) <= Cardinality(Callers)
    PROVE  LET a == CHOOSE a \in One!Addresses \ live : \A b \in One!Addresses \ live : a <= b
           IN  a \in One!Addresses /\ a \notin live
<1> DEFINE T == One!Addresses \ live
<1>1. T \subseteq Nat /\ live \subseteq One!Addresses
  BY Addresses DEF OneType
<1>2. T # {}
  <2> SUFFICES ASSUME T = {} PROVE FALSE
    OBVIOUS
  <2>1. live = One!Addresses
    BY <1>1
  <2> QED BY <2>1, Addresses
<1>3. \E a \in T : \A b \in T : a <= b
  BY <1>1, <1>2, Least
<1> QED BY <1>3

\* The first test, outside the lock.
LEMMA GetInstanceStep ==
    ASSUME OneInv, NEW t \in Callers, One!GetInstance(t) PROVE OneInv'
<1> USE DEF One!NULL
<1> DEFINE p == IF instance # 0 THEN "return" ELSE IF locked THEN "lock" ELSE "new"
<1>1. /\ OneType /\ LockedInv /\ LazyInv /\ at[t].pc = "idle" /\ p \in OnePlaces /\ One!Goes(t, p)
      /\ early' = (IF locked \/ returned THEN early ELSE early \cup {t})
      /\ UNCHANGED <<locked, instance, m_Mutex, live, returned>>
  BY DEF OneInv, One!GetInstance, OnePlaces
<1>2. /\ at' \in [Callers -> [pc : OnePlaces, made : One!Addresses \cup {0}]]
      /\ at'[t].pc = p /\ \A u \in Callers : u # t => at'[u] = at[u]
      /\ NewCallers' = IF p = "new" THEN NewCallers \cup {t} ELSE NewCallers \ {t}
      /\ StoreCallers' = IF p = "store" THEN StoreCallers \cup {t} ELSE StoreCallers \ {t}
  BY <1>1, GoesPlace
<1>3. OneType'
  BY <1>1, <1>2 DEF OneType
<1>4. StoreCallers' = StoreCallers /\ t \notin NewCallers /\ t \notin StoreCallers
  BY <1>1, <1>2 DEF StoreCallers, NewCallers
<1>5. LockedInv'
  <2> SUFFICES ASSUME locked PROVE LockedInv'
    BY <1>1 DEF LockedInv
  <2>1. p \in {"return", "lock"} /\ at'[t].pc = p
    BY <1>2
  <2> QED BY <1>1, <1>2, <1>4, <2>1 DEF LockedInv
<1>6. LazyInv'
  <2> SUFFICES ASSUME ~ locked PROVE LazyInv'
    BY <1>1 DEF LazyInv
  <2>1. CASE instance # 0
    <3>1. p = "return" /\ NewCallers' = NewCallers
      BY <1>2, <1>4, <2>1
    <3> QED BY <1>1, <1>2, <1>4, <2>1, <3>1 DEF LazyInv
  <2>2. CASE instance = 0
    <3>1. p = "new" /\ NewCallers' = NewCallers \cup {t} /\ early' = early \cup {t}
      BY <1>1, <1>2, <2>2 DEF LazyInv
    <3>2. Cardinality(live) + Cardinality(NewCallers') <= Cardinality(Callers)
      <4> DEFINE U == NewCallers \cup {t}
      <4>1. U \cap StoreCallers = {} /\ U \in SUBSET Callers /\ StoreCallers \in SUBSET Callers
        BY <1>1 DEF NewCallers, StoreCallers
      <4>2. Cardinality(U \cup StoreCallers) = Cardinality(U) + Cardinality(StoreCallers)
        <5> HIDE DEF U
        <5>1. IsFiniteSet(U) /\ IsFiniteSet(StoreCallers) /\ Cardinality(U) \in Nat
              /\ Cardinality(StoreCallers) \in Nat /\ Cardinality(U \cap StoreCallers) = 0
          BY <4>1, Addresses, FS_EmptySet
        <5>2. Cardinality(U \cup StoreCallers)
              = Cardinality(U) + Cardinality(StoreCallers) - Cardinality(U \cap StoreCallers)
          BY <5>1, FS_Union, Zenon
        <5> QED BY <5>1, <5>2
      <4>3. Cardinality(U \cup StoreCallers) <= Cardinality(Callers)
        BY <4>1, Addresses, FS_Subset
      <4>4. Cardinality(live) <= Cardinality(StoreCallers)
        BY <1>1, <2>2 DEF LazyInv
      <4>5. live \in SUBSET One!Addresses
        BY <1>1 DEF OneType
      <4>6. Cardinality(live) \in Nat /\ Cardinality(U) \in Nat /\ Cardinality(StoreCallers) \in Nat
            /\ Cardinality(Callers) \in Nat
        BY <4>1, <4>5, Addresses
      <4> QED BY <3>1, <4>2, <4>3, <4>4, <4>6
    <3> QED BY <1>1, <1>2, <1>4, <2>2, <3>1, <3>2 DEF LazyInv
  <2> QED BY <2>1, <2>2
<1> QED BY <1>3, <1>5, <1>6 DEF OneInv

\* Steps that keep the object and the pointer: taking the lock, the second test, returning.
LEMMA OneQuietSteps ==
    ASSUME OneInv, NEW t \in Callers,
           One!Lock(t) \/ One!SecondTest(t) \/ One!Return(t) \/ One!LockDelete(t)
    PROVE  OneInv'
<1> USE MonitorsAssumption DEF One!NULL
<1>1. PICK p \in {"test", "new", "return", "idle", "delete"} : One!Goes(t, p)
         /\ (One!Lock(t) => p = "test") /\ (One!Return(t) => p = "idle")
         /\ (One!LockDelete(t) => p = "delete")
         /\ (One!SecondTest(t) => p = IF instance = 0 THEN "new" ELSE "return")
  BY DEF One!Lock, One!SecondTest, One!Return, One!LockDelete
<1>2. OneType /\ LockedInv /\ LazyInv /\ p \in OnePlaces
  BY DEF OneInv, OnePlaces
<1>3. /\ at' \in [Callers -> [pc : OnePlaces, made : One!Addresses \cup {0}]]
      /\ at'[t].pc = p /\ \A u \in Callers : u # t => at'[u] = at[u]
      /\ NewCallers' = IF p = "new" THEN NewCallers \cup {t} ELSE NewCallers \ {t}
      /\ StoreCallers' = StoreCallers \ {t}
  BY <1>1, <1>2, GoesPlace
<1>4. UNCHANGED <<locked, instance, live>>
  BY DEF One!Lock, One!SecondTest, One!Return, One!LockDelete
<1>5. at[t].pc \in {"lock", "test", "return", "idle"} /\ StoreCallers' = StoreCallers
  BY <1>3 DEF StoreCallers, One!Lock, One!SecondTest, One!Return, One!LockDelete
<1>6. OneType'
  BY <1>2, <1>3, <1>4 DEF OneType, One!Lock, One!SecondTest, One!Return, One!LockDelete
<1>7. LockedInv'
  <2> SUFFICES ASSUME locked PROVE LockedInv'
    BY <1>4 DEF LockedInv
  <2>1. CASE One!Lock(t)
    BY <1>1, <1>2, <1>3, <1>4, <1>5, <2>1 DEF One!Lock, LockedInv
  <2>2. CASE One!SecondTest(t)
    BY <1>1, <1>2, <1>3, <1>4, <1>5, <2>2 DEF One!SecondTest, LockedInv
  <2>3. CASE One!Return(t)
    BY <1>1, <1>2, <1>3, <1>4, <1>5, <2>3 DEF One!Return, LockedInv
  <2>4. CASE One!LockDelete(t)
    BY <1>1, <1>2, <1>3, <1>4, <1>5, <2>4 DEF One!LockDelete, LockedInv
  <2> QED BY <2>1, <2>2, <2>3, <2>4
<1>8. LazyInv'
  <2> SUFFICES ASSUME ~ locked PROVE LazyInv'
    BY <1>4 DEF LazyInv
  <2>1. One!Return(t) /\ p = "idle"
    BY <1>1, <1>2 DEF LazyInv, One!Lock, One!SecondTest, One!LockDelete
  <2>2. NewCallers' = NewCallers
    BY <1>3, <2>1 DEF NewCallers, One!Return
  <2>3. instance # 0 /\ returned' = TRUE /\ early' = early \ {t} /\ m_Mutex' = m_Mutex
    BY <1>2, <2>1 DEF LazyInv, One!Return
  <2> QED BY <1>2, <1>3, <1>4, <1>5, <2>1, <2>2, <2>3 DEF LazyInv
<1> QED BY <1>6, <1>7, <1>8 DEF OneInv

\* new: the allocator finds an address, or with the lock returns none.
LEMMA NewStep == ASSUME OneInv, NEW t \in Callers, One!New(t) PROVE OneInv'
<1> USE DEF One!NULL
<1> DEFINE free == CHOOSE a \in One!Addresses \ live : \A b \in One!Addresses \ live : a <= b
<1>1. OneType /\ LockedInv /\ LazyInv /\ at[t].pc = "new" /\ t \in NewCallers
      /\ NewCallers \in SUBSET Callers /\ live \in SUBSET One!Addresses
      /\ StoreCallers \in SUBSET Callers /\ t \notin StoreCallers
  BY DEF OneInv, One!New, NewCallers, StoreCallers, OneType
<1>2. PICK a \in {free} \cup (IF locked THEN {0} ELSE {}) :
         /\ live' = live \cup ({a} \ {0})
         /\ at' = [at EXCEPT ![t] = [pc |-> "store", made |-> a]]
  BY DEF One!New
<1>3. UNCHANGED <<locked, instance, m_Mutex, returned, early>>
  BY DEF One!New
<1>4. locked => live = {}
  <2> SUFFICES ASSUME locked PROVE live = {}
    OBVIOUS
  <2>1. instance = 0 /\ m_Mutex = t
    BY <1>1 DEF LockedInv
  <2>2. StoreCallers = {}
    BY <1>1, <2>1 DEF LockedInv, StoreCallers
  <2> QED BY <1>1, <2>1, <2>2 DEF LockedInv
<1>5. Cardinality(live) + 1 <= Cardinality(Callers)
  <2>1. Cardinality(NewCallers) >= 1 /\ Cardinality(Callers) >= 1
    <3>1. Cardinality({t}) = 1 /\ {t} \subseteq NewCallers
      BY <1>1, FS_Singleton
    <3> QED BY <1>1, <3>1, Addresses, FS_Subset
  <2>2. CASE locked
    BY <1>4, <2>1, <2>2, FS_EmptySet, Addresses
  <2>3. CASE ~ locked
    BY <1>1, <2>1, <2>3, Addresses DEF LazyInv
  <2> QED BY <1>1, <2>2, <2>3 DEF OneType
<1>6. free \in One!Addresses /\ free \notin live
  BY <1>1, <1>5, Addresses, FreeAddress
<1> HIDE DEF free
<1>7. a \in One!Addresses \cup {0} /\ (~ locked => a = free /\ a # 0)
  BY <1>2, <1>6, Addresses
<1> DEFINE r == [pc |-> "store", made |-> a]
<1>8. r \in [pc : OnePlaces, made : One!Addresses \cup {0}] /\ r.pc = "store" /\ r.made = a
  BY <1>7 DEF OnePlaces
<1> HIDE DEF r
<1>9. /\ at' \in [Callers -> [pc : OnePlaces, made : One!Addresses \cup {0}]]
      /\ at'[t] = r /\ \A u \in Callers : u # t => at'[u] = at[u]
      /\ NewCallers' = NewCallers \ {t} /\ StoreCallers' = StoreCallers \cup {t}
  <2>1. at' = [at EXCEPT ![t] = r]
    BY <1>2 DEF r
  <2> QED BY <1>1, <1>8, <2>1, MovedTo
<1>10. OneType'
  BY <1>1, <1>2, <1>3, <1>7, <1>9 DEF OneType
<1>11. LockedInv'
  <2> SUFFICES ASSUME locked PROVE LockedInv'
    BY <1>3 DEF LockedInv
  <2>1. live' = {a} \ {0} /\ at'[t].pc = "store" /\ at'[t].made = a /\ m_Mutex = t /\ instance = 0
    BY <1>1, <1>2, <1>4, <1>8, <1>9 DEF LockedInv
  <2>2. \A u \in Callers : u # t => at'[u].pc \notin {"test", "new", "store", "delete"}
    BY <1>1, <1>9, <2>1 DEF LockedInv
  <2> QED BY <1>3, <1>9, <2>1, <2>2 DEF LockedInv
<1>12. LazyInv'
  <2> SUFFICES ASSUME ~ locked PROVE LazyInv'
    BY <1>3 DEF LazyInv
  <2>1. live' = live \cup {free} /\ at'[t].pc = "store" /\ at'[t].made \in live'
    BY <1>2, <1>7, <1>8, <1>9
  <2>2. Cardinality(live') = Cardinality(live) + 1
    BY <1>1, <1>6, <2>1, Addresses, FS_AddElement
  <2>3. Cardinality(NewCallers) = Cardinality(NewCallers') + 1
    BY <1>1, <1>9, Counted
  <2>4. Cardinality(StoreCallers') = Cardinality(StoreCallers) + 1
    BY <1>1, <1>9, Counted
  <2>5. Cardinality(live) \in Nat /\ Cardinality(NewCallers') \in Nat /\ Cardinality(Callers) \in Nat
        /\ Cardinality(StoreCallers) \in Nat
    BY <1>1, <1>9, Addresses
  <2>6. (instance = 0 => Cardinality(live') <= Cardinality(StoreCallers'))
        /\ Cardinality(live') + Cardinality(NewCallers') <= Cardinality(Callers)
    BY <1>1, <2>2, <2>3, <2>4, <2>5 DEF LazyInv
  <2>7. /\ \A u \in Callers : at'[u].pc \in {"idle", "new", "store", "return"}
        /\ \A u \in Callers : at'[u].pc = "return" => instance # 0
        /\ \A u \in Callers : at'[u].pc = "store" => at'[u].made \in live'
        /\ \A u \in Callers : at'[u].pc \in {"new", "store"} => u \in early
    BY <1>1, <1>9, <2>1 DEF LazyInv
  <2> QED BY <1>1, <1>3, <2>1, <2>6, <2>7 DEF LazyInv
<1> QED BY <1>10, <1>11, <1>12 DEF OneInv

\* The pointer is stored, with the lock also the mutex given back.
LEMMA StoreStep == ASSUME OneInv, NEW t \in Callers, One!Store(t) PROVE OneInv'
<1> USE DEF One!NULL
<1>1. OneType /\ LockedInv /\ LazyInv /\ at[t].pc = "store" /\ instance' = at[t].made
      /\ m_Mutex' = (IF locked THEN Nobody ELSE m_Mutex)
      /\ UNCHANGED <<locked, live, returned, early>>
  BY DEF OneInv, One!Store
<1> DEFINE r == [pc |-> "return", made |-> 0]
<1>2. r \in [pc : OnePlaces, made : One!Addresses \cup {0}] /\ r.pc = "return"
  BY DEF OnePlaces
<1>3. at' = [at EXCEPT ![t] = r]
  BY DEF One!Store
<1> HIDE DEF r
<1>4. /\ at' \in [Callers -> [pc : OnePlaces, made : One!Addresses \cup {0}]]
      /\ at'[t].pc = "return" /\ \A u \in Callers : u # t => at'[u] = at[u]
      /\ NewCallers' = NewCallers \ {t} /\ StoreCallers' = StoreCallers \ {t}
  BY <1>1, <1>2, <1>3, MovedTo
<1>5. at[t].made \in One!Addresses \cup {0} /\ NewCallers' = NewCallers
  BY <1>1, <1>4 DEF OneType, NewCallers
<1>6. OneType'
  BY <1>1, <1>4, <1>5 DEF OneType
<1>7. LockedInv'
  <2> SUFFICES ASSUME locked PROVE LockedInv'
    BY <1>1 DEF LockedInv
  <2>1. live = {at[t].made} \ {0} /\ m_Mutex = t /\ m_Mutex' = Nobody
    BY <1>1 DEF LockedInv
  <2>2. \A u \in Callers : at'[u].pc \notin {"test", "new", "store", "delete"} /\ u # Nobody
    BY <1>1, <1>4, <2>1, MonitorsAssumption DEF LockedInv
  <2> QED BY <1>1, <2>1, <2>2 DEF LockedInv
<1>8. LazyInv'
  <2> SUFFICES ASSUME ~ locked PROVE LazyInv'
    BY <1>1 DEF LazyInv
  <2>1. instance' \in live /\ instance' # 0
    BY <1>1, Addresses DEF LazyInv, OneType
  <2> QED BY <1>1, <1>4, <1>5, <2>1 DEF LazyInv
<1> QED BY <1>6, <1>7, <1>8 DEF OneInv

\* deleteInstance() leaves nothing.
LEMMA DeleteStep == ASSUME OneInv, NEW t \in Callers, One!deleteInstance(t) PROVE OneInv'
<1> USE DEF One!NULL
<1>1. OneType /\ LockedInv /\ LazyInv /\ at[t].pc = "delete" /\ One!Goes(t, "idle")
      /\ live' = live \ {instance} /\ instance' = 0 /\ m_Mutex' = Nobody
      /\ UNCHANGED <<locked, returned, early>> /\ "idle" \in OnePlaces
  BY DEF OneInv, One!deleteInstance, OnePlaces
<1>2. locked
  BY <1>1 DEF LazyInv
<1>3. /\ at' \in [Callers -> [pc : OnePlaces, made : One!Addresses \cup {0}]]
      /\ at'[t].pc = "idle" /\ \A u \in Callers : u # t => at'[u] = at[u]
      /\ StoreCallers' = StoreCallers \ {t}
  BY <1>1, GoesPlace
<1>4. \A u \in Callers : at'[u].pc \notin {"test", "new", "store", "delete"} /\ u # Nobody
  BY <1>1, <1>2, <1>3, MonitorsAssumption DEF LockedInv
<1>5. StoreCallers = {} /\ live' = {}
  <2>1. StoreCallers = {}
    BY <1>1, <1>2 DEF LockedInv, StoreCallers
  <2> QED BY <1>1, <1>2, <2>1 DEF LockedInv
<1>6. OneType'
  BY <1>1, <1>3, <1>5 DEF OneType
<1>7. LockedInv' /\ LazyInv'
  BY <1>1, <1>2, <1>4, <1>5 DEF LockedInv, LazyInv
<1> QED BY <1>6, <1>7 DEF OneInv

\* No step of a caller disturbs the invariant of the singletons.
LEMMA OneStep == OneInv /\ [One!Next]_oneVars => OneInv'
<1> SUFFICES ASSUME OneInv, [One!Next]_oneVars PROVE OneInv'
  OBVIOUS
<1>1. CASE UNCHANGED oneVars
  BY <1>1 DEF oneVars, OneInv, OneType, LockedInv, LazyInv, NewCallers, StoreCallers
<1> QED BY <1>1, GetInstanceStep, OneQuietSteps, NewStep, StoreStep, DeleteStep
        DEF One!Next, One!Step

\* The invariant gives the property.
LEMMA OneSound == OneInv => One!OneInstance
<1> SUFFICES ASSUME OneInv PROVE One!OneInstance
  OBVIOUS
<1> USE DEF One!NULL
<1>1. One!TypeOK
  BY DEF OneInv, OneType, OnePlaces, One!TypeOK
<1>2. ASSUME locked PROVE Cardinality(live) <= 1 /\ (m_Mutex = Nobody => live = {instance} \ {0})
  <2>1. \E x : live \subseteq {x}
    <3>1. CASE StoreCallers = {}
      BY <1>2, <3>1 DEF OneInv, LockedInv
    <3>2. CASE StoreCallers # {}
      BY <1>2, <3>2 DEF OneInv, LockedInv, StoreCallers
    <3> QED BY <3>1, <3>2
  <2>2. Cardinality(live) <= 1
    <3>1. PICK x : live \subseteq {x}
      BY <2>1
    <3>2. IsFiniteSet({x}) /\ Cardinality({x}) = 1
      BY FS_Singleton
    <3> QED BY <3>1, <3>2, FS_Subset
  <2>3. m_Mutex = Nobody => StoreCallers = {}
    BY <1>2, MonitorsAssumption DEF OneInv, LockedInv, StoreCallers
  <2> QED BY <1>2, <2>2, <2>3 DEF OneInv, LockedInv
<1> QED BY <1>1, <1>2, LockCardinality DEF One!OneInstance, OneInv, LazyInv

-----------------------------------------------------------------------------
(* The suite: the programs with a lock or without one. *)

LocksInv == PhilInv /\ OneInv /\ RaceInv /\ (prog = "le" => LEInv)

\* The invariant of the suite is inductive: a step of the suite is a step of each of these
\* programs or leaves its state alone.
LEMMA LocksInductive ==
    /\ Init => LocksInv
    /\ LocksInv /\ [Next]_allVars => LocksInv'
<1>1. Init => LocksInv
  BY PhilInit, OneInit, RaceInit, LEInit DEF Init, LocksInv
<1>2. ASSUME LocksInv, [Next]_allVars PROVE LocksInv'
  <2>1. /\ [Phil!Next]_philVars /\ [One!Next]_oneVars /\ [LE!RaceNext]_raceVars
        /\ prog' = prog
        /\ prog = "le" => [LE!Next]_exVars
    BY <1>2
    DEF Next, allVars, Only, SemOnly, PcOnly, DemoOnly, PhilOnly, TurnOnly, RaceOnly, OneOnly,
        AbOnly, SqOnly, ExOnly
  <2> QED BY <1>2, <2>1, PhilStep, OneStep, RaceStep, LEStep DEF LocksInv
<1> QED BY <1>1, <1>2

\* eat_think.cpp and mutex/example15.cpp: every mutex that is unlocked belongs to the
\* thread that unlocks it, and neighbours never eat together, however many there are.
THEOREM ChopsticksOwnedHolds == Spec => []ChopsticksOwned
<1>1. LocksInv => ChopsticksOwned
  <2> SUFFICES ASSUME LocksInv PROVE ChopsticksOwned
    OBVIOUS
  <2>1. prog = "le" => LE!MutexesOwned
    BY LESound DEF LocksInv
  <2> QED BY <2>1, PhilApart DEF LocksInv, PhilInv, ChopsticksOwned
<1> QED BY <1>1, LocksInductive, PTL DEF Spec

\* The singletons, for any number of callers: with the lock one object at most, without it
\* only the callers that entered before the first return make one.
THEOREM OneInstanceHolds == Spec => []OneInstance
<1>1. LocksInv => OneInstance
  BY OneSound DEF LocksInv, OneInstance
<1> QED BY <1>1, LocksInductive, PTL DEF Spec

\* c_thread.cpp and the examples: the unsynchronised counter ends between 2 and the number
\* of increments, for any number of threads and rounds; the list made by compare-and-swap
\* holds every node once and the locked counter counts every increase.
THEOREM FinalRangeHolds == Spec => []FinalRange
<1>1. LocksInv => FinalRange
  BY RaceSound, LESound DEF LocksInv, FinalRange
<1> QED BY <1>1, LocksInductive, PTL DEF Spec

=============================================================================
