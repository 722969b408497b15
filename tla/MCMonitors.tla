----------------------------- MODULE MCMonitors -----------------------------
(***************************************************************************)
(* The small synchronisation programs as one suite for TLC: a behaviour     *)
(* picks one program and runs it with its own state while the state of the  *)
(* others stays as it is.  Each program's module is instantiated with its   *)
(* variables renamed; the two versions of TurnTaking share theirs.          *)
(***************************************************************************)
EXTENDS Naturals, Sequences, FiniteSets

CONSTANTS Producers, Consumers, Waiters, Counters, Nobody, MAX_SIZE, buffsize,
          MaxSignals, Philosophs, Printers, CondRounds, SpinRounds, Rounds,
          Callers, Poppers, QueueBound

\* The sets of threads are finite, the two kinds of a program are there and differ, no
\* thread is main or a name for nobody, and the numbers are those of the sources: at least
\* two philosophers, a buffer with room, something to produce and to print, more than
\* one increment.
ASSUME MonitorsAssumption ==
    /\ IsFiniteSet(Waiters) /\ IsFiniteSet(Poppers) /\ IsFiniteSet(Callers)
    /\ IsFiniteSet(Counters)
    /\ Producers # {} /\ Consumers # {} /\ Producers \cap Consumers = {}
    /\ Waiters # {} /\ Waiters \cap Callers = {} /\ "main" \notin Waiters \cup Callers
    /\ 0 \notin Callers /\ Nobody \notin Callers \cup Counters
    /\ Nobody \notin 1 .. Philosophs
    /\ \E a, b \in Counters : a # b
    /\ MAX_SIZE \in Nat /\ buffsize \in Nat \ {0} /\ MaxSignals \in Nat \ {0}
    /\ Philosophs \in Nat \ {0, 1} /\ Printers \in Nat \ {0} /\ QueueBound \in Nat
    /\ CondRounds \in Nat /\ SpinRounds \in Nat
    /\ Rounds \in Nat \ {0, 1}

VARIABLES
    prog,                                                \* the program that runs
    count, semCond, calling, signals, passed,            \* Semaphore
    q, con, run,                                         \* ProducerConsumer
    item_buff, is_full, is_empty, demoPc, last,          \* BufferDemo
    chopstick, philPc,                                   \* Philosophers
    flag, turnCond, turnPc, left, out,                   \* TurnTaking
    sharedi, tmp, racePc, i,                             \* LockExamples: the counter
    locked, instance, m_Mutex, live, at, returned, early,  \* Singleton
    abFlag, cond_var, pair, shown,                       \* PrintAB
    data_queue, data_cond, popping,                      \* SafeQueue2
    example, word, mine, exCv, exAt, exOut               \* CondExamples, LockExamples

semVars == <<count, semCond, calling, signals, passed>>
pcVars == <<q, con, run>>
demoVars == <<item_buff, is_full, is_empty, demoPc, last>>
philVars == <<chopstick, philPc>>
turnVars == <<flag, turnCond, turnPc, left, out>>
raceVars == <<sharedi, tmp, racePc, i>>
oneVars == <<locked, instance, m_Mutex, live, at, returned, early>>
abVars == <<abFlag, cond_var, pair, shown>>
sqVars == <<data_queue, data_cond, popping>>
exVars == <<example, word, mine, exCv, exAt, exOut>>
allVars == <<prog, semVars, pcVars, demoVars, philVars, turnVars, raceVars, oneVars, abVars,
             sqVars, exVars>>

Sem == INSTANCE Semaphore WITH cond <- semCond, Initial <- 1, Signallers <- {"func1"}
PC == INSTANCE ProducerConsumer
Demo == INSTANCE BufferDemo WITH pc <- demoPc
Phil == INSTANCE Philosophers WITH pc <- philPc, N <- Philosophs
Cond == INSTANCE TurnTaking WITH cond <- turnCond, pc <- turnPc, N <- Printers,
                                 Rounds <- CondRounds, Spin <- FALSE
Spin == INSTANCE TurnTaking WITH cond <- turnCond, pc <- turnPc, N <- Printers,
                                 Rounds <- SpinRounds, Spin <- TRUE
One == INSTANCE Singleton
AB == INSTANCE PrintAB
SQ == INSTANCE SafeQueue2
CE == INSTANCE CondExamples WITH Takers <- Waiters, Givers <- Callers, Items <- MaxSignals,
                                 sent <- mine, cv <- exCv, at <- exAt, shown <- exOut
LE == INSTANCE LockExamples WITH Threads <- Counters, Attempts <- Rounds,
                                 owner <- exCv, at <- exAt

Init ==
    /\ Sem!Init /\ PC!Init /\ Demo!Init /\ Phil!Init /\ LE!RaceInit /\ SQ!Init
    /\ \/ prog \in {"sem", "pc", "demo", "phil", "cond", "race", "one", "ab", "sq", "ce", "le"} /\ Cond!Init
       \/ prog = "spin" /\ Spin!Init
    /\ One!Init /\ (prog # "one" => locked) /\ AB!Init /\ (prog # "ab" => pair = "all")
    /\ IF prog = "le" THEN LE!Init /\ exOut = <<>> ELSE CE!Init /\ (prog # "ce" => example = "gate")

Only(p) == prog = p /\ UNCHANGED prog
SemOnly == Only("sem") /\ UNCHANGED <<pcVars, demoVars, philVars, turnVars, raceVars, oneVars, abVars, sqVars, exVars>>
PcOnly == Only("pc") /\ UNCHANGED <<semVars, demoVars, philVars, turnVars, raceVars, oneVars, abVars, sqVars, exVars>>
DemoOnly == Only("demo") /\ UNCHANGED <<semVars, pcVars, philVars, turnVars, raceVars, oneVars, abVars, sqVars, exVars>>
PhilOnly == Only("phil") /\ UNCHANGED <<semVars, pcVars, demoVars, turnVars, raceVars, oneVars, abVars, sqVars, exVars>>
TurnOnly == UNCHANGED <<prog, semVars, pcVars, demoVars, philVars, raceVars, oneVars, abVars, sqVars, exVars>>
RaceOnly == Only("race") /\ UNCHANGED <<semVars, pcVars, demoVars, philVars, turnVars, oneVars, abVars, sqVars, exVars>>
OneOnly == Only("one") /\ UNCHANGED <<semVars, pcVars, demoVars, philVars, turnVars, raceVars, abVars, sqVars, exVars>>
AbOnly == Only("ab") /\ UNCHANGED <<semVars, pcVars, demoVars, philVars, turnVars, raceVars, oneVars, sqVars, exVars>>
SqOnly == Only("sq") /\ UNCHANGED <<semVars, pcVars, demoVars, philVars, turnVars, raceVars, oneVars, abVars, exVars>>
ExOnly(p) == Only(p) /\ UNCHANGED <<semVars, pcVars, demoVars, philVars, turnVars, raceVars, oneVars, abVars, sqVars>>

Next ==
    \/ SemOnly /\ Sem!Next
    \/ PcOnly /\ PC!Next
    \/ DemoOnly /\ Demo!Next
    \/ PhilOnly /\ Phil!Next
    \/ prog = "cond" /\ TurnOnly /\ Cond!Next
    \/ prog = "spin" /\ TurnOnly /\ Spin!Next
    \/ RaceOnly /\ LE!RaceNext
    \/ OneOnly /\ One!Next
    \/ AbOnly /\ AB!Next
    \/ SqOnly /\ SQ!Next
    \/ ExOnly("ce") /\ CE!Next
    \/ ExOnly("le") /\ LE!Next /\ UNCHANGED exOut

\* The fairness of each module, for the behaviours that run it.
Fairness ==
    /\ \A w \in Waiters : WF_allVars(SemOnly /\ Sem!WaitStep(w))
    /\ \A p \in Producers : /\ WF_allVars(PcOnly /\ PC!ProducerStep(p))
                            /\ WF_allVars(DemoOnly /\ Demo!ProducerStep(p))
    /\ \A c \in Consumers : /\ WF_allVars(PcOnly /\ PC!ConsumerStep(c))
                            /\ WF_allVars(DemoOnly /\ Demo!ConsumerStep(c))
    /\ \A p \in 1 .. Philosophs : WF_allVars(PhilOnly /\ Phil!Step(p))
    /\ \A t \in 0 .. Printers - 1 :
          /\ WF_allVars(prog = "cond" /\ TurnOnly /\ Cond!Step(t))
          /\ WF_allVars(prog = "spin" /\ TurnOnly /\ Spin!Step(t))
    /\ \A t \in Callers : /\ WF_allVars(OneOnly /\ One!Step(t))
                          /\ SF_allVars(OneOnly /\ One!Lock(t))
    /\ WF_allVars(AbOnly /\ AB!StepA) /\ WF_allVars(AbOnly /\ AB!StepB)
    /\ WF_allVars(ExOnly("ce") /\ CE!MainStep)
    /\ \A t \in Waiters \cup Callers : /\ WF_allVars(ExOnly("ce") /\ CE!Step(t))
                                      /\ WF_allVars(ExOnly("ce") /\ CE!Timeout(t))
    /\ \A t \in Counters : WF_allVars(ExOnly("le") /\ LE!Step(t) /\ UNCHANGED exOut)

Spec == Init /\ [][Next]_allVars
FairSpec == Spec /\ Fairness

-----------------------------------------------------------------------------
\* The semaphore neither creates nor loses units.
SemConserved == Sem!TypeOK /\ Sem!Conserved

\* Nobody sleeps on a condition variable beside what it waits for: units have
\* awake takers, producers and consumers sleep only when blocked, never all
\* together and never beside an unannounced item, no printer sleeps when it is its
\* turn, every value of the second queue has a thread that is awake for it, and the
\* notifications of the library examples reach everybody they are for.
NoLostWakeup ==
    /\ Sem!UnitsHaveTakers
    /\ PC!TypeOK /\ PC!SleepersBlocked
    /\ Demo!TypeOK /\ Demo!SomebodyAwake /\ Demo!ItemsAnnounced
    /\ Cond!SleepsOutOfTurn
    /\ AB!TurnAwake
    /\ SQ!ValuesHaveTakers
    /\ prog = "ce" => CE!NobodyForgotten

\* A philosopher unlocks only chopsticks it holds, and neighbours never eat
\* together; the tasks with two mutexes own what they unlock.
ChopsticksOwned ==
    /\ Phil!TypeOK /\ Phil!OwnsWhatItUnlocks /\ Phil!NeighboursApart
    /\ prog = "le" => LE!MutexesOwned

\* The printing threads print strictly in turn, waiting or spinning, and cargoes, reports
\* and promised values come out once and in order.
InTurn == Cond!InTurn /\ AB!Alternate /\ (prog = "ce" => CE!Delivered)

\* The locked singletons never have two instances and show the one there is; the lazy
\* ones make instances only for calls that overlap the first.
OneInstance == One!OneInstance

\* The unsynchronised counter ends between 2 and the number of increments; the locked one
\* counts all, and the list made by compare-and-swap has every node that was appended.
FinalRange == LE!FinalRange /\ (prog = "le" => LE!NothingLost)

\* The programs go on: a unit and a waiter find each other, products and items
\* flow for ever, chopsticks are put down again, all rounds and letters are printed,
\* calls for the single instance return, the library examples end.
ProgramsGoOn ==
    /\ Sem!WaitersServed
    /\ prog = "pc" => PC!BothGoOn
    /\ prog = "demo" => Demo!KeepsFlowing
    /\ Phil!PutsDown
    /\ prog = "cond" => Cond!AllPrinted
    /\ prog = "spin" => Spin!AllPrinted
    /\ prog = "ab" => AB!BothPrint
    /\ One!CallsReturn
    /\ prog = "ce" => CE!AllEnd
    /\ prog = "le" => LE!AllEnd

=============================================================================
