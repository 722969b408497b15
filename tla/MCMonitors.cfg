SPECIFICATION FairSpec
CONSTANTS
    Producers = {p1, p2}
    Consumers = {c1, c2, c3, c4}
    Waiters = {w1, w2, w3}
    Counters = {t1, t2, t3}
    Nobody = Nobody
    MAX_SIZE = 3
    buffsize = 2
    MaxSignals = 4
    Philosophs = 5
    Printers = 3
    CondRounds = 12
    SpinRounds = 20
    Rounds = 3
    Callers = {t1, t2, t3}
    Poppers = {w1, w2, w3}
    QueueBound = 4
INVARIANTS
    SemConserved
    NoLostWakeup
    ChopsticksOwned
    InTurn
    OneInstance
    FinalRange
PROPERTY ProgramsGoOn
