SPECIFICATION FairSpec
CONSTANTS
    Pushers = {p1, p2}
    Poppers = {c1, c2}
    SizeMax = 1
    MaxPushes = 3
    Nobody = Nobody
INVARIANTS
    TypeOK
    Fifo
    Bounded
    SleepersHaveReason
    EndIsFinal
PROPERTY PopServed
