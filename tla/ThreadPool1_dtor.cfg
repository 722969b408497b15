SPECIFICATION FairSpec
CONSTANTS
    Workers = {w1, w2}
    Clients = {main}
    Tasks = {t1, t2, t3}
    NoTask = NoTask
    Nobody = Nobody
PROPERTY DtorReturns
