SPECIFICATION FairSpec
CONSTANTS
    Workers = {w1}
    Clients = {c1, c2}
    MaxAdded = 5
    Nobody = Nobody
PROPERTY AddReturns
