SPECIFICATION FairSpec
CONSTANTS
    Conns = {c1, c2}
    Workers = {w1, w2}
    Fds = {5, 6}
    MaxSent = 1
    None = None
INVARIANT ListedAvailable
