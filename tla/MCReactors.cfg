SPECIFICATION FairSpec
CONSTANTS
    Conns = {c1, c2}
    Workers = {w1, w2}
    MaxSent = 1
    NtyConns = {c1, c2, c3}
    MAX_EPOLL_EVENTS = 6
    MAX_BUFFER_SIZE = 1
    MaxFd = 6
    NtySent = 2
    ResLen = 2
    MaxRequests = 2
    ClientFds = {5}
    None = None
INVARIANTS
    NoLostEdge
    ListedHasWorker
    SlotIsFd
    BytesAccounted
    ResponseExact
PROPERTIES
    ClientsServed
    GoneIsReleased
