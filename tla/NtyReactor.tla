----------------------------- MODULE NtyReactor -----------------------------
(***************************************************************************)
(* The single-threaded echo reactor of my_reactor/my_reactor_c.cpp: a table *)
(* of events indexed by descriptor, an epoll set whose entries point into   *)
(* it, and the callbacks accept, recv and send, which re-register their     *)
(* event every time.  Client descriptors start at 5 (3 is the listener, 4   *)
(* the epoll set).  Bytes are numbered per connection so that what is       *)
(* echoed can be compared with what was sent.                               *)
(*                                                                         *)
(* malloc() does not clear the table, but a block of this size comes fresh  *)
(* from the kernel, so that every status starts as 0.                       *)
(***************************************************************************)
EXTENDS Naturals, Sequences, FiniteSetsExt, Platform

CONSTANTS Conns,             \* connections that clients make
          MAX_EPOLL_EVENTS,  \* size of the table
          MAX_BUFFER_SIZE,   \* bytes one recv() takes
          MaxFd,             \* the process can open descriptors up to this one
          MaxSent,           \* bound on the bytes all clients send
          None

VARIABLES
    peer, sent,  \* client side: "away", "connected" or "closed"; bytes sent
    input,       \* bytes received by the kernel and not yet read
    backlog,     \* connections listen() holds
    owner,       \* descriptor -> connection, or None
    epoll,       \* the epoll set: descriptor -> "in", "out" or "no"
    events,      \* the table
    ready,       \* descriptors epoll_wait() reported that are still to be handled
    echoed,      \* bytes sent back on each connection
    dropped      \* number of bytes send() did not take

clientVars == <<peer, sent>>
vars == <<peer, sent, input, backlog, owner, epoll, events, ready, echoed, dropped>>

Listen == 3
First == 5
Fds == First .. MaxFd
Slots == First .. MAX_EPOLL_EVENTS - 1

TypeOK ==
    /\ peer \in [Conns -> {"away", "connected", "closed"}]
    /\ sent \in [Conns -> 0 .. MaxSent]
    /\ input \in [Conns -> Seq(1 .. MaxSent)] /\ echoed \in [Conns -> Seq(1 .. MaxSent)]
    /\ dropped \in [Conns -> 0 .. MaxSent]
    /\ backlog \in Seq(Conns) /\ owner \in [Fds -> Conns \cup {None}]
    /\ epoll \in [Fds -> {"in", "out", "no"}]
    /\ \A i \in Slots : /\ events[i].status \in {0, 1}
                        /\ events[i].events \in {"in", "out", "no"}
                        /\ events[i].buffer \in Seq(1 .. MaxSent)
    /\ ready \subseteq Fds \cup {Listen}

Init ==
    /\ peer = [c \in Conns |-> "away"] /\ sent = [c \in Conns |-> 0]
    /\ input = [c \in Conns |-> <<>>] /\ backlog = <<>>
    /\ owner = [f \in Fds |-> None] /\ epoll = [f \in Fds |-> "no"]
    /\ events = [i \in Slots |-> [events |-> "no", status |-> 0, buffer |-> <<>>]]
    /\ ready = {}
    /\ echoed = [c \in Conns |-> <<>>] /\ dropped = [c \in Conns |-> 0]

-----------------------------------------------------------------------------
Connect(c) ==
    /\ peer[c] = "away"
    /\ peer' = [peer EXCEPT ![c] = "connected"] /\ backlog' = Append(backlog, c)
    /\ UNCHANGED <<sent, input, owner, epoll, events, ready, echoed, dropped>>

ClientSend(c) ==
    /\ peer[c] = "connected" /\ MapThenSumSet(LAMBDA d : sent[d], Conns) < MaxSent
    /\ sent' = [sent EXCEPT ![c] = @ + 1]
    /\ input' = [input EXCEPT ![c] = Append(@, sent[c] + 1)]
    /\ UNCHANGED <<peer, backlog, owner, epoll, events, ready, echoed, dropped>>

ClientClose(c) ==
    /\ peer[c] = "connected"
    /\ peer' = [peer EXCEPT ![c] = "closed"]
    /\ UNCHANGED <<sent, input, backlog, owner, epoll, events, ready, echoed, dropped>>

-----------------------------------------------------------------------------
\* nty_event_set() and nty_event_add(): the slot is filled and registered; ADD
\* after a set with status 0.  The buffer is overwritten by recv() only.
EventAdded(f, mask) ==
    /\ events' = [events EXCEPT ![f].events = mask, ![f].status = 1]
    /\ epoll' = [epoll EXCEPT ![f] = mask]

\* nty_event_del(): the slot is free again, its other fields stay.
EventDeleted(f) ==
    /\ events' = [events EXCEPT ![f].status = 0]
    /\ epoll' = [epoll EXCEPT ![f] = "no"]

Unread(c) == Len(input[c]) > 0 \/ peer[c] = "closed"

\* epoll_wait(): level-triggered.  A socket can be written unless its buffer is
\* full, which is left to the kernel; a broken one is always reported.
EpollWait ==
    /\ ready = {}
    /\ LET in == {f \in Fds : epoll[f] = "in" /\ Unread(owner[f])}
           broken == {f \in Fds : epoll[f] = "out" /\ peer[owner[f]] = "closed"}
           out == {f \in Fds : epoll[f] = "out"} \ broken
       IN  \E writable \in SUBSET out :
               ready' = in \cup broken \cup writable
                           \cup (IF backlog # <<>> THEN {Listen} ELSE {})
    /\ ready' # {}
    /\ UNCHANGED <<clientVars, input, backlog, owner, epoll, events, echoed, dropped>>

\* epoll_wait() times out: the loop just goes round.
EpollTimeout ==
    /\ ready = {} /\ backlog = <<>>
    /\ {f \in Fds : epoll[f] = "in" /\ Unread(owner[f])} = {}
    /\ UNCHANGED vars

\* The first free place of the table; MAX_EPOLL_EVENTS when there is none.
FreeSlot ==
    LET free == {i \in Slots : events[i].status = 0}
    IN  IF free = {} THEN MAX_EPOLL_EVENTS ELSE CHOOSE i \in free : \A j \in free : i <= j

\* accept_callback() when accept() fails.
AcceptFails ==
    /\ Listen \in ready
    /\ backlog = <<>> \/ FreeFds(owner, None) = {}
    /\ ready' = ready \ {Listen}
    /\ UNCHANGED <<clientVars, input, backlog, owner, epoll, events, echoed, dropped>>

\* accept_callback() with the table full: the error return keeps the new
\* descriptor open and unregistered.
AcceptFull ==
    /\ Listen \in ready /\ backlog # <<>> /\ FreeFds(owner, None) # {}
    /\ FreeSlot = MAX_EPOLL_EVENTS
    /\ owner' = [owner EXCEPT ![LowestFree(owner, None)] = Head(backlog)]
    /\ backlog' = Tail(backlog) /\ ready' = ready \ {Listen}
    /\ UNCHANGED <<clientVars, input, epoll, events, echoed, dropped>>

\* accept_callback(): the event goes to the slot numbered by the descriptor,
\* whatever free slot the search has found.
AcceptClient ==
    /\ Listen \in ready /\ backlog # <<>> /\ FreeFds(owner, None) # {}
    /\ FreeSlot # MAX_EPOLL_EVENTS
    /\ LET cli_fd == LowestFree(owner, None)
       IN  /\ owner' = [owner EXCEPT ![cli_fd] = Head(backlog)]
           /\ EventAdded(cli_fd, "in")
    /\ backlog' = Tail(backlog) /\ ready' = ready \ {Listen}
    /\ UNCHANGED <<clientVars, input, echoed, dropped>>

\* The run loop calls a callback when the reported and the current mask agree.
Called(f, mask) == f \in ready /\ f \in Slots /\ events[f].events = mask

\* What one recv() takes.
Chunk(c) == SubSeq(input[c], 1, IF Len(input[c]) > MAX_BUFFER_SIZE
                                  THEN MAX_BUFFER_SIZE ELSE Len(input[c]))

\* Mutant: the whole input is dropped from the socket, not only what fits.
RecvData_Swallows(f) ==
    LET c == owner[f]
    IN  /\ Called(f, "in") /\ c # None /\ input[c] # <<>>
        /\ input' = [input EXCEPT ![c] = <<>>]
        /\ events' = [events EXCEPT ![f] = [events |-> "out", status |-> 1,
                                            buffer |-> Chunk(c)]]
        /\ epoll' = [epoll EXCEPT ![f] = "out"]
        /\ ready' = ready \ {f}
        /\ UNCHANGED <<clientVars, backlog, owner, echoed, dropped>>

\* Mutant: the event is registered for input again.
RecvData_StaysIn(f) ==
    LET c == owner[f]
    IN  /\ Called(f, "in") /\ c # None /\ input[c] # <<>>
        /\ input' = [input EXCEPT ![c] = SubSeq(@, Len(Chunk(c)) + 1, Len(@))]
        /\ events' = [events EXCEPT ![f].buffer = Chunk(c)]
        /\ ready' = ready \ {f}
        /\ UNCHANGED <<clientVars, backlog, owner, epoll, echoed, dropped>>

\* recv_callback() with data: the event is removed, filled and added for output.
RecvData(f) ==
    LET c == owner[f]
    IN  /\ Called(f, "in") /\ c # None /\ input[c] # <<>>
        /\ input' = [input EXCEPT ![c] = SubSeq(@, Len(Chunk(c)) + 1, Len(@))]
        /\ events' = [events EXCEPT ![f] = [events |-> "out", status |-> 1,
                                            buffer |-> Chunk(c)]]
        /\ epoll' = [epoll EXCEPT ![f] = "out"]
        /\ ready' = ready \ {f}
        /\ UNCHANGED <<clientVars, backlog, owner, echoed, dropped>>

\* Mutant: nty_event_del() forgets to clear the status.
RecvClosed_KeepsStatus(f) ==
    /\ Called(f, "in") /\ owner[f] # None
    /\ input[owner[f]] = <<>> \/ peer[owner[f]] = "closed"
    /\ owner' = [owner EXCEPT ![f] = None]
    /\ epoll' = [epoll EXCEPT ![f] = "no"]
    /\ ready' = ready \ {f}
    /\ UNCHANGED <<clientVars, input, backlog, events, echoed, dropped>>

\* Mutant: the socket of a client that has closed is kept.
RecvClosed_Ignored(f) ==
    /\ Called(f, "in") /\ owner[f] # None
    /\ input[owner[f]] = <<>> \/ peer[owner[f]] = "closed"
    /\ ready' = ready \ {f}
    /\ UNCHANGED <<clientVars, input, backlog, owner, epoll, events, echoed, dropped>>

\* recv_callback() with 0 or an error (a reset may discard input): the event is
\* removed, the socket closed.
RecvClosed(f) ==
    /\ Called(f, "in") /\ owner[f] # None
    /\ input[owner[f]] = <<>> \/ peer[owner[f]] = "closed"
    /\ EventDeleted(f)
    /\ owner' = [owner EXCEPT ![f] = None]
    /\ ready' = ready \ {f}
    /\ UNCHANGED <<clientVars, input, backlog, echoed, dropped>>

\* send_callback() with rc > 0: what send() did not take is forgotten, the event
\* is removed and added for input again (its length is set to 0).
SendData(f) ==
    LET c == owner[f]  ev == events[f]
    IN  /\ Called(f, "out") /\ c # None
        /\ \E rc \in 1 .. Len(ev.buffer) :
              /\ echoed' = [echoed EXCEPT ![c] = @ \o SubSeq(ev.buffer, 1, rc)]
              /\ dropped' = [dropped EXCEPT ![c] = @ + Len(ev.buffer) - rc]
        /\ events' = [events EXCEPT ![f] = [events |-> "in", status |-> 1, buffer |-> <<>>]]
        /\ epoll' = [epoll EXCEPT ![f] = "in"]
        /\ ready' = ready \ {f}
        /\ UNCHANGED <<clientVars, input, backlog, owner>>

\* send_callback() on a connection whose peer is gone: close, then remove.
SendFails(f) ==
    /\ Called(f, "out") /\ owner[f] # None /\ peer[owner[f]] = "closed"
    /\ owner' = [owner EXCEPT ![f] = None]
    /\ EventDeleted(f)
    /\ ready' = ready \ {f}
    /\ UNCHANGED <<clientVars, input, backlog, echoed, dropped>>

-----------------------------------------------------------------------------
Accepting == AcceptFails \/ AcceptFull \/ AcceptClient
Callback(f) == RecvData(f) \/ RecvClosed(f) \/ SendData(f) \/ SendFails(f)
Reactor == EpollWait \/ Accepting \/ \E f \in Fds : Callback(f)

Next ==
    \/ \E c \in Conns : Connect(c) \/ ClientSend(c) \/ ClientClose(c)
    \/ Reactor \/ EpollTimeout

Spec == Init /\ [][Next]_vars

\* The loop runs, and the clients read what is sent to them, so that a socket
\* waiting for output is reported again and again.
FairSpec ==
    /\ Spec /\ WF_vars(Reactor)
    /\ \A f \in Fds : SF_vars(EpollWait /\ f \in ready')

-----------------------------------------------------------------------------
Registered(c) == {f \in Slots : owner[f] = c /\ events[f].status = 1}

\* The search for a free slot and the kernel's choice of a descriptor agree,
\* although the table is only ever indexed by descriptor: a slot is taken exactly
\* while its descriptor is open, and registered with the slot's mask.
SlotIsFd ==
    /\ FreeSlot # MAX_EPOLL_EVENTS => FreeSlot = LowestFree(owner, None)
    /\ \A f \in Slots : IF events[f].status = 1
                          THEN owner[f] # None /\ epoll[f] = events[f].events
                          ELSE owner[f] = None /\ epoll[f] = "no"

\* No byte is echoed twice, out of order or to another client, even when
\* descriptors are reused: what a registered client has sent is what was echoed,
\* what a short send() dropped, what waits in its slot and what is unread.
BytesAccounted ==
    \A c \in Conns : \A f \in Registered(c) :
        LET pending == (IF events[f].events = "out" THEN events[f].buffer ELSE <<>>)
                          \o input[c]
            before == sent[c] - Len(pending)
        IN  /\ Len(echoed[c]) + dropped[c] = before
            /\ \A i \in DOMAIN pending : pending[i] = before + i
            /\ \A i \in DOMAIN echoed[c] :
                  /\ echoed[c][i] <= before
                  /\ i > 1 => echoed[c][i - 1] < echoed[c][i]

\* Every byte of a registered client is answered, unless the connection ends: the
\* reactor does not rest with an unanswered byte.
Unanswered ==
    \E c \in Conns : Registered(c) # {} /\ Len(echoed[c]) + dropped[c] < sent[c]
Answered == Unanswered ~> ~Unanswered

\* The descriptors and the slots of clients that have gone away are released.
Abandoned == \E c \in Conns : Registered(c) # {} /\ peer[c] = "closed"
GoneIsReleased == Abandoned ~> ~Abandoned

=============================================================================
