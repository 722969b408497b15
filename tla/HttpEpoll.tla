----------------------------- MODULE HttpEpoll ------------------------------
(***************************************************************************)
(* The keep-alive HTTP test server of cpp/socket/epoll.cpp: one thread,     *)
(* level-triggered epoll, a map cons of per-descriptor state, and one large *)
(* constant response that is written in as many parts as the socket takes.  *)
(*                                                                         *)
(* A request is the token "x" (a request line of more than 4 bytes) and the *)
(* token "end" (the empty line); the response has ResLen parts.  The        *)
(* clients behave like curl with keep-alive: they send a request only when  *)
(* the last response is complete.                                           *)
(***************************************************************************)
EXTENDS Naturals, Sequences, FiniteSets, Platform

CONSTANTS Conns, Fds,
          ResLen,       \* parts of httpRes
          MaxRequests,  \* bound on the requests of a client
          None

VARIABLES
    peer,              \* "away", "connected" or "closed"
    tokens,            \* tokens each client has sent
    input, backlog, owner,
    epoll,             \* descriptor -> "no", "in" or "inout"
    cons,              \* descriptor -> [readed, written, writeEnabled], or None
    ready,             \* pairs <<descriptor, "in" or "out">> still to be handled
    reading,           \* the descriptor handleRead() is reading, or None
    out,               \* parts written to each connection
    exited             \* exit_if() has ended the process

netVars == <<peer, tokens, backlog>>
vars == <<peer, tokens, input, backlog, owner, epoll, cons, ready, reading, out, exited>>

Listen == 4
NewCon == [readed |-> <<>>, written |-> 0, writeEnabled |-> FALSE]
Con(f) == IF cons[f] = None THEN NewCon ELSE cons[f]

TypeOK ==
    /\ peer \in [Conns -> {"away", "connected", "closed"}]
    /\ tokens \in [Conns -> 0 .. 2 * MaxRequests]
    /\ input \in [Conns -> Seq({"x", "end"})]
    /\ backlog \in Seq(Conns) /\ owner \in [Fds -> Conns \cup {None}]
    /\ epoll \in [Fds -> {"no", "in", "inout"}]
    /\ \A f \in Fds : cons[f] # None => cons[f].written \in 0 .. ResLen - 1
    /\ ready \subseteq (Fds \cup {Listen}) \X {"in", "out"}
    /\ reading \in Fds \cup {None}
    /\ out \in [Conns -> Nat] /\ exited \in BOOLEAN

Init ==
    /\ peer = [c \in Conns |-> "away"] /\ tokens = [c \in Conns |-> 0]
    /\ input = [c \in Conns |-> <<>>] /\ backlog = <<>>
    /\ owner = [f \in Fds |-> None] /\ epoll = [f \in Fds |-> "no"]
    /\ cons = [f \in Fds |-> None] /\ ready = {} /\ reading = None
    /\ out = [c \in Conns |-> 0] /\ exited = FALSE

-----------------------------------------------------------------------------
Connect(c) ==
    /\ peer[c] = "away"
    /\ peer' = [peer EXCEPT ![c] = "connected"] /\ backlog' = Append(backlog, c)
    /\ UNCHANGED <<tokens, input, owner, epoll, cons, ready, reading, out, exited>>

ClientSend(c) ==
    /\ peer[c] = "connected" /\ tokens[c] < 2 * MaxRequests
    /\ tokens[c] % 2 = 0 => out[c] = ResLen * (tokens[c] \div 2)
    /\ tokens' = [tokens EXCEPT ![c] = @ + 1]
    /\ input' = [input EXCEPT ![c] = Append(@, IF tokens[c] % 2 = 0 THEN "x" ELSE "end")]
    /\ UNCHANGED <<peer, backlog, owner, epoll, cons, ready, reading, out, exited>>

ClientClose(c) ==
    /\ peer[c] = "connected"
    /\ peer' = [peer EXCEPT ![c] = "closed"]
    /\ UNCHANGED <<tokens, input, backlog, owner, epoll, cons, ready, reading, out, exited>>

-----------------------------------------------------------------------------
Idle == ready = {} /\ reading = None /\ ~exited
In == {f \in Fds : epoll[f] # "no" /\ (input[owner[f]] # <<>> \/ peer[owner[f]] = "closed")}
Out == {f \in Fds : epoll[f] = "inout"} \ In

\* loop_once(): epoll_wait() reports what is readable and, as the kernel finds
\* room, what is writable; a descriptor that is both counts as readable.
EpollWait ==
    /\ Idle
    /\ \E writable \in SUBSET Out :
          ready' = (In \X {"in"}) \cup (writable \X {"out"})
                     \cup (IF backlog # <<>> THEN {<<Listen, "in">>} ELSE {})
    /\ ready' # {}
    /\ UNCHANGED <<netVars, input, owner, epoll, cons, reading, out, exited>>

EpollTimeout == Idle /\ In = {} /\ backlog = <<>> /\ UNCHANGED vars

\* handleAccept(): non-blocking, registered for reading.
HandleAccept ==
    /\ reading = None /\ ~exited /\ <<Listen, "in">> \in ready /\ FreeFds(owner, None) # {}
    /\ LET cfd == LowestFree(owner, None)
       IN  /\ owner' = [owner EXCEPT ![cfd] = Head(backlog)]
           /\ epoll' = [epoll EXCEPT ![cfd] = "in"]
    /\ backlog' = Tail(backlog)
    /\ ready' = ready \ {<<Listen, "in">>}
    /\ UNCHANGED <<peer, tokens, input, cons, reading, out, exited>>

\* exit_if() ends the server: accept() fails if no descriptor is left, getpeername() if the
\* client was accepted after it has reset the connection (not if it has closed it in order).
AcceptExits ==
    /\ reading = None /\ ~exited /\ <<Listen, "in">> \in ready
    /\ FreeFds(owner, None) = {} \/ peer[Head(backlog)] = "closed"
    /\ exited' = TRUE
    /\ UNCHANGED <<netVars, input, owner, epoll, cons, ready, reading, out>>

\* close() and cons.erase(): the end of a connection.
Closed(f) ==
    /\ owner' = [owner EXCEPT ![f] = None]
    /\ epoll' = [epoll EXCEPT ![f] = "no"]
    /\ cons' = [cons EXCEPT ![f] = None]

\* Mutant: the parts already written are not remembered.
SendRes_Restarts(f, con, k) ==
    LET left == ResLen - con.written
    IN  /\ k <= left
        /\ out' = [out EXCEPT ![owner[f]] = @ + k]
        /\ IF k = left
             THEN cons' = [cons EXCEPT ![f] = None] /\ epoll' = [epoll EXCEPT ![f] = "in"]
             ELSE /\ cons' = [cons EXCEPT ![f] = [con EXCEPT !.writeEnabled = TRUE]]
                  /\ epoll' = [epoll EXCEPT ![f] = "inout"]
        /\ UNCHANGED owner

\* Mutant: a short write does not ask for the write event.
SendRes_NoInterest(f, con, k) ==
    LET left == ResLen - con.written
    IN  /\ k <= left
        /\ out' = [out EXCEPT ![owner[f]] = @ + k]
        /\ IF k = left
             THEN cons' = [cons EXCEPT ![f] = None] /\ epoll' = [epoll EXCEPT ![f] = "in"]
             ELSE /\ cons' = [cons EXCEPT ![f] = [con EXCEPT !.written = @ + k]]
                  /\ UNCHANGED epoll
        /\ UNCHANGED owner

\* sendRes() for the state con when the socket takes k more parts: complete, then
\* the write event is given up and the state erased; or EAGAIN.
SendRes(f, con, k) ==
    LET left == ResLen - con.written
    IN  /\ k <= left
        /\ out' = [out EXCEPT ![owner[f]] = @ + k]
        /\ IF k = left
             THEN cons' = [cons EXCEPT ![f] = None] /\ epoll' = [epoll EXCEPT ![f] = "in"]
             ELSE /\ cons' = [cons EXCEPT ![f] = [con EXCEPT !.written = @ + k,
                                                              !.writeEnabled = TRUE]]
                  /\ epoll' = [epoll EXCEPT ![f] = "inout"]
        /\ UNCHANGED owner

\* handleRead() begins.
HandleRead(f) ==
    /\ reading = None /\ ~exited /\ <<f, "in">> \in ready
    /\ reading' = f /\ ready' = ready \ {<<f, "in">>}
    /\ UNCHANGED <<netVars, input, owner, epoll, cons, out, exited>>

\* A request is complete when the bytes read so far end with the empty line.
Complete(readed) == Len(readed) >= 2 /\ readed[Len(readed)] = "end"

\* read() > 0: n tokens are appended; a complete request is answered at once.  A
\* write error closes the descriptor and the next read() ends the loop.
ReadData ==
    /\ reading # None /\ input[owner[reading]] # <<>>
    /\ \E n \in 1 .. Len(input[owner[reading]]) :
          LET c == owner[reading]
              con == [Con(reading) EXCEPT !.readed = @ \o SubSeq(input[c], 1, n)]
          IN  /\ input' = [input EXCEPT ![c] = SubSeq(@, n + 1, Len(@))]
              /\ IF ~Complete(con.readed)
                   THEN /\ cons' = [cons EXCEPT ![reading] = con]
                        /\ UNCHANGED <<owner, epoll, out, reading>>
                   ELSE \/ \E k \in 0 .. ResLen : SendRes(reading, con, k) /\ UNCHANGED reading
                        \/ /\ peer[c] = "closed" /\ Closed(reading)
                           /\ reading' = None /\ UNCHANGED out
    /\ UNCHANGED <<netVars, ready, exited>>

\* EAGAIN: back to the loop.
ReadAgain ==
    /\ reading # None /\ input[owner[reading]] = <<>> /\ peer[owner[reading]] # "closed"
    /\ reading' = None
    /\ UNCHANGED <<netVars, input, owner, epoll, cons, ready, out, exited>>

\* Mutant: the per-connection state outlives the connection.
ReadEnd_KeepsCon ==
    /\ reading # None /\ input[owner[reading]] = <<>> /\ peer[owner[reading]] = "closed"
    /\ owner' = [owner EXCEPT ![reading] = None]
    /\ epoll' = [epoll EXCEPT ![reading] = "no"]
    /\ reading' = None
    /\ UNCHANGED <<netVars, input, cons, ready, out, exited>>

\* read() = 0 or an error: close, even with a response under way.
ReadEnd ==
    /\ reading # None /\ input[owner[reading]] = <<>> /\ peer[owner[reading]] = "closed"
    /\ Closed(reading) /\ reading' = None
    /\ UNCHANGED <<netVars, input, ready, out, exited>>

\* handleWrite(): the socket has room, or is broken.
HandleWrite(f) ==
    /\ reading = None /\ ~exited /\ <<f, "out">> \in ready
    /\ \/ \E k \in 1 .. ResLen : SendRes(f, Con(f), k)
       \/ peer[owner[f]] = "closed" /\ Closed(f) /\ UNCHANGED out
    /\ ready' = ready \ {<<f, "out">>}
    /\ UNCHANGED <<netVars, input, reading, exited>>

-----------------------------------------------------------------------------
Server ==
    \/ EpollWait \/ HandleAccept \/ AcceptExits \/ ReadData \/ ReadAgain \/ ReadEnd
    \/ \E f \in Fds : HandleRead(f) \/ HandleWrite(f)
Ended == exited /\ UNCHANGED vars

Next ==
    \/ \E c \in Conns : Connect(c) \/ ClientSend(c) \/ ClientClose(c)
    \/ Server \/ EpollTimeout \/ Ended

Spec == Init /\ [][Next]_vars

\* The loop runs, and clients read, so that a socket waiting for room is reported
\* again and again.
FairSpec ==
    /\ Spec /\ WF_vars(Server)
    /\ \A f \in Fds : SF_vars(EpollWait /\ <<f, "out">> \in ready')

-----------------------------------------------------------------------------
\* Write interest and per-connection state agree: a descriptor waits for room
\* exactly while a response is under way, also after descriptors are reused.
InterestMatches ==
    \A f \in Fds : IF owner[f] = None
                     THEN epoll[f] = "no" /\ cons[f] = None
                     ELSE epoll[f] = IF Con(f).writeEnabled THEN "inout" ELSE "in"

\* No part of a response is skipped, repeated or sent without a request: what a
\* client has got is a whole number of responses and the part under way, never
\* more than it has asked for.
ResponseExact ==
    \A f \in Fds : owner[f] # None =>
        LET c == owner[f]
        IN  /\ out[c] % ResLen = Con(f).written
            /\ out[c] <= ResLen * (tokens[c] \div 2)

\* A client that has sent a request gets the whole response, unless it closes or
\* the server has run out of descriptors.
Waiting ==
    \E c \in Conns : out[c] < ResLen * (tokens[c] \div 2) /\ peer[c] = "connected"
Responded == Waiting ~> (~Waiting \/ exited)

=============================================================================
