--------------------------- MODULE ReactorServer ----------------------------
(***************************************************************************)
(* cpp/cpp_language/my_reactor/my_reactor_server.{h,cpp}: the main thread   *)
(* waits on epoll (listener level-triggered, clients edge-triggered), wakes *)
(* the accept thread or puts the client's descriptor on clients_list_ and   *)
(* wakes a worker; a worker reads until EWOULDBLOCK, answers, or closes.    *)
(* stop_ is true from the start and nothing clears it, so stop() and the    *)
(* destructor return at once and main_loop_ stays true: there are no        *)
(* actions for the end of the server.  Message texts are left out, and so   *)
(* is the registration that outlives close() while a recv() is blocked on   *)
(* the connection.                                                          *)
(***************************************************************************)
EXTENDS Naturals, Sequences, FiniteSets, Platform

CONSTANTS Conns,    \* connections that clients make
          Workers,  \* worker_thread_num threads
          Fds,      \* descriptors the process can open for clients
          MaxSent,  \* bound on the bytes a client sends
          None

VARIABLES
    peer,     \* client side: "away", "connected" or "closed"
    sent, unread,              \* bytes sent by the client, and not yet received
    backlog,                   \* connections listen() holds
    owner,                     \* descriptor -> connection, or None
    interest, edge,            \* epoll: registered descriptors, pending edges
    ev, mainPc,                \* main thread: its batch, "wait", "dispatch", "notify"
    accPc, new_fd,             \* accept thread: "lock", "sleep", "accept", "fcntl", "add"
    clients_list_,
    pc, client_fd, blocked     \* workers; the connection recv() sleeps on, or None

netVars == <<peer, sent, unread, backlog, owner>>
epollVars == <<interest, edge>>
mainVars == <<ev, mainPc>>
accVars == <<accPc, new_fd>>
workerVars == <<pc, client_fd, blocked>>
vars == <<netVars, epollVars, mainVars, accVars, clients_list_, workerVars>>

Listen == 3  \* listen_fd_

TypeOK ==
    /\ peer \in [Conns -> {"away", "connected", "closed"}]
    /\ sent \in [Conns -> 0 .. MaxSent] /\ unread \in [Conns -> 0 .. MaxSent]
    /\ backlog \in Seq(Conns) /\ owner \in [Fds -> Conns \cup {None}]
    /\ interest \subseteq Fds /\ edge \subseteq interest
    /\ ev \subseteq Fds \cup {Listen} /\ mainPc \in {"wait", "dispatch", "notify"}
    /\ accPc \in {"lock", "sleep", "accept", "fcntl", "add"} /\ new_fd \in Fds \cup {None}
    /\ clients_list_ \in Seq(Fds)
    /\ pc \in [Workers -> {"lock", "sleep", "recv", "del", "close", "send",
                           "sendDel", "sendClose", "blocked", "ended"}]
    /\ client_fd \in [Workers -> Fds \cup {None}]
    /\ blocked \in [Workers -> Conns \cup {None}]
    /\ \A w \in Workers : blocked[w] # None <=> pc[w] = "blocked"
    /\ \A f \in interest : owner[f] # None

\* init(): the listener is registered, the accept and worker threads are started.
Init ==
    /\ peer = [c \in Conns |-> "away"]
    /\ sent = [c \in Conns |-> 0] /\ unread = [c \in Conns |-> 0]
    /\ backlog = <<>> /\ owner = [f \in Fds |-> None]
    /\ interest = {} /\ edge = {}
    /\ ev = {} /\ mainPc = "wait"
    /\ accPc = "lock" /\ new_fd = None
    /\ clients_list_ = <<>>
    /\ pc = [w \in Workers |-> "lock"] /\ client_fd = [w \in Workers |-> None]
    /\ blocked = [w \in Workers |-> None]

-----------------------------------------------------------------------------
\* The clients.  Data or a close raises an edge on a registered descriptor.
Edges(c) == {f \in interest : owner[f] = c}

Connect(c) ==
    /\ peer[c] = "away"
    /\ peer' = [peer EXCEPT ![c] = "connected"]
    /\ backlog' = Append(backlog, c)
    /\ UNCHANGED <<sent, unread, owner, epollVars, mainVars, accVars, clients_list_,
                   workerVars>>

ClientSend(c) ==
    /\ peer[c] = "connected" /\ sent[c] < MaxSent
    /\ sent' = [sent EXCEPT ![c] = @ + 1]
    /\ unread' = [unread EXCEPT ![c] = @ + 1]
    /\ edge' = edge \cup Edges(c)
    /\ UNCHANGED <<peer, backlog, owner, interest, mainVars, accVars, clients_list_,
                   workerVars>>

ClientClose(c) ==
    /\ peer[c] = "connected"
    /\ peer' = [peer EXCEPT ![c] = "closed"]
    /\ edge' = edge \cup Edges(c)
    /\ UNCHANGED <<sent, unread, backlog, owner, interest, mainVars, accVars,
                   clients_list_, workerVars>>

-----------------------------------------------------------------------------
\* mainLoop(): epoll_wait() hands out the edges and, while the backlog is not
\* empty, the listener.  A timeout or an error changes nothing.
EpollWait ==
    /\ mainPc = "wait"
    /\ ev' = edge \cup (IF backlog # <<>> THEN {Listen} ELSE {})
    /\ ev' # {}
    /\ edge' = {}
    /\ mainPc' = "dispatch"
    /\ UNCHANGED <<netVars, interest, accVars, clients_list_, workerVars>>

\* The main thread's place once the entries in rest are left.
Rest(rest) == ev' = rest /\ mainPc' = IF rest = {} THEN "wait" ELSE "dispatch"

\* Mutant: the accept thread is not told.
DispatchAccept_Silent ==
    /\ mainPc = "dispatch" /\ Listen \in ev
    /\ Rest(ev \ {Listen})
    /\ UNCHANGED <<netVars, epollVars, accVars, clients_list_, workerVars>>

\* accept_cond_.notify_one(), without the mutex: lost if nobody waits.
DispatchAccept ==
    /\ mainPc = "dispatch" /\ Listen \in ev
    /\ accPc' = IF accPc = "sleep" THEN "accept" ELSE accPc
    /\ Rest(ev \ {Listen})
    /\ UNCHANGED <<netVars, epollVars, new_fd, clients_list_, workerVars>>

\* A client: push_back under worker_mutex_ ...
DispatchClient(f) ==
    /\ mainPc = "dispatch" /\ f \in ev \cap Fds
    /\ clients_list_' = Append(clients_list_, f)
    /\ ev' = ev \ {f} /\ mainPc' = "notify"
    /\ UNCHANGED <<netVars, epollVars, accVars, workerVars>>

Sleepers == {w \in Workers : pc[w] = "sleep"}

\* Mutant: a worker is woken only for the first entry of the list.
DispatchNotify_First ==
    /\ mainPc = "notify"
    /\ \E still \in IF Len(clients_list_) = 1 THEN WakeOne(Sleepers) ELSE {Sleepers} :
          pc' = [w \in Workers |-> IF w \in Sleepers \ still THEN "lock" ELSE pc[w]]
    /\ Rest(ev)
    /\ UNCHANGED <<netVars, epollVars, accVars, clients_list_, client_fd, blocked>>

\* ... then worker_cond_.notify_one().
DispatchNotify ==
    /\ mainPc = "notify"
    /\ \E still \in WakeOne(Sleepers) :
          pc' = [w \in Workers |-> IF w \in Sleepers \ still THEN "lock" ELSE pc[w]]
    /\ Rest(ev)
    /\ UNCHANGED <<netVars, epollVars, accVars, clients_list_, client_fd, blocked>>

-----------------------------------------------------------------------------
\* acceptThread(): waits, with no condition to test.
AccWait ==
    /\ accPc = "lock" /\ accPc' = "sleep"
    /\ UNCHANGED <<netVars, epollVars, mainVars, new_fd, clients_list_, workerVars>>

AccSpurious ==
    /\ accPc = "sleep" /\ accPc' = "accept"
    /\ UNCHANGED <<netVars, epollVars, mainVars, new_fd, clients_list_, workerVars>>

\* accept() fails: nothing in the backlog, or no descriptor left.
AcceptFails ==
    /\ accPc = "accept"
    /\ backlog = <<>> \/ FreeFds(owner, None) = {}
    /\ accPc' = "lock"
    /\ UNCHANGED <<netVars, epollVars, mainVars, new_fd, clients_list_, workerVars>>

\* accept() takes the oldest connection; one per wakeup.
Accept ==
    /\ accPc = "accept" /\ backlog # <<>> /\ FreeFds(owner, None) # {}
    /\ LET f == LowestFree(owner, None)
       IN  owner' = [owner EXCEPT ![f] = Head(backlog)] /\ new_fd' = f
    /\ backlog' = Tail(backlog)
    /\ accPc' = "fcntl"
    /\ UNCHANGED <<peer, sent, unread, epollVars, mainVars, clients_list_, workerVars>>

\* F_SETFL with O_NONBLOCK.  It fails if a worker that had the same number from an earlier
\* client has closed the new one meanwhile.
SetNonBlocking ==
    /\ accPc = "fcntl"
    /\ IF owner[new_fd] = None THEN accPc' = "lock" /\ new_fd' = None
                               ELSE accPc' = "add" /\ UNCHANGED new_fd
    /\ UNCHANGED <<netVars, epollVars, mainVars, clients_list_, workerVars>>

\* EPOLL_CTL_ADD, edge-triggered; what is readable already counts as an edge.  ADD fails, too,
\* if the descriptor has been closed.
EpollAdd ==
    /\ accPc = "add" /\ accPc' = "lock" /\ new_fd' = None
    /\ IF owner[new_fd] = None
         THEN UNCHANGED epollVars
         ELSE /\ interest' = interest \cup {new_fd}
              /\ edge' = IF Readable(unread, peer, owner[new_fd])
                           THEN edge \cup {new_fd} ELSE edge
    /\ UNCHANGED <<netVars, mainVars, clients_list_, workerVars>>

-----------------------------------------------------------------------------
Goto(w, place) == pc' = [pc EXCEPT ![w] = place]

\* workerThread(): "while (clients_list_.empty()) worker_cond_.wait(gurad)".
WorkerWait(w) ==
    /\ pc[w] = "lock" /\ clients_list_ = <<>>
    /\ Goto(w, "sleep")
    /\ UNCHANGED <<netVars, epollVars, mainVars, accVars, clients_list_, client_fd, blocked>>

WorkerSpurious(w) ==
    /\ pc[w] = "sleep" /\ Goto(w, "lock")
    /\ UNCHANGED <<netVars, epollVars, mainVars, accVars, clients_list_, client_fd, blocked>>

WorkerTake(w) ==
    /\ pc[w] = "lock" /\ clients_list_ # <<>>
    /\ client_fd' = [client_fd EXCEPT ![w] = Head(clients_list_)]
    /\ clients_list_' = Tail(clients_list_)
    /\ Goto(w, "recv")
    /\ UNCHANGED <<netVars, epollVars, mainVars, accVars, blocked>>

\* The connection behind the worker's descriptor now, which need not be the one
\* the event was about.
Current(w) == owner[client_fd[w]]

\* Mutant: one recv() per event.
Recv_Once(w) ==
    /\ pc[w] = "recv" /\ Current(w) # None /\ unread[Current(w)] > 0
    /\ unread' = [unread EXCEPT ![Current(w)] = 0]
    /\ Goto(w, "send")
    /\ UNCHANGED <<peer, sent, backlog, owner, epollVars, mainVars, accVars,
                   clients_list_, client_fd, blocked>>

\* recv() > 0: append and read again.
Recv(w) ==
    /\ pc[w] = "recv" /\ Current(w) # None /\ unread[Current(w)] > 0
    /\ unread' = [unread EXCEPT ![Current(w)] = 0]
    /\ UNCHANGED <<peer, sent, backlog, owner, epollVars, mainVars, accVars,
                   clients_list_, workerVars>>

\* recv() = 0, or an error because another worker has closed the descriptor.
RecvClosed(w) ==
    /\ pc[w] = "recv"
    /\ IF Current(w) = None
         THEN TRUE ELSE unread[Current(w)] = 0 /\ peer[Current(w)] = "closed"
    /\ Goto(w, "del")
    /\ UNCHANGED <<netVars, epollVars, mainVars, accVars, clients_list_, client_fd, blocked>>

\* Nothing to read.  The descriptor still blocks if the accept thread has just got it.
Blocks(w) == accPc = "fcntl" /\ client_fd[w] = new_fd
NothingToRead(w) == Current(w) # None /\ ~Readable(unread, peer, Current(w))

\* EWOULDBLOCK: everything has been read.
RecvDone(w) ==
    /\ pc[w] = "recv" /\ NothingToRead(w) /\ ~Blocks(w)
    /\ Goto(w, "send")
    /\ UNCHANGED <<netVars, epollVars, mainVars, accVars, clients_list_, client_fd, blocked>>

\* recv() sleeps on the connection, also when the descriptor is made non-blocking or closed
\* meanwhile, until there is something to read or the client closes.
RecvBlocks(w) ==
    /\ pc[w] = "recv" /\ NothingToRead(w) /\ Blocks(w)
    /\ Goto(w, "blocked") /\ blocked' = [blocked EXCEPT ![w] = Current(w)]
    /\ UNCHANGED <<netVars, epollVars, mainVars, accVars, clients_list_, client_fd>>
RecvWakes(w) ==
    /\ pc[w] = "blocked" /\ Readable(unread, peer, blocked[w])
    /\ Goto(w, IF unread[blocked[w]] > 0 THEN "recv" ELSE "del")
    /\ unread' = [unread EXCEPT ![blocked[w]] = 0] /\ blocked' = [blocked EXCEPT ![w] = None]
    /\ UNCHANGED <<peer, sent, backlog, owner, epollVars, mainVars, accVars, clients_list_,
                   client_fd>>

\* send() succeeds, or gives EWOULDBLOCK and the answer is dropped.
Send(w) ==
    /\ pc[w] = "send" /\ Current(w) # None
    /\ Goto(w, "lock") /\ client_fd' = [client_fd EXCEPT ![w] = None]
    /\ UNCHANGED <<netVars, epollVars, mainVars, accVars, clients_list_, blocked>>

\* send() fails on a closed descriptor or a connection whose peer is gone:
\* closeClient(), and the break leaves the thread's loop.
SendFails(w) ==
    /\ pc[w] = "send"
    /\ IF Current(w) = None THEN TRUE ELSE peer[Current(w)] = "closed"
    /\ Goto(w, "sendDel")
    /\ UNCHANGED <<netVars, epollVars, mainVars, accVars, clients_list_, client_fd, blocked>>

\* closeClient(): EPOLL_CTL_DEL of whatever the number stands for ...
CloseDel(w) ==
    /\ pc[w] \in {"del", "sendDel"}
    /\ Goto(w, IF pc[w] = "del" THEN "close" ELSE "sendClose")
    /\ interest' = interest \ {client_fd[w]} /\ edge' = edge \ {client_fd[w]}
    /\ UNCHANGED <<netVars, mainVars, accVars, clients_list_, client_fd, blocked>>

\* Mutant: the descriptor is only removed from epoll.
CloseFd_Leak(w) ==
    /\ pc[w] \in {"close", "sendClose"}
    /\ Goto(w, IF pc[w] = "close" THEN "lock" ELSE "ended")
    /\ client_fd' = [client_fd EXCEPT ![w] = None]
    /\ UNCHANGED <<netVars, epollVars, mainVars, accVars, clients_list_, blocked>>

\* ... and close(), which drops a registration made in between.
CloseFd(w) ==
    /\ pc[w] \in {"close", "sendClose"}
    /\ Goto(w, IF pc[w] = "close" THEN "lock" ELSE "ended")
    /\ owner' = [owner EXCEPT ![client_fd[w]] = None]
    /\ interest' = interest \ {client_fd[w]} /\ edge' = edge \ {client_fd[w]}
    /\ client_fd' = [client_fd EXCEPT ![w] = None]
    /\ UNCHANGED <<peer, sent, unread, backlog, mainVars, accVars, clients_list_, blocked>>

-----------------------------------------------------------------------------
MainStep ==
    EpollWait \/ DispatchAccept \/ DispatchNotify \/ \E f \in Fds : DispatchClient(f)
AcceptStep == AccWait \/ AcceptFails \/ Accept \/ SetNonBlocking \/ EpollAdd
WorkerStep(w) ==
    \/ WorkerWait(w) \/ WorkerTake(w) \/ Recv(w) \/ RecvClosed(w) \/ RecvDone(w)
    \/ RecvBlocks(w) \/ RecvWakes(w) \/ Send(w) \/ SendFails(w) \/ CloseDel(w) \/ CloseFd(w)

Next ==
    \/ \E c \in Conns : Connect(c) \/ ClientSend(c) \/ ClientClose(c)
    \/ MainStep \/ AcceptStep \/ AccSpurious
    \/ \E w \in Workers : WorkerStep(w) \/ WorkerSpurious(w)

Spec == Init /\ [][Next]_vars

\* Every server thread that can run is scheduled.
FairSpec == Spec /\ WF_vars(MainStep) /\ WF_vars(AcceptStep)
                 /\ \A w \in Workers : WF_vars(WorkerStep(w))

-----------------------------------------------------------------------------
InUse == {clients_list_[i] : i \in DOMAIN clients_list_}
Reading == {client_fd[w] : w \in {v \in Workers : pc[v] \in
               {"recv", "del", "close", "sendDel", "sendClose"}}}

\* Edge-triggered events are never lost: a registered client with something to
\* read has an edge in epoll, an entry in the main thread's batch or on the list,
\* or a worker that will read it (or close it) before it stops.
NoLostEdge ==
    \A f \in interest :
        Readable(unread, peer, owner[f]) => f \in edge \cup ev \cup InUse \cup Reading

\* While a worker sleeps, each listed client has a worker that is about to look
\* at the list, or the notification is still to come.
ListedHasWorker ==
    Sleepers # {} =>
        Len(clients_list_) <= Cardinality({w \in Workers : pc[w] = "lock"})
                            + (IF mainPc = "notify" THEN 1 ELSE 0)

\* The connections that wait in the backlog are accepted, although notifications
\* of the accept thread may be lost, as long as a descriptor is free.
BacklogServed == backlog # <<>> ~> (backlog = <<>> \/ FreeFds(owner, None) = {})

\* The descriptor of a client that has gone away is closed, unless every worker has ended
\* or sleeps in recv().
GoneIsClosed ==
    \A f \in Fds :
        (owner[f] # None /\ f \in interest /\ peer[owner[f]] = "closed")
            ~> \/ owner[f] = None
               \/ owner[f] # None /\ peer[owner[f]] # "closed"
               \/ \A w \in Workers : pc[w] \in {"blocked", "ended"}

\* clients_list_ holds clients that are available: descriptors that are open.
ListedAvailable == \A f \in InUse : owner[f] # None

=============================================================================
