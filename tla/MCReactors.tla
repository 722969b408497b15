----------------------------- MODULE MCReactors -----------------------------
(***************************************************************************)
(* The three epoll servers as one suite for TLC: a behaviour picks a server *)
(* and runs it with its clients while the state of the others stays as it   *)
(* is.                                                                      *)
(***************************************************************************)
EXTENDS Naturals, Sequences, FiniteSets

CONSTANTS Conns, Workers, MaxSent,             \* ReactorServer, HttpEpoll
          NtyConns, MAX_EPOLL_EVENTS, MAX_BUFFER_SIZE, MaxFd, NtySent,
          ResLen, MaxRequests,
          ClientFds, None

\* Finitely many workers; descriptors of clients are numbers other than those of the
\* listeners, 3 and 4; None is no connection, descriptor or state of one; the response is
\* not empty; the process can open as many descriptors as the echo reactor's table has
\* places (both are 1024 by default).
ASSUME ReactorsAssumption ==
    /\ IsFiniteSet(Workers) /\ ClientFds \subseteq Nat \ {3, 4}
    /\ None \notin Conns \cup NtyConns \cup Nat
    /\ None \notin [readed : Seq({"x", "end"}), written : Nat, writeEnabled : BOOLEAN]
    /\ MaxSent \in Nat /\ ResLen \in Nat \ {0} /\ MaxRequests \in Nat
    /\ MAX_EPOLL_EVENTS \in Nat /\ MaxFd \in Nat /\ MaxFd >= MAX_EPOLL_EVENTS - 1
    /\ MAX_BUFFER_SIZE \in Nat \ {0}

VARIABLES
    prog,  \* the server that runs
    sPeer, sent, unread, sBacklog, sOwner, interest, edge, ev, mainPc, accPc, new_fd,
    clients_list_, pc, client_fd, blocked,                          \* ReactorServer
    nPeer, nSent, nInput, nBacklog, nOwner, nEpoll, events, nReady, echoed, dropped,
    hPeer, tokens, hInput, hBacklog, hOwner, hEpoll, cons, hReady, reading, out, exited

sVars == <<sPeer, sent, unread, sBacklog, sOwner, interest, edge, ev, mainPc, accPc,
           new_fd, clients_list_, pc, client_fd, blocked>>
nVars == <<nPeer, nSent, nInput, nBacklog, nOwner, nEpoll, events, nReady, echoed,
           dropped>>
hVars == <<hPeer, tokens, hInput, hBacklog, hOwner, hEpoll, cons, hReady, reading, out,
           exited>>
allVars == <<prog, sVars, nVars, hVars>>

Srv == INSTANCE ReactorServer WITH Fds <- ClientFds, peer <- sPeer,
          backlog <- sBacklog, owner <- sOwner
Nty == INSTANCE NtyReactor WITH Conns <- NtyConns, MaxSent <- NtySent, peer <- nPeer,
          sent <- nSent, input <- nInput, backlog <- nBacklog, owner <- nOwner,
          epoll <- nEpoll, ready <- nReady
Http == INSTANCE HttpEpoll WITH Fds <- ClientFds, peer <- hPeer, input <- hInput,
          backlog <- hBacklog, owner <- hOwner, epoll <- hEpoll, ready <- hReady

Init == prog \in {"srv", "nty", "http"} /\ Srv!Init /\ Nty!Init /\ Http!Init

SrvOnly == prog = "srv" /\ UNCHANGED <<prog, nVars, hVars>>
NtyOnly == prog = "nty" /\ UNCHANGED <<prog, sVars, hVars>>
HttpOnly == prog = "http" /\ UNCHANGED <<prog, sVars, nVars>>

Next ==
    \/ SrvOnly /\ Srv!Next
    \/ NtyOnly /\ Nty!Next
    \/ HttpOnly /\ Http!Next

\* The fairness of each module, for the behaviours that run it.
Fairness ==
    /\ WF_allVars(SrvOnly /\ Srv!MainStep) /\ WF_allVars(SrvOnly /\ Srv!AcceptStep)
    /\ \A w \in Workers : WF_allVars(SrvOnly /\ Srv!WorkerStep(w))
    /\ WF_allVars(NtyOnly /\ Nty!Reactor)
    /\ \A f \in 5 .. MaxFd : SF_allVars(NtyOnly /\ Nty!EpollWait /\ f \in nReady')
    /\ WF_allVars(HttpOnly /\ Http!Server)
    /\ \A f \in ClientFds : SF_allVars(HttpOnly /\ Http!EpollWait /\ <<f, "out">> \in hReady')

Spec == Init /\ [][Next]_allVars
FairSpec == Spec /\ Fairness

-----------------------------------------------------------------------------
\* The multi-threaded server loses no edge-triggered event: whatever a client has
\* to be read for is in epoll, in the main thread's batch, on the list or with a
\* worker.
NoLostEdge == Srv!NoLostEdge

\* In the multi-threaded server the listed clients have workers coming for them.
ListedHasWorker == Srv!ListedHasWorker

\* The echo reactor's table and the kernel's descriptors agree, also when the
\* table is full and when descriptors are reused.
SlotIsFd == Nty!SlotIsFd

\* The echo reactor neither duplicates, reorders nor misroutes a byte.
BytesAccounted == Nty!BytesAccounted

\* The HTTP server writes whole responses, in order and only when asked, and waits
\* for room exactly while a response is under way.
ResponseExact == Http!ResponseExact /\ Http!InterestMatches

\* No server rests with work to do: the backlog is served although notifications
\* may be lost, every byte is echoed, every response is completed.
ClientsServed == Srv!BacklogServed /\ Nty!Answered /\ Http!Responded

\* Descriptors of clients that have gone away are closed, in the multi-threaded server as
\* long as some worker has neither ended nor gone to sleep in recv().
GoneIsReleased == Srv!GoneIsClosed /\ Nty!GoneIsReleased

=============================================================================
