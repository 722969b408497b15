---------------------------- MODULE ReactorsProofs ---------------------------
(***************************************************************************)
(* Proofs about the three epoll servers of MCReactors, for any connections,  *)
(* workers and descriptors, any table and buffer size, any length of the     *)
(* response and any number of bytes and requests.                            *)
(***************************************************************************)
EXTENDS MCReactors, SharedLemmas

\* The instance has its own copy of Cardinality; it is the same operator.
LEMMA SameCardinality == \A S : Srv!Cardinality(S) = Cardinality(S)
BY Zenon DEF Srv!Cardinality, Cardinality

\* The least number of a set, as accept() and the search for a free slot choose it.
LEMMA LeastChosen ==
    ASSUME NEW T \in SUBSET Nat, T # {}
    PROVE  LET l == CHOOSE x \in T : \A y \in T : x <= y
           IN  l \in T /\ \A y \in T : l <= y
BY Least

\* accept() finds a free descriptor, the least one, when there is one.
LEMMA LowestIsFree ==
    ASSUME NEW F \in SUBSET Nat, NEW ow, DOMAIN ow = F, {f \in F : ow[f] = None} # {}
    PROVE  /\ Srv!LowestFree(ow, None) \in F /\ ow[Srv!LowestFree(ow, None)] = None
           /\ Nty!LowestFree(ow, None) \in F /\ ow[Nty!LowestFree(ow, None)] = None
           /\ \A g \in F : ow[g] = None => Nty!LowestFree(ow, None) <= g
           /\ Http!LowestFree(ow, None) \in F /\ ow[Http!LowestFree(ow, None)] = None
<1> DEFINE T == {f \in F : ow[f] = None}
           l == CHOOSE x \in T : \A y \in T : x <= y
<1>1. l \in T /\ \A y \in T : l <= y
  <2> HIDE DEF T
  <2>1. T \in SUBSET Nat /\ T # {}
    BY DEF T
  <2> QED BY <2>1, LeastChosen
<1>2. T = Srv!FreeFds(ow, None) /\ T = Nty!FreeFds(ow, None) /\ T = Http!FreeFds(ow, None)
  BY DEF Srv!FreeFds, Nty!FreeFds, Http!FreeFds
<1> HIDE DEF T
<1>3. /\ l = Srv!LowestFree(ow, None) /\ l = Nty!LowestFree(ow, None)
      /\ l = Http!LowestFree(ow, None)
  BY <1>2 DEF Srv!LowestFree, Nty!LowestFree, Http!LowestFree
<1> QED BY <1>1, <1>3 DEF T

-----------------------------------------------------------------------------
(* Where the connections are: away, in the backlog, on one descriptor, or gone. *)

Peers == {"away", "connected", "closed"}

\* A connection waits at most once in the backlog and has at most one descriptor, never both.
Placed(C, F, pr, bl, ow) ==
    /\ pr \in [C -> Peers] /\ bl \in Seq(C) /\ ow \in [F -> C \cup {None}]
    /\ \A k, m \in 1 .. Len(bl) : bl[k] = bl[m] => k = m
    /\ \A k \in 1 .. Len(bl) : pr[bl[k]] # "away" /\ \A f \in F : ow[f] # bl[k]
    /\ \A f \in F : ow[f] # None => pr[ow[f]] # "away"
    /\ \A f, g \in F : ow[f] = ow[g] /\ ow[f] # None => f = g

\* The server has not accepted the connection yet.
Fresh(pr, bl, c) == pr[c] = "away" \/ \E k \in 1 .. Len(bl) : bl[k] = c

\* connect() moves a connection from away to the end of the backlog.
LEMMA PlacedConnect ==
    ASSUME NEW C, NEW F, NEW pr, NEW bl, NEW ow, None \notin C, Placed(C, F, pr, bl, ow),
           NEW c \in C, pr[c] = "away"
    PROVE  /\ Placed(C, F, [pr EXCEPT ![c] = "connected"], Append(bl, c), ow)
           /\ \A d \in C : Fresh([pr EXCEPT ![c] = "connected"], Append(bl, c), d)
                             => Fresh(pr, bl, d)
<1> DEFINE b == Append(bl, c)
<1> USE DEF Placed, Peers
<1>1. /\ b \in Seq(C) /\ Len(b) = Len(bl) + 1 /\ Len(bl) \in Nat
      /\ \A k \in 1 .. Len(bl) : b[k] = bl[k] /\ b[k] # c
      /\ b[Len(bl) + 1] = c
  BY AppendProperties, LenProperties
<1> HIDE DEF b
<1>2. \A k, m \in 1 .. Len(b) : b[k] = b[m] => k = m
  BY <1>1
<1>3. \A k \in 1 .. Len(b) : b[k] = c \/ \E m \in 1 .. Len(bl) : b[k] = bl[m]
  BY <1>1
<1>4. \A k \in 1 .. Len(b) : [pr EXCEPT ![c] = "connected"][b[k]] # "away"
                             /\ \A f \in F : ow[f] # b[k]
  BY <1>1, <1>3
<1>5. Placed(C, F, [pr EXCEPT ![c] = "connected"], b, ow)
  BY <1>1, <1>2, <1>4
<1> QED BY <1>3, <1>5 DEF Fresh, b

\* accept() moves the oldest connection of the backlog to a free descriptor.
LEMMA PlacedAccept ==
    ASSUME NEW C, NEW F, NEW pr, NEW bl, NEW ow, None \notin C, Placed(C, F, pr, bl, ow),
           bl # <<>>, NEW f \in F, ow[f] = None
    PROVE  /\ Placed(C, F, pr, Tail(bl), [ow EXCEPT ![f] = Head(bl)])
           /\ Head(bl) \in C /\ Fresh(pr, bl, Head(bl))
           /\ \A d \in C : Fresh(pr, Tail(bl), d) => Fresh(pr, bl, d) /\ d # Head(bl)
<1> DEFINE b == Tail(bl)
           h == Head(bl)
<1> USE DEF Placed, Peers
<1>1. /\ b \in Seq(C) /\ Len(b) = Len(bl) - 1 /\ Len(bl) \in Nat \ {0} /\ h \in C /\ h = bl[1]
      /\ \A k \in 1 .. Len(b) : b[k] = bl[k + 1] /\ b[k] # h
  BY HeadTailProperties, EmptySeq
<1> HIDE DEF b, h
<1>2. \A k \in 1 .. Len(b) : k + 1 \in 1 .. Len(bl)
  BY <1>1
<1>3. \A k, m \in 1 .. Len(b) : b[k] = b[m] => k = m
  <2> SUFFICES ASSUME NEW k \in 1 .. Len(b), NEW m \in 1 .. Len(b), b[k] = b[m] PROVE k = m
    OBVIOUS
  <2>1. bl[k + 1] = bl[m + 1] /\ k + 1 \in 1 .. Len(bl) /\ m + 1 \in 1 .. Len(bl)
    BY <1>1, <1>2
  <2>2. k + 1 = m + 1
    BY <2>1
  <2> QED BY <2>2, <1>1
<1>4. \A k \in 1 .. Len(b) : pr[b[k]] # "away" /\ \A g \in F : [ow EXCEPT ![f] = h][g] # b[k]
  BY <1>1, <1>2
<1>5. pr[h] # "away" /\ \A g \in F : ow[g] # h
  BY <1>1
<1>6. Placed(C, F, pr, b, [ow EXCEPT ![f] = h])
  BY <1>1, <1>3, <1>4, <1>5
<1>7. Fresh(pr, bl, h)
  BY <1>1 DEF Fresh
<1>8. \A d \in C : Fresh(pr, b, d) => Fresh(pr, bl, d) /\ d # h
  BY <1>1, <1>2, <1>5 DEF Fresh
<1> QED BY <1>1, <1>6, <1>7, <1>8 DEF b, h

\* close() on either side.
LEMMA PlacedClose ==
    ASSUME NEW C, NEW F, NEW pr, NEW bl, NEW ow, None \notin C, Placed(C, F, pr, bl, ow)
    PROVE  /\ \A f \in F : Placed(C, F, pr, bl, [ow EXCEPT ![f] = None])
           /\ \A c \in C : pr[c] = "connected" =>
                /\ Placed(C, F, [pr EXCEPT ![c] = "closed"], bl, ow)
                /\ \A d \in C : Fresh([pr EXCEPT ![c] = "closed"], bl, d) => Fresh(pr, bl, d)
<1> USE DEF Placed, Peers
<1>1. \A k \in 1 .. Len(bl) : bl[k] \in C
  OBVIOUS
<1>2. ASSUME NEW f \in F PROVE Placed(C, F, pr, bl, [ow EXCEPT ![f] = None])
  BY <1>1
<1>3. ASSUME NEW c \in C, pr[c] = "connected"
      PROVE  /\ Placed(C, F, [pr EXCEPT ![c] = "closed"], bl, ow)
             /\ \A d \in C : Fresh([pr EXCEPT ![c] = "closed"], bl, d) => Fresh(pr, bl, d)
  BY <1>1, <1>3 DEF Fresh
<1> QED BY <1>2, <1>3

-----------------------------------------------------------------------------
(* The multi-threaded server. *)

SrvPlaces == {"lock", "sleep", "recv", "del", "close", "send", "sendDel", "sendClose",
              "blocked", "ended"}
Busy == {"recv", "del", "close", "send", "sendDel", "sendClose", "blocked"}
Looking == {w \in Workers : pc[w] = "lock"}
Notifying == IF mainPc = "notify" THEN 1 ELSE 0

\* What the threads hold: a registered descriptor is open, the batch is empty between two
\* calls of epoll_wait(), and a busy worker has a descriptor.
SrvFrame ==
    /\ sPeer \in [Conns -> Peers] /\ sent \in [Conns -> Nat] /\ unread \in [Conns -> Nat]
    /\ sBacklog \in Seq(Conns) /\ sOwner \in [ClientFds -> Conns \cup {None}]
    /\ interest \subseteq ClientFds /\ \A f \in interest : sOwner[f] # None
    /\ edge \subseteq interest
    /\ ev \subseteq ClientFds \cup {3} /\ mainPc \in {"wait", "dispatch", "notify"}
    /\ mainPc = "wait" => ev = {}
    /\ accPc \in {"lock", "sleep", "accept", "fcntl", "add"}
    /\ accPc \in {"fcntl", "add"} => new_fd \in ClientFds
    /\ clients_list_ \in Seq(ClientFds)
    /\ pc \in [Workers -> SrvPlaces]
    /\ client_fd \in [Workers -> ClientFds \cup {None}]
    /\ \A w \in Workers : pc[w] \in Busy => client_fd[w] \in ClientFds
    /\ blocked \in [Workers -> Conns \cup {None}]
    /\ \A w \in Workers : pc[w] = "blocked" => blocked[w] \in Conns

SrvInv == SrvFrame /\ Srv!ListedHasWorker /\ Srv!NoLostEdge

LEMMA SrvInit == Srv!Init => SrvInv
<1> SUFFICES ASSUME Srv!Init PROVE SrvInv
  OBVIOUS
<1>1. SrvFrame
  BY EmptySeq DEF Srv!Init, SrvFrame, Peers, SrvPlaces, Busy
<1>2. Srv!ListedHasWorker
  BY DEF Srv!Init, Srv!ListedHasWorker, Srv!Sleepers
<1>3. Srv!NoLostEdge
  BY DEF Srv!Init, Srv!NoLostEdge
<1> QED BY <1>1, <1>2, <1>3 DEF SrvInv

\* The steps of the clients and of the main and the accept thread keep the types.
LEMMA SrvFrameStep ==
    ASSUME SrvFrame, [Srv!Next]_sVars
    PROVE  SrvFrame'
<1> USE ReactorsAssumption DEF SrvFrame, Peers, Srv!netVars, Srv!epollVars, Srv!mainVars,
        Srv!accVars, Srv!workerVars
<1>1. ASSUME NEW c \in Conns, Srv!Connect(c) PROVE SrvFrame'
  BY <1>1, AppendProperties DEF Srv!Connect
<1>2. ASSUME NEW c \in Conns, Srv!ClientSend(c) \/ Srv!ClientClose(c) PROVE SrvFrame'
  <2>1. edge' \subseteq interest /\ UNCHANGED interest
    BY <1>2 DEF Srv!ClientSend, Srv!ClientClose, Srv!Edges
  <2>2. CASE Srv!ClientSend(c)
    <3>1. sent' \in [Conns -> Nat] /\ unread' \in [Conns -> Nat]
      BY <2>2 DEF Srv!ClientSend
    <3> QED BY <2>1, <2>2, <3>1 DEF Srv!ClientSend
  <2>3. CASE Srv!ClientClose(c)
    BY <2>1, <2>3 DEF Srv!ClientClose
  <2> QED BY <1>2, <2>2, <2>3
<1>3. CASE Srv!EpollWait \/ Srv!DispatchAccept
  BY <1>3 DEF Srv!EpollWait, Srv!DispatchAccept, Srv!Rest, Srv!Listen
<1>4. ASSUME NEW f \in ClientFds, Srv!DispatchClient(f) PROVE SrvFrame'
  BY <1>4, AppendProperties DEF Srv!DispatchClient
<1>5. CASE Srv!DispatchNotify
  BY <1>5 DEF Srv!DispatchNotify, Srv!Rest, Srv!Sleepers, SrvPlaces, Busy
<1>6. CASE Srv!AccWait \/ Srv!AccSpurious \/ Srv!AcceptFails
  BY <1>6 DEF Srv!AccWait, Srv!AccSpurious, Srv!AcceptFails
<1>7. CASE Srv!Accept
  <2> DEFINE l == Srv!LowestFree(sOwner, None)
  <2>1. l \in ClientFds /\ sOwner[l] = None
    BY <1>7, LowestIsFree DEF Srv!Accept, Srv!FreeFds
  <2> HIDE DEF l
  <2>2. Head(sBacklog) \in Conns /\ Tail(sBacklog) \in Seq(Conns)
    BY <1>7, HeadTailProperties DEF Srv!Accept
  <2>3. sOwner' = [sOwner EXCEPT ![l] = Head(sBacklog)] /\ new_fd' = l
    BY <1>7 DEF Srv!Accept, l
  <2> QED BY <1>7, <2>1, <2>2, <2>3 DEF Srv!Accept
<1>8. CASE Srv!SetNonBlocking \/ Srv!EpollAdd
  <2>0. CASE Srv!SetNonBlocking
    BY <2>0 DEF Srv!SetNonBlocking
  <2>1. CASE sOwner[new_fd] = None /\ Srv!EpollAdd
    BY <2>1 DEF Srv!EpollAdd
  <2>2. CASE sOwner[new_fd] # None /\ Srv!EpollAdd
    <3>1. interest' = interest \cup {new_fd} /\ edge' \subseteq edge \cup {new_fd}
      BY <2>2 DEF Srv!EpollAdd
    <3> QED BY <2>2, <3>1 DEF Srv!EpollAdd
  <2> QED BY <1>8, <2>0, <2>1, <2>2
<1> USE DEF Srv!Goto, SrvPlaces, Busy
<1>9. ASSUME NEW w \in Workers, Srv!WorkerTake(w) PROVE SrvFrame'
  BY <1>9, HeadTailProperties DEF Srv!WorkerTake
<1>10. ASSUME NEW w \in Workers, Srv!Recv(w) PROVE SrvFrame'
  BY <1>10 DEF Srv!Recv, Srv!Current
<1>11. ASSUME NEW w \in Workers,
              \/ Srv!WorkerWait(w) \/ Srv!WorkerSpurious(w) \/ Srv!RecvClosed(w)
              \/ Srv!RecvDone(w) \/ Srv!Send(w) \/ Srv!SendFails(w)
       PROVE  SrvFrame'
  <2>1. UNCHANGED <<Srv!netVars, Srv!epollVars, Srv!mainVars, Srv!accVars, clients_list_>>
    BY <1>11 DEF Srv!WorkerWait, Srv!WorkerSpurious, Srv!RecvClosed, Srv!RecvDone, Srv!Send,
                 Srv!SendFails
  <2>2. \/ /\ \E place \in SrvPlaces : /\ pc' = [pc EXCEPT ![w] = place]
                                       /\ place \in Busy => pc[w] \in Busy
                                       /\ place # "blocked"
           /\ UNCHANGED client_fd
        \/ pc' = [pc EXCEPT ![w] = "lock"] /\ client_fd' = [client_fd EXCEPT ![w] = None]
    BY <1>11 DEF Srv!WorkerWait, Srv!WorkerSpurious, Srv!RecvClosed, Srv!RecvDone, Srv!Send,
                 Srv!SendFails
  <2>0. UNCHANGED blocked
    BY <1>11 DEF Srv!WorkerWait, Srv!WorkerSpurious, Srv!RecvClosed, Srv!RecvDone, Srv!Send,
                 Srv!SendFails
  <2>3. /\ pc' \in [Workers -> SrvPlaces] /\ client_fd' \in [Workers -> ClientFds \cup {None}]
        /\ \A v \in Workers : pc'[v] = "blocked" => pc[v] = "blocked"
        /\ \A v \in Workers : pc'[v] \in Busy => client_fd'[v] \in ClientFds
    <3>0. /\ pc \in [Workers -> SrvPlaces] /\ client_fd \in [Workers -> ClientFds \cup {None}]
          /\ \A v \in Workers : pc[v] \in Busy => client_fd[v] \in ClientFds
      OBVIOUS
    <3> HIDE DEF SrvPlaces, Busy, SrvFrame
    <3>1. CASE UNCHANGED client_fd
      <4>1. PICK p \in SrvPlaces :
              pc' = [pc EXCEPT ![w] = p] /\ (p \in Busy => pc[w] \in Busy) /\ p # "blocked"
        BY <2>2, <3>1 DEF SrvPlaces, Busy
      <4>2. pc' \in [Workers -> SrvPlaces] /\ client_fd' \in [Workers -> ClientFds \cup {None}]
        BY <3>0, <3>1, <4>1
      <4>3. ASSUME NEW v \in Workers, pc'[v] \in Busy PROVE client_fd[v] \in ClientFds
        BY <3>0, <4>1, <4>3
      <4>4. \A v \in Workers : pc'[v] = "blocked" => pc[v] = "blocked"
        BY <3>0, <4>1
      <4> QED BY <3>1, <4>2, <4>3, <4>4
    <3>2. CASE pc' = [pc EXCEPT ![w] = "lock"] /\ client_fd' = [client_fd EXCEPT ![w] = None]
      BY <3>0, <3>2 DEF SrvPlaces, Busy
    <3> QED BY <2>2, <3>1, <3>2
  <2> QED BY <2>0, <2>1, <2>3
<1>12. ASSUME NEW w \in Workers, Srv!CloseDel(w) PROVE SrvFrame'
  BY <1>12 DEF Srv!CloseDel
<1>13. ASSUME NEW w \in Workers, Srv!CloseFd(w) PROVE SrvFrame'
  BY <1>13 DEF Srv!CloseFd
<1>14. ASSUME NEW w \in Workers, Srv!RecvBlocks(w) PROVE SrvFrame'
  <2>1. sOwner[client_fd[w]] \in Conns
    BY <1>14 DEF Srv!RecvBlocks, Srv!NothingToRead, Srv!Current
  <2> QED BY <1>14, <2>1 DEF Srv!RecvBlocks, Srv!Current
<1>15. ASSUME NEW w \in Workers, Srv!RecvWakes(w) PROVE SrvFrame'
  BY <1>15 DEF Srv!RecvWakes
<1>16. CASE UNCHANGED sVars
  BY <1>16 DEF sVars
<1> QED
  BY <1>1, <1>2, <1>3, <1>4, <1>5, <1>6, <1>7, <1>8, <1>9, <1>10, <1>11, <1>12, <1>13, <1>14,
     <1>15, <1>16
  DEF Srv!Next, Srv!MainStep, Srv!AcceptStep, Srv!WorkerStep

LEMMA SrvFinite ==
    /\ IsFiniteSet(Looking) /\ IsFiniteSet(Looking')
    /\ Cardinality(Looking) \in Nat /\ Cardinality(Looking') \in Nat
<1>1. Looking \in SUBSET Workers /\ Looking' \in SUBSET Workers
  BY DEF Looking
<1> QED BY <1>1, ReactorsAssumption, FS_Subset, FS_CardinalityType

\* A listed client brings a notification, the notification a worker, and a worker goes to
\* sleep at an empty list only.
LEMMA ListedStep ==
    ASSUME SrvFrame, Srv!ListedHasWorker, [Srv!Next]_sVars
    PROVE  Srv!ListedHasWorker'
<1> DEFINE A == Cardinality(Looking)
           N == Notifying
<1> HIDE DEF A, N
<1>0. /\ A \in Nat /\ A' \in Nat /\ N \in {0, 1} /\ N' \in {0, 1}
      /\ pc \in [Workers -> SrvPlaces]
      /\ clients_list_ \in Seq(ClientFds) /\ Len(clients_list_) \in Nat
  BY SrvFinite, LenProperties DEF A, N, Notifying, SrvFrame
<1>1. Srv!Sleepers # {} => Len(clients_list_) <= A + N
  BY SameCardinality DEF Srv!ListedHasWorker, Looking, Notifying, A, N
<1>2. ASSUME Srv!Sleepers' # {} => Len(clients_list_') <= A' + N' PROVE Srv!ListedHasWorker'
  BY <1>2, SameCardinality DEF Srv!ListedHasWorker, Looking, Notifying, A, N
<1>3. CASE UNCHANGED clients_list_ /\ A' >= A /\ N' >= N /\ Srv!Sleepers' \subseteq Srv!Sleepers
  BY <1>0, <1>1, <1>2, <1>3
<1>4. CASE UNCHANGED <<clients_list_, pc, mainPc>>
  <2>1. Srv!Sleepers' = Srv!Sleepers /\ A' = A /\ N' = N
    BY <1>4 DEF Srv!Sleepers, Looking, Notifying, A, N
  <2> QED BY <1>0, <1>3, <1>4, <2>1
<1>5. CASE Srv!EpollWait \/ Srv!DispatchAccept
  <2>1. UNCHANGED <<clients_list_, pc>> /\ N = 0
    BY <1>5 DEF Srv!EpollWait, Srv!DispatchAccept, Srv!workerVars, N, Notifying
  <2>2. Srv!Sleepers' = Srv!Sleepers /\ A' = A
    BY <2>1 DEF Srv!Sleepers, Looking, A
  <2> QED BY <1>0, <1>3, <2>1, <2>2
<1>6. ASSUME NEW f \in ClientFds, Srv!DispatchClient(f) PROVE Srv!ListedHasWorker'
  <2>1. UNCHANGED pc /\ N = 0 /\ N' = 1
    BY <1>6 DEF Srv!DispatchClient, Srv!workerVars, N, Notifying
  <2>2. Srv!Sleepers' = Srv!Sleepers /\ A' = A
    BY <2>1 DEF Srv!Sleepers, Looking, A
  <2>3. Len(clients_list_') = Len(clients_list_) + 1
    BY <1>0, <1>6, AppendProperties DEF Srv!DispatchClient
  <2> QED BY <1>0, <1>1, <1>2, <2>1, <2>2, <2>3
<1>7. CASE Srv!DispatchNotify
  <2>1. N = 1 /\ UNCHANGED clients_list_
    BY <1>7 DEF Srv!DispatchNotify, N, Notifying
  <2>2. PICK still \in Srv!WakeOne(Srv!Sleepers) :
          pc' = [w \in Workers |-> IF w \in Srv!Sleepers \ still THEN "lock" ELSE pc[w]]
    BY <1>7 DEF Srv!DispatchNotify
  <2>3. CASE Srv!Sleepers = {}
    <3>1. Srv!Sleepers' = {}
      BY <1>0, <2>2, <2>3 DEF Srv!Sleepers
    <3> QED BY <1>2, <3>1
  <2>4. CASE Srv!Sleepers # {}
    <3>1. PICK v \in Srv!Sleepers : still = Srv!Sleepers \ {v}
      BY <2>2, <2>4 DEF Srv!WakeOne
    <3>2. Looking' = Looking \cup {v} /\ v \notin Looking
      BY <1>0, <2>2, <3>1 DEF Srv!Sleepers, Looking, SrvPlaces
    <3>3. A' = A + 1
      BY <3>2, SrvFinite, OneMore DEF A
    <3> QED BY <1>0, <1>1, <1>2, <2>1, <2>4, <3>3
  <2> QED BY <2>3, <2>4
<1>8. ASSUME NEW w \in Workers, Srv!WorkerWait(w) PROVE Srv!ListedHasWorker'
  <2>1. Len(clients_list_') = 0
    BY <1>0, <1>8, EmptySeq DEF Srv!WorkerWait
  <2>2. 0 <= A' + N'
    BY SrvFinite DEF A, N, Notifying
  <2> QED BY <1>2, <2>1, <2>2
<1>9. ASSUME NEW w \in Workers, Srv!WorkerTake(w) PROVE Srv!ListedHasWorker'
  <2>1. Looking = Looking' \cup {w} /\ w \notin Looking' /\ Srv!Sleepers' = Srv!Sleepers
    BY <1>0, <1>9 DEF Srv!WorkerTake, Srv!Goto, Looking, Srv!Sleepers
  <2>2. A = A' + 1
    BY <2>1, SrvFinite, OneMore DEF A
  <2>3. N' = N
    BY <1>9 DEF Srv!WorkerTake, Srv!mainVars, N, Notifying
  <2>4. Len(clients_list_') = Len(clients_list_) - 1
    BY <1>0, <1>9, HeadTailProperties DEF Srv!WorkerTake
  <2> QED BY <1>0, <1>1, <1>2, <2>1, <2>2, <2>3, <2>4
<1>10. ASSUME NEW w \in Workers, NEW place \in SrvPlaces \ {"sleep"}, pc[w] # "lock",
              pc' = [pc EXCEPT ![w] = place], UNCHANGED <<clients_list_, mainPc>>
       PROVE  Srv!ListedHasWorker'
  <2>1. N' = N /\ Srv!Sleepers' \subseteq Srv!Sleepers
    BY <1>0, <1>10 DEF N, Notifying, Srv!Sleepers
  <2>2. CASE place = "lock"
    <3>1. Looking' = Looking \cup {w} /\ w \notin Looking
      BY <1>0, <1>10, <2>2 DEF Looking
    <3>2. A' = A + 1
      BY <3>1, SrvFinite, OneMore DEF A
    <3> QED BY <1>0, <1>3, <1>10, <2>1, <3>2
  <2>3. CASE place # "lock"
    <3>1. Looking' = Looking
      BY <1>0, <1>10, <2>3 DEF Looking
    <3>2. A' = A
      BY <3>1 DEF A
    <3> QED BY <1>0, <1>3, <1>10, <2>1, <3>2
  <2> QED BY <2>2, <2>3
<1>11. ASSUME NEW w \in Workers,
              \/ Srv!WorkerSpurious(w) \/ Srv!RecvClosed(w) \/ Srv!RecvDone(w) \/ Srv!Send(w)
              \/ Srv!SendFails(w) \/ Srv!CloseDel(w) \/ Srv!CloseFd(w)
              \/ Srv!RecvBlocks(w) \/ Srv!RecvWakes(w)
       PROVE  Srv!ListedHasWorker'
  BY <1>10, <1>11 DEF Srv!WorkerSpurious, Srv!RecvClosed, Srv!RecvDone, Srv!Send,
     Srv!SendFails, Srv!CloseDel, Srv!CloseFd, Srv!RecvBlocks, Srv!RecvWakes, Srv!Goto,
     Srv!mainVars, SrvPlaces
<1> QED
  BY <1>4, <1>5, <1>6, <1>7, <1>8, <1>9, <1>11
  DEF Srv!Next, Srv!MainStep, Srv!AcceptStep, Srv!WorkerStep, sVars, Srv!Connect,
      Srv!ClientSend, Srv!ClientClose, Srv!AccWait, Srv!AccSpurious, Srv!AcceptFails,
      Srv!Accept, Srv!SetNonBlocking, Srv!EpollAdd, Srv!Recv, Srv!workerVars, Srv!mainVars


ReadPlaces == {"recv", "del", "close", "sendDel", "sendClose"}

\* f is somewhere it will be read from.
Held(f) ==
    \/ f \in edge \/ f \in ev
    \/ \E k \in 1 .. Len(clients_list_) : clients_list_[k] = f
    \/ \E w \in Workers : pc[w] \in ReadPlaces /\ client_fd[w] = f

SrvReadable(c) == unread[c] > 0 \/ sPeer[c] = "closed"

\* The same as NoLostEdge, element by element.
ReadablesHeld == \A f \in interest : SrvReadable(sOwner[f]) => Held(f)

LEMMA EdgeByElement == SrvFrame => (Srv!NoLostEdge <=> ReadablesHeld)
<1> SUFFICES ASSUME SrvFrame PROVE Srv!NoLostEdge <=> ReadablesHeld
  OBVIOUS
<1>1. DOMAIN clients_list_ = 1 .. Len(clients_list_)
  BY DEF SrvFrame
<1>2. \A f : f \in Srv!InUse <=> \E k \in 1 .. Len(clients_list_) : clients_list_[k] = f
  BY <1>1 DEF Srv!InUse
<1>3. \A f : f \in Srv!Reading <=> \E w \in Workers : pc[w] \in ReadPlaces /\ client_fd[w] = f
  BY DEF Srv!Reading, ReadPlaces
<1>4. \A f : Held(f) <=> f \in edge \cup ev \cup Srv!InUse \cup Srv!Reading
  BY <1>2, <1>3 DEF Held
<1> QED BY <1>4, Zenon DEF Srv!NoLostEdge, Srv!Readable, SrvReadable, ReadablesHeld

\* An edge goes from epoll to the batch, to the list and to a worker, who gives it up when
\* there is nothing left to read.
LEMMA EdgeStep ==
    ASSUME SrvFrame, SrvFrame', Srv!NoLostEdge, [Srv!Next]_sVars
    PROVE  Srv!NoLostEdge'
<1>0. \A f \in interest : SrvReadable(sOwner[f]) => Held(f)
  BY EdgeByElement DEF ReadablesHeld
<1> SUFFICES ASSUME NEW f \in interest', SrvReadable(sOwner[f])'
             PROVE  Held(f)'
  <2>1. ReadablesHeld' => Srv!NoLostEdge'
    BY EdgeByElement, PTL
  <2> QED BY <2>1 DEF ReadablesHeld
<1> USE DEF Srv!netVars, Srv!epollVars, Srv!mainVars, Srv!accVars, Srv!workerVars
<1>1. /\ unread \in [Conns -> Nat] /\ sPeer \in [Conns -> Peers]
      /\ sOwner \in [ClientFds -> Conns \cup {None}] /\ interest \subseteq ClientFds
      /\ \A g \in interest : sOwner[g] \in Conns
      /\ clients_list_ \in Seq(ClientFds) /\ Len(clients_list_) \in Nat
      /\ pc \in [Workers -> SrvPlaces] /\ client_fd \in [Workers -> ClientFds \cup {None}]
      /\ 3 \notin ClientFds /\ (mainPc = "wait" => ev = {})
      /\ None \notin Conns
  BY ReactorsAssumption, LenProperties DEF SrvFrame
<1>2. CASE f \in interest /\ SrvReadable(sOwner[f]) /\ (Held(f) => Held(f)')
  BY <1>0, <1>2
<1>3. ASSUME f \in interest, UNCHANGED <<sPeer, unread, sOwner>>, Held(f) => Held(f)'
      PROVE  Held(f)'
  BY <1>2, <1>3 DEF SrvReadable
<1>4. ASSUME NEW c \in Conns, Srv!Connect(c) PROVE Held(f)'
  <2>1. f \in interest /\ SrvReadable(sOwner[f])
    BY <1>1, <1>4 DEF Srv!Connect, SrvReadable
  <2> QED BY <1>2, <1>4, <2>1 DEF Srv!Connect, Held
<1>5. ASSUME NEW c \in Conns, Srv!ClientSend(c) \/ Srv!ClientClose(c) PROVE Held(f)'
  <2>1. f \in interest /\ UNCHANGED <<sOwner, ev, clients_list_, pc, client_fd>>
        /\ edge' = edge \cup Srv!Edges(c)
    BY <1>5 DEF Srv!ClientSend, Srv!ClientClose
  <2>2. CASE sOwner[f] = c
    BY <2>1, <2>2 DEF Srv!Edges, Held
  <2>3. CASE sOwner[f] # c
    <3>1. SrvReadable(sOwner[f])
      BY <1>1, <1>5, <2>1, <2>3 DEF Srv!ClientSend, Srv!ClientClose, SrvReadable
    <3> QED BY <1>2, <2>1, <3>1 DEF Held
  <2> QED BY <2>2, <2>3
<1>6. CASE Srv!EpollWait
  BY <1>1, <1>3, <1>6 DEF Srv!EpollWait, Held
<1>7. CASE Srv!DispatchAccept
  BY <1>1, <1>3, <1>7 DEF Srv!DispatchAccept, Srv!Rest, Srv!Listen, Held
<1>8. ASSUME NEW g \in ClientFds, Srv!DispatchClient(g) PROVE Held(f)'
  <2>1. /\ Len(clients_list_') = Len(clients_list_) + 1
        /\ \A k \in 1 .. Len(clients_list_) : clients_list_'[k] = clients_list_[k]
        /\ clients_list_'[Len(clients_list_) + 1] = g
    BY <1>1, <1>8, AppendProperties DEF Srv!DispatchClient
  <2>2. \A k \in 1 .. Len(clients_list_) : k \in 1 .. Len(clients_list_')
    BY <1>1, <2>1
  <2>3. Len(clients_list_) + 1 \in 1 .. Len(clients_list_')
    BY <1>1, <2>1
  <2>4. f \in interest /\ UNCHANGED <<sPeer, unread, sOwner, edge, pc, client_fd>>
        /\ ev' = ev \ {g}
    BY <1>8 DEF Srv!DispatchClient
  <2>5. CASE f = g
    BY <2>1, <2>3, <2>5 DEF Held
  <2>6. CASE f # g
    <3>1. Held(f) => Held(f)'
      BY <2>1, <2>2, <2>4, <2>6 DEF Held
    <3> QED BY <1>3, <2>4, <3>1
  <2> QED BY <2>5, <2>6
<1>9. CASE Srv!DispatchNotify
  <2>1. f \in interest /\ UNCHANGED <<sPeer, unread, sOwner, edge, clients_list_, client_fd>>
        /\ ev' = ev
    BY <1>9 DEF Srv!DispatchNotify, Srv!Rest
  <2>2. \A w \in Workers : pc[w] \in ReadPlaces => pc'[w] = pc[w]
    BY <1>1, <1>9 DEF Srv!DispatchNotify, Srv!Sleepers, ReadPlaces
  <2> QED BY <1>3, <2>1, <2>2 DEF Held
<1>10. CASE Srv!AccWait \/ Srv!AccSpurious \/ Srv!AcceptFails \/ Srv!SetNonBlocking
  BY <1>3, <1>10 DEF Srv!AccWait, Srv!AccSpurious, Srv!AcceptFails, Srv!SetNonBlocking, Held
<1>11. CASE Srv!Accept
  <2> DEFINE l == Srv!LowestFree(sOwner, None)
  <2>1. l \in ClientFds /\ sOwner[l] = None
    BY <1>1, <1>11, LowestIsFree, ReactorsAssumption DEF Srv!Accept, Srv!FreeFds
  <2>2. sOwner' = [sOwner EXCEPT ![l] = Head(sBacklog)]
    BY <1>11 DEF Srv!Accept
  <2> HIDE DEF l
  <2>3. f \in interest /\ UNCHANGED <<sPeer, unread, edge, ev, clients_list_, pc, client_fd>>
    BY <1>11 DEF Srv!Accept
  <2>4. sOwner'[f] = sOwner[f]
    BY <1>1, <2>1, <2>2, <2>3
  <2> QED BY <1>2, <2>3, <2>4 DEF SrvReadable, Held
<1>12. CASE Srv!EpollAdd
  <2>1. UNCHANGED <<sPeer, unread, sOwner, ev, clients_list_, pc, client_fd>>
    BY <1>12 DEF Srv!EpollAdd
  <2>2. CASE sOwner[new_fd] = None
    BY <1>3, <1>12, <2>1, <2>2 DEF Srv!EpollAdd, Held
  <2>3. CASE sOwner[new_fd] # None /\ f = new_fd
    BY <1>12, <2>1, <2>3 DEF Srv!EpollAdd, Srv!Readable, SrvReadable, Held
  <2>4. CASE sOwner[new_fd] # None /\ f # new_fd
    <3>1. interest' = interest \cup {new_fd} /\ edge \subseteq edge'
      BY <1>12, <2>4 DEF Srv!EpollAdd
    <3> QED BY <1>3, <2>1, <2>4, <3>1 DEF Held
  <2> QED BY <2>2, <2>3, <2>4
<1> USE DEF Srv!Goto
<1>13. ASSUME NEW w \in Workers, Srv!WorkerTake(w) PROVE Held(f)'
  <2> DEFINE s == clients_list_
  <2>1. /\ Len(s) \in Nat \ {0} /\ Len(s') = Len(s) - 1 /\ Head(s) = s[1]
        /\ \A k \in 1 .. Len(s') : s'[k] = s[k + 1]
    BY <1>1, <1>13, HeadTailProperties, EmptySeq DEF Srv!WorkerTake
  <2>2. pc'[w] = "recv" /\ client_fd'[w] = Head(s) /\ pc[w] = "lock"
        /\ \A v \in Workers : v # w => pc'[v] = pc[v] /\ client_fd'[v] = client_fd[v]
    BY <1>1, <1>13 DEF Srv!WorkerTake
  <2>3. f \in interest /\ UNCHANGED <<sPeer, unread, sOwner, edge, ev>>
    BY <1>13 DEF Srv!WorkerTake
  <2> HIDE DEF s
  <2>4. CASE f = s[1]
    BY <2>1, <2>2, <2>4 DEF Held, ReadPlaces
  <2>5. ASSUME f # s[1], NEW k \in 1 .. Len(s), s[k] = f PROVE Held(f)'
    <3>1. k - 1 \in 1 .. Len(s') /\ s'[k - 1] = f
      BY <2>1, <2>5
    <3> QED BY <3>1 DEF Held, s
  <2>6. ASSUME NEW v \in Workers, pc[v] \in ReadPlaces, client_fd[v] = f PROVE Held(f)'
    BY <2>2, <2>6 DEF Held, ReadPlaces
  <2>7. CASE f # s[1]
    BY <1>3, <2>3, <2>5, <2>6, <2>7 DEF Held, s
  <2> QED BY <2>4, <2>7
<1>14. ASSUME NEW w \in Workers, NEW p, pc' = [pc EXCEPT ![w] = p], f \in interest,
              UNCHANGED <<sPeer, unread, sOwner, ev, clients_list_>>,
              f \in edge => f \in edge',
              \A v \in Workers : v # w => client_fd'[v] = client_fd[v],
              \/ pc[w] \notin ReadPlaces
              \/ p \in ReadPlaces /\ client_fd'[w] = client_fd[w]
              \/ client_fd[w] # f
       PROVE  Held(f)'
  <2>1. Held(f) => Held(f)'
    BY <1>1, <1>14 DEF Held
  <2> QED BY <1>3, <1>14, <2>1
<1>15. ASSUME NEW w \in Workers, Srv!WorkerWait(w) \/ Srv!WorkerSpurious(w) \/ Srv!Send(w)
       PROVE  Held(f)'
  BY <1>1, <1>14, <1>15 DEF Srv!WorkerWait, Srv!WorkerSpurious, Srv!Send, ReadPlaces
<1>16. ASSUME NEW w \in Workers, Srv!RecvClosed(w) \/ Srv!SendFails(w) PROVE Held(f)'
  BY <1>14, <1>16 DEF Srv!RecvClosed, Srv!SendFails, ReadPlaces
<1>17. ASSUME NEW w \in Workers, Srv!RecvDone(w) PROVE Held(f)'
  <2>1. client_fd[w] # f
    BY <1>17 DEF Srv!RecvDone, Srv!NothingToRead, Srv!Readable, SrvReadable, Srv!Current
  <2> QED BY <1>14, <1>17, <2>1 DEF Srv!RecvDone
<1>18. ASSUME NEW w \in Workers, Srv!Recv(w) PROVE Held(f)'
  <2>1. f \in interest /\ SrvReadable(sOwner[f])
    BY <1>1, <1>18 DEF Srv!Recv, Srv!Current, SrvReadable
  <2> QED BY <1>2, <1>18, <2>1 DEF Srv!Recv, Held
<1>19. ASSUME NEW w \in Workers, Srv!CloseDel(w) PROVE Held(f)'
  <2>1. client_fd[w] # f /\ f \in interest
    BY <1>19 DEF Srv!CloseDel
  <2>2. UNCHANGED <<sPeer, unread, sOwner, ev, clients_list_, client_fd>> /\ (f \in edge => f \in edge')
    BY <1>19, <2>1 DEF Srv!CloseDel
  <2>3. PICK p : pc' = [pc EXCEPT ![w] = p]
    BY <1>19 DEF Srv!CloseDel
  <2> QED BY <1>14, <2>1, <2>2, <2>3
<1>20. ASSUME NEW w \in Workers, Srv!CloseFd(w) PROVE Held(f)'
  <2>1. client_fd[w] # f /\ f \in interest /\ sOwner'[f] = sOwner[f]
    BY <1>1, <1>20 DEF Srv!CloseFd
  <2>2. Held(f) => Held(f)'
    BY <1>1, <1>20, <2>1 DEF Srv!CloseFd, Held
  <2> QED BY <1>2, <1>20, <2>1, <2>2 DEF Srv!CloseFd, SrvReadable
<1>21. ASSUME NEW w \in Workers, Srv!RecvBlocks(w) PROVE Held(f)'
  <2>1. client_fd[w] # f
    BY <1>21 DEF Srv!RecvBlocks, Srv!NothingToRead, Srv!Readable, SrvReadable, Srv!Current
  <2> QED BY <1>14, <1>21, <2>1 DEF Srv!RecvBlocks
<1>22. ASSUME NEW w \in Workers, Srv!RecvWakes(w) PROVE Held(f)'
  <2>1. f \in interest /\ UNCHANGED <<sPeer, sOwner, edge, ev, clients_list_, client_fd>>
        /\ unread' = [unread EXCEPT ![blocked[w]] = 0] /\ pc[w] = "blocked"
    BY <1>22 DEF Srv!RecvWakes
  <2>2. SrvReadable(sOwner[f])
    BY <1>1, <2>1 DEF SrvReadable
  <2>3. \A v \in Workers : pc[v] \in ReadPlaces => pc'[v] = pc[v]
    BY <1>1, <1>22, <2>1 DEF Srv!RecvWakes, ReadPlaces
  <2>4. Held(f) => Held(f)'
    BY <2>1, <2>3 DEF Held
  <2> QED BY <1>2, <2>1, <2>2, <2>4
<1>23. CASE UNCHANGED sVars
  BY <1>3, <1>23 DEF sVars, Held
<1> QED
  BY <1>4, <1>5, <1>6, <1>7, <1>8, <1>9, <1>10, <1>11, <1>12, <1>13, <1>15, <1>16, <1>17,
     <1>18, <1>19, <1>20, <1>21, <1>22, <1>23
  DEF Srv!Next, Srv!MainStep, Srv!AcceptStep, Srv!WorkerStep

LEMMA SrvStep == SrvInv /\ [Srv!Next]_sVars => SrvInv'
BY SrvFrameStep, ListedStep, EdgeStep DEF SrvInv

-----------------------------------------------------------------------------
(* The echo reactor. *)

EventType == [events : {"in", "out", "no"}, status : {0, 1}, buffer : Seq(Nat)]

\* A connection that has sent s bytes, of which those in p are still to be echoed and d were
\* dropped, has got e: the bytes up to those in p, in order.
Accounted(s, e, d, p) ==
    /\ Len(e) + d = s - Len(p)
    /\ \A k \in 1 .. Len(p) : p[k] = s - Len(p) + k
    /\ \A k \in 1 .. Len(e) : e[k] <= s - Len(p)
    /\ \A k \in 2 .. Len(e) : e[k - 1] < e[k]

\* What the slot of descriptor f still has to send.
InSlot(f) == IF events[f].events = "out" THEN events[f].buffer ELSE <<>>

NtyFrame ==
    /\ Placed(NtyConns, Nty!Fds, nPeer, nBacklog, nOwner)
    /\ nSent \in [NtyConns -> Nat] /\ nInput \in [NtyConns -> Seq(Nat)]
    /\ echoed \in [NtyConns -> Seq(Nat)] /\ dropped \in [NtyConns -> Nat]
    /\ nEpoll \in [Nty!Fds -> {"in", "out", "no"}] /\ events \in [Nty!Slots -> EventType]

\* A slot is in use exactly while its descriptor is.
NtySlots ==
    \A f \in Nty!Slots :
       IF events[f].status = 1 THEN nOwner[f] # None /\ nEpoll[f] = events[f].events
                               ELSE nOwner[f] = None /\ nEpoll[f] = "no"

\* The bytes of the connections to come and of the registered ones are accounted for.
NtyBytes ==
    /\ \A c \in NtyConns : Fresh(nPeer, nBacklog, c)
                             => Accounted(nSent[c], echoed[c], dropped[c], nInput[c])
    /\ \A f \in Nty!Slots : events[f].status = 1 =>
          Accounted(nSent[nOwner[f]], echoed[nOwner[f]], dropped[nOwner[f]],
                    InSlot(f) \o nInput[nOwner[f]])

NtyInv == NtyFrame /\ NtySlots /\ NtyBytes


\* One byte more is sent.
LEMMA AccountedSend ==
    ASSUME NEW s \in Nat, NEW e \in Seq(Nat), NEW d \in Nat, NEW p \in Seq(Nat),
           Accounted(s, e, d, p)
    PROVE  Accounted(s + 1, e, d, Append(p, s + 1))
<1> DEFINE r == Append(p, s + 1)
           n == Len(p)
<1>1. /\ Len(r) = n + 1 /\ n \in Nat
      /\ \A k \in 1 .. n : r[k] = p[k]
      /\ r[n + 1] = s + 1
  BY AppendProperties, LenProperties
<1>2. /\ Len(e) + d = s - n
      /\ \A k \in 1 .. n : p[k] = s - n + k
      /\ \A k \in 1 .. Len(e) : e[k] <= s - n
      /\ \A k \in 2 .. Len(e) : e[k - 1] < e[k]
  BY DEF Accounted
<1> HIDE DEF n, r
<1>3. s + 1 - Len(r) = s - n
  BY <1>1
<1>4. \A k \in 1 .. Len(r) : r[k] = s - n + k
  <2> SUFFICES ASSUME NEW k \in 1 .. n + 1 PROVE r[k] = s - n + k
    BY <1>1
  <2>1. CASE k \in 1 .. n
    BY <1>1, <1>2, <2>1
  <2>2. CASE k = n + 1
    BY <1>1, <2>2
  <2> QED BY <1>1, <2>1, <2>2
<1>5. Accounted(s + 1, e, d, r)
  <2>1. Len(e) + d = s + 1 - Len(r)
    BY <1>2, <1>3
  <2>2. \A k \in 1 .. Len(r) : r[k] = s + 1 - Len(r) + k
    BY <1>3, <1>4, Zenon
  <2>3. \A k \in 1 .. Len(e) : e[k] <= s + 1 - Len(r)
    BY <1>2, <1>3, Zenon
  <2> QED BY <1>2, <2>1, <2>2, <2>3 DEF Accounted
<1> QED BY <1>5 DEF r

\* send() takes the first rc bytes of the slot's buffer b, and drops the others.
LEMMA AccountedEcho ==
    ASSUME NEW s \in Nat, NEW e \in Seq(Nat), NEW d \in Nat, NEW b \in Seq(Nat),
           NEW i \in Seq(Nat), NEW rc \in 1 .. Len(b), Accounted(s, e, d, b \o i)
    PROVE  /\ Accounted(s, e \o SubSeq(b, 1, rc), d + Len(b) - rc, i)
           /\ e \o SubSeq(b, 1, rc) \in Seq(Nat) /\ d + Len(b) - rc \in Nat
<1> DEFINE p == b \o i
           t == SubSeq(b, 1, rc)
           g == e \o t
           lb == Len(b)
           li == Len(i)
           le == Len(e)
           u == s - (lb + li)
<1>1. lb \in Nat /\ li \in Nat /\ le \in Nat /\ rc \in 0 .. lb /\ rc \in 1 .. lb
  BY LenProperties
<1>2. /\ Len(p) = lb + li
      /\ \A k \in 1 .. lb : p[k] = b[k]
      /\ \A k \in 1 .. li : p[lb + k] = i[k]
  BY ConcatProperties, LenProperties
<1>3. t \in Seq(Nat) /\ Len(t) = rc /\ \A k \in 1 .. rc : t[k] = b[k]
  BY <1>1, CutInTwo
<1>4. /\ g \in Seq(Nat) /\ Len(g) = le + rc
      /\ \A k \in 1 .. le : g[k] = e[k]
      /\ \A k \in 1 .. rc : g[le + k] = t[k]
  <2> HIDE DEF t
  <2>1. g \in Seq(Nat) /\ Len(g) = Len(e) + Len(t)
        /\ \A k \in 1 .. Len(e) + Len(t) : g[k] = IF k <= Len(e) THEN e[k] ELSE t[k - Len(e)]
    BY <1>3, ConcatProperties
  <2> HIDE DEF g
  <2>2. \A k \in 1 .. le : k \in 1 .. le + rc /\ k <= le
    BY <1>1
  <2> HIDE DEF le
  <2>3. Len(g) = le + rc /\ \A k \in 1 .. le + rc : g[k] = IF k <= le THEN e[k] ELSE t[k - le]
    BY <1>3, <2>1 DEF le
  <2>4. \A k \in 1 .. le : g[k] = e[k]
    BY <2>2, <2>3, Zenon
  <2>5. \A k \in 1 .. rc : g[le + k] = t[k]
    <3> SUFFICES ASSUME NEW k \in 1 .. rc PROVE g[le + k] = t[k]
      OBVIOUS
    <3> DEFINE j == le + k
    <3>1. j \in 1 .. le + rc /\ ~(j <= le) /\ j - le = k
      <4> HIDE DEF lb
      <4>1. k \in Nat /\ k >= 1 /\ k <= rc /\ le \in Nat /\ rc \in Nat
        BY <1>1
      <4> QED BY <4>1
    <3> HIDE DEF j
    <3>2. g[j] = t[j - le]
      BY <2>3, <3>1
    <3> QED BY <3>1, <3>2 DEF j
  <2> QED BY <2>1, <2>3, <2>4, <2>5
<1>5. /\ le + d = s - Len(p)
      /\ \A k \in 1 .. Len(p) : p[k] = s - Len(p) + k
      /\ \A k \in 1 .. le : e[k] <= s - Len(p)
      /\ \A k \in 2 .. le : e[k - 1] < e[k]
  BY DEF Accounted
<1>6. \A k \in 1 .. le : e[k] \in Nat
  OBVIOUS
<1> HIDE DEF p, t, g, lb, li, le
<1>7. u \in Int /\ s - Len(p) = u /\ le + d = u
  BY <1>1, <1>2, <1>5
<1>8. \A k \in 1 .. lb + li : p[k] = u + k
  BY <1>2, <1>5, <1>7
<1>9. \A k \in 1 .. le : e[k] <= u
  BY <1>5, <1>7
<1> HIDE DEF u
<1>10. \A k \in 1 .. rc : g[le + k] = u + k
  <2> SUFFICES ASSUME NEW k \in 1 .. rc PROVE g[le + k] = u + k
    OBVIOUS
  <2>1. k \in 1 .. lb /\ k \in 1 .. lb + li
    BY <1>1
  <2> QED BY <1>2, <1>3, <1>4, <1>8, <2>1
<1>11. le + rc + (d + lb - rc) = s - li /\ s - li = u + lb
  BY <1>1, <1>7 DEF u
<1>12. \A k \in 1 .. li : i[k] = s - li + k
  <2> SUFFICES ASSUME NEW k \in 1 .. li PROVE i[k] = s - li + k
    OBVIOUS
  <2>1. lb + k \in 1 .. lb + li
    BY <1>1
  <2>2. i[k] = u + (lb + k)
    BY <1>2, <1>8, <2>1
  <2>3. u + (lb + k) = u + lb + k
    BY <1>1, <1>7
  <2> QED BY <1>11, <2>2, <2>3
<1>13. \A k \in 1 .. le + rc : k <= le \/ g[k] = u + (k - le)
  <2> SUFFICES ASSUME NEW k \in 1 .. le + rc, k > le PROVE g[k] = u + (k - le)
    BY <1>1
  <2>1. k - le \in 1 .. rc /\ le + (k - le) = k
    BY <1>1
  <2> QED BY <1>10, <2>1
<1>14. \A k \in 1 .. le + rc : g[k] <= s - li
  <2> SUFFICES ASSUME NEW k \in 1 .. le + rc PROVE g[k] <= u + lb
    BY <1>11
  <2>1. CASE k <= le
    <3>1. k \in 1 .. le
      BY <2>1
    <3>2. g[k] = e[k] /\ e[k] <= u /\ e[k] \in Nat
      BY <1>4, <1>6, <1>9, <3>1
    <3> QED BY <1>1, <1>7, <3>2
  <2>2. CASE k > le
    <3>1. g[k] = u + (k - le)
      BY <1>1, <1>13, <2>2
    <3> QED BY <1>1, <1>7, <3>1
  <2> QED BY <1>1, <2>1, <2>2
<1>15. \A k \in 2 .. le + rc : g[k - 1] < g[k]
  <2> SUFFICES ASSUME NEW k \in 2 .. le + rc PROVE g[k - 1] < g[k]
    OBVIOUS
  <2>1. CASE k <= le
    <3>1. k \in 1 .. le /\ k - 1 \in 1 .. le /\ k \in 2 .. le
      BY <1>1, <2>1
    <3> QED BY <1>4, <1>5, <3>1
  <2>2. CASE k = le + 1
    <3>1. k - 1 \in 1 .. le /\ k \in 1 .. le + rc /\ k > le
      BY <1>1, <2>2
    <3>2. g[k - 1] = e[k - 1] /\ e[k - 1] <= u /\ e[k - 1] \in Nat
      BY <1>4, <1>6, <1>9, <3>1
    <3>3. g[k] = u + 1
      BY <1>1, <1>7, <1>13, <2>2, <3>1
    <3> QED BY <1>7, <3>2, <3>3
  <2>3. CASE k > le + 1
    <3>1. k \in 1 .. le + rc /\ k - 1 \in 1 .. le + rc /\ ~(k <= le) /\ ~(k - 1 <= le)
      BY <1>1, <2>3
    <3>2. g[k] = u + (k - le) /\ g[k - 1] = u + (k - 1 - le)
      BY <1>13, <3>1
    <3> QED BY <1>1, <1>7, <3>2
  <2> QED BY <1>1, <2>1, <2>2, <2>3
<1>16. d + lb - rc \in Nat
  BY <1>1
<1>17. Accounted(s, g, d + lb - rc, i)
  BY <1>4, <1>11, <1>12, <1>14, <1>15 DEF Accounted, li
<1> QED BY <1>4, <1>16, <1>17 DEF g, t, lb


\* The table fits into the descriptors.
LEMMA NtySizes ==
    /\ Nty!Slots \subseteq Nty!Fds /\ Nty!Fds \subseteq Nat
    /\ MAX_EPOLL_EVENTS \notin Nty!Slots /\ None \notin NtyConns
    /\ \A f \in Nty!Slots, g \in Nty!Fds : g <= f => g \in Nty!Slots
BY ReactorsAssumption DEF Nty!Slots, Nty!Fds, Nty!First

\* The search for a free slot finds the descriptor accept() returns.
LEMMA SlotFound ==
    ASSUME NtyFrame, NtySlots
    PROVE  /\ Nty!FreeSlot = MAX_EPOLL_EVENTS => \A f \in Nty!Slots : nOwner[f] # None
           /\ Nty!FreeSlot # MAX_EPOLL_EVENTS => /\ Nty!FreeSlot = Nty!LowestFree(nOwner, None)
                                                 /\ Nty!FreeSlot \in Nty!Slots
                                                 /\ nOwner[Nty!FreeSlot] = None
<1> DEFINE T == {f \in Nty!Slots : events[f].status = 0}
           l == CHOOSE f \in T : \A g \in T : f <= g
           m == Nty!LowestFree(nOwner, None)
<1>1. /\ DOMAIN nOwner = Nty!Fds /\ \A f \in Nty!Slots : events[f].status \in {0, 1}
  BY DEF NtyFrame, Placed, EventType
<1>2. \A f \in Nty!Slots : f \in T <=> nOwner[f] = None
  BY <1>1 DEF NtySlots
<1>3. Nty!FreeSlot = IF T = {} THEN MAX_EPOLL_EVENTS ELSE l
  BY DEF Nty!FreeSlot
<1>4. T \in SUBSET Nat /\ T \subseteq Nty!Slots
  BY NtySizes
<1> HIDE DEF T
<1>5. T # {} => l \in T /\ \A g \in T : l <= g
  BY <1>4, LeastChosen
<1> HIDE DEF l
<1>6. CASE T = {}
  BY <1>2, <1>3, <1>6
<1>7. CASE T # {}
  <2>1. l \in Nty!Slots /\ l \in Nty!Fds /\ nOwner[l] = None
    BY <1>2, <1>4, <1>5, <1>7, NtySizes
  <2>2. m \in Nty!Fds /\ nOwner[m] = None /\ m <= l
    BY <1>1, <2>1, LowestIsFree, NtySizes
  <2> HIDE DEF m
  <2>3. m \in Nty!Slots
    BY <2>1, <2>2, NtySizes
  <2>4. l <= m
    BY <1>2, <1>5, <1>7, <2>2, <2>3
  <2>5. l = m
    BY <2>1, <2>2, <2>3, <2>4, NtySizes
  <2> QED BY <1>3, <1>7, <2>1, <2>5, NtySizes DEF m
<1> QED BY <1>6, <1>7

LEMMA NtyInit == Nty!Init => NtyInv
<1> SUFFICES ASSUME Nty!Init PROVE NtyInv
  OBVIOUS
<1> USE DEF Nty!Init
<1>1. Placed(NtyConns, Nty!Fds, nPeer, nBacklog, nOwner)
  BY EmptySeq, NtySizes DEF Placed, Peers
<1>2. events \in [Nty!Slots -> EventType]
  BY EmptySeq DEF EventType
<1>3. NtyFrame
  <2>1. <<>> \in Seq(Nat) /\ 0 \in Nat
    BY EmptySeq
  <2> QED BY <1>1, <1>2, <2>1 DEF NtyFrame
<1>4. NtySlots
  BY NtySizes DEF NtySlots
<1>5. Accounted(0, <<>>, 0, <<>>)
  <2> DEFINE z == <<>>
  <2>1. Len(z) = 0 /\ 1 .. Len(z) = {} /\ 2 .. Len(z) = {}
    BY EmptySeq
  <2> HIDE DEF z
  <2>2. Accounted(0, z, 0, z)
    BY <2>1 DEF Accounted
  <2> QED BY <2>2 DEF z
<1>6. NtyBytes
  BY <1>5 DEF NtyBytes
<1> QED BY <1>3, <1>4, <1>6 DEF NtyInv

\* A connection on a descriptor is not waiting any more.
LEMMA OwnedNotFresh ==
    ASSUME NEW C, NEW F, NEW pr, NEW bl, NEW ow, Placed(C, F, pr, bl, ow),
           NEW f \in F, ow[f] # None
    PROVE  ow[f] \in C /\ ~Fresh(pr, bl, ow[f])
BY DEF Placed, Fresh


\* A step that only moves connections and slots: the bytes stay accounted for when every
\* used slot stays as it was, or is the new slot of a connection that waited.
LEMMA NtyMove ==
    ASSUME NtyInv, NtyFrame', NtySlots', UNCHANGED <<nSent, nInput, echoed, dropped>>,
           \A c \in NtyConns : Fresh(nPeer', nBacklog', c) => Fresh(nPeer, nBacklog, c),
           \A f \in Nty!Slots : events'[f].status = 1 =>
              \/ events'[f] = events[f] /\ nOwner'[f] = nOwner[f]
              \/ /\ events'[f].events = "in" /\ nOwner'[f] \in NtyConns
                 /\ Fresh(nPeer, nBacklog, nOwner'[f])
    PROVE  NtyInv'
<1>1. \A c \in NtyConns : Fresh(nPeer, nBacklog, c)'
                            => Accounted(nSent[c], echoed[c], dropped[c], nInput[c])'
  BY DEF NtyInv, NtyBytes, Fresh
<1>2. ASSUME NEW f \in Nty!Slots, events'[f].status = 1
      PROVE  Accounted(nSent[nOwner[f]], echoed[nOwner[f]], dropped[nOwner[f]],
                       InSlot(f) \o nInput[nOwner[f]])'
  <2>1. CASE events'[f] = events[f] /\ nOwner'[f] = nOwner[f]
    BY <1>2, <2>1 DEF NtyInv, NtyBytes, InSlot
  <2>2. CASE /\ events'[f].events = "in" /\ nOwner'[f] \in NtyConns
             /\ Fresh(nPeer, nBacklog, nOwner'[f])
    <3> DEFINE c == nOwner'[f]
    <3>1. InSlot(f)' = <<>>
      BY <2>2 DEF InSlot
    <3>2. nInput[c] \in Seq(Nat)
      BY <2>2 DEF NtyInv, NtyFrame
    <3> HIDE DEF c
    <3>3. <<>> \o nInput[c] = nInput[c]
      BY <3>2, ConcatEmptySeq
    <3>4. Accounted(nSent[c], echoed[c], dropped[c], nInput[c])
      BY <2>2 DEF NtyInv, NtyBytes, c
    <3> QED BY <3>1, <3>3, <3>4 DEF c
  <2> QED BY <1>2, <2>1, <2>2
<1> QED BY <1>1, <1>2 DEF NtyInv, NtyBytes


\* Clients connect and close.
LEMMA NtyClientMoves ==
    ASSUME NtyInv, NEW c \in NtyConns, Nty!Connect(c) \/ Nty!ClientClose(c)
    PROVE  NtyInv'
<1>1. Placed(NtyConns, Nty!Fds, nPeer, nBacklog, nOwner)
  BY DEF NtyInv, NtyFrame
<1>2. /\ Placed(NtyConns, Nty!Fds, nPeer', nBacklog', nOwner')
      /\ \A d \in NtyConns : Fresh(nPeer', nBacklog', d) => Fresh(nPeer, nBacklog, d)
  <2>1. CASE Nty!Connect(c)
    BY <1>1, <2>1, PlacedConnect, NtySizes DEF Nty!Connect
  <2>2. CASE Nty!ClientClose(c)
    BY <1>1, <2>2, PlacedClose, NtySizes DEF Nty!ClientClose
  <2> QED BY <2>1, <2>2
<1>3. UNCHANGED <<nSent, nInput, nOwner, nEpoll, events, echoed, dropped>>
  BY DEF Nty!Connect, Nty!ClientClose
<1>4. NtyFrame' /\ NtySlots'
  BY <1>2, <1>3 DEF NtyInv, NtyFrame, NtySlots
<1> QED BY <1>2, <1>3, <1>4, NtyMove

\* accept_callback().
LEMMA NtyAccepts ==
    ASSUME NtyInv, Nty!AcceptFull \/ Nty!AcceptClient
    PROVE  NtyInv'
<1> DEFINE l == Nty!LowestFree(nOwner, None)
           h == Head(nBacklog)
<1>0. /\ NtyFrame /\ NtySlots /\ Placed(NtyConns, Nty!Fds, nPeer, nBacklog, nOwner)
      /\ DOMAIN nOwner = Nty!Fds
  BY DEF NtyInv, NtyFrame, Placed
<1>1. /\ nBacklog # <<>> /\ Nty!FreeFds(nOwner, None) # {}
      /\ nOwner' = [nOwner EXCEPT ![l] = h] /\ nBacklog' = Tail(nBacklog)
      /\ UNCHANGED <<nPeer, nSent, nInput, echoed, dropped>>
  BY DEF Nty!AcceptFull, Nty!AcceptClient, Nty!clientVars
<1>2. l \in Nty!Fds /\ nOwner[l] = None
  BY <1>0, <1>1, LowestIsFree, NtySizes DEF Nty!FreeFds
<1> HIDE DEF l
<1>3. /\ Placed(NtyConns, Nty!Fds, nPeer', nBacklog', nOwner')
      /\ h \in NtyConns /\ Fresh(nPeer, nBacklog, h)
      /\ \A d \in NtyConns : Fresh(nPeer', nBacklog', d) => Fresh(nPeer, nBacklog, d)
  BY <1>0, <1>1, <1>2, PlacedAccept, NtySizes
<1> HIDE DEF h
<1>4. nOwner'[l] = h /\ \A f \in Nty!Fds : f # l => nOwner'[f] = nOwner[f]
  BY <1>0, <1>1, <1>2
<1>5. CASE Nty!AcceptFull
  <2>1. l \notin Nty!Slots /\ UNCHANGED <<nEpoll, events>>
    BY <1>0, <1>2, <1>5, SlotFound DEF Nty!AcceptFull
  <2>2. NtyFrame' /\ NtySlots'
    BY <1>0, <1>1, <1>3, <1>4, <2>1, NtySizes DEF NtyFrame, NtySlots
  <2> QED BY <1>1, <1>3, <1>4, <2>1, <2>2, NtyMove, NtySizes
<1>6. CASE Nty!AcceptClient
  <2>1. l \in Nty!Slots
    BY <1>0, <1>6, SlotFound DEF Nty!AcceptClient, l
  <2>2. /\ events' = [events EXCEPT ![l].events = "in", ![l].status = 1]
        /\ nEpoll' = [nEpoll EXCEPT ![l] = "in"]
    BY <1>6 DEF Nty!AcceptClient, Nty!EventAdded, l
  <2>3. /\ events' \in [Nty!Slots -> EventType]
        /\ events'[l].events = "in" /\ events'[l].status = 1
        /\ \A f \in Nty!Slots : f # l => events'[f] = events[f]
    BY <1>0, <2>1, <2>2 DEF NtyFrame, EventType
  <2>4. /\ nEpoll' \in [Nty!Fds -> {"in", "out", "no"}] /\ nEpoll'[l] = "in"
        /\ \A f \in Nty!Fds : f # l => nEpoll'[f] = nEpoll[f]
    BY <1>0, <1>2, <2>2 DEF NtyFrame
  <2>5. NtyFrame'
    BY <1>0, <1>1, <1>3, <2>3, <2>4 DEF NtyFrame
  <2>6. NtySlots'
    BY <1>0, <1>3, <1>4, <2>3, <2>4, NtySizes DEF NtySlots
  <2>7. \A f \in Nty!Slots :
          \/ events'[f] = events[f] /\ nOwner'[f] = nOwner[f]
          \/ /\ events'[f].events = "in" /\ nOwner'[f] \in NtyConns
             /\ Fresh(nPeer, nBacklog, nOwner'[f])
    BY <1>3, <1>4, <2>3, NtySizes
  <2> QED BY <1>1, <1>3, <2>5, <2>6, <2>7, NtyMove
<1> QED BY <1>5, <1>6

\* The callbacks that end a connection.
LEMMA NtyCloses ==
    ASSUME NtyInv, NEW f \in Nty!Fds, Nty!RecvClosed(f) \/ Nty!SendFails(f)
    PROVE  NtyInv'
<1>0. NtyFrame /\ NtySlots /\ Placed(NtyConns, Nty!Fds, nPeer, nBacklog, nOwner)
  BY DEF NtyInv, NtyFrame
<1>1. /\ f \in Nty!Slots
      /\ nOwner' = [nOwner EXCEPT ![f] = None]
      /\ events' = [events EXCEPT ![f].status = 0] /\ nEpoll' = [nEpoll EXCEPT ![f] = "no"]
      /\ UNCHANGED <<nPeer, nBacklog, nSent, nInput, echoed, dropped>>
  BY DEF Nty!RecvClosed, Nty!SendFails, Nty!Called, Nty!EventDeleted, Nty!clientVars
<1>2. Placed(NtyConns, Nty!Fds, nPeer', nBacklog', nOwner')
  BY <1>0, <1>1, PlacedClose, NtySizes
<1>3. /\ events' \in [Nty!Slots -> EventType] /\ events'[f].status = 0
      /\ \A g \in Nty!Slots : g # f => events'[g] = events[g]
  BY <1>0, <1>1 DEF NtyFrame, EventType
<1>4. /\ nEpoll' \in [Nty!Fds -> {"in", "out", "no"}] /\ nEpoll'[f] = "no" /\ nOwner'[f] = None
      /\ \A g \in Nty!Fds : g # f => nEpoll'[g] = nEpoll[g] /\ nOwner'[g] = nOwner[g]
  BY <1>0, <1>1 DEF NtyFrame, Placed
<1>5. NtyFrame'
  BY <1>0, <1>1, <1>2, <1>3, <1>4 DEF NtyFrame
<1>6. NtySlots'
  BY <1>0, <1>3, <1>4, NtySizes DEF NtySlots
<1>7. \A g \in Nty!Slots : events'[g].status = 1 => events'[g] = events[g] /\ nOwner'[g] = nOwner[g]
  BY <1>3, <1>4, NtySizes
<1> QED BY <1>1, <1>5, <1>6, <1>7, NtyMove

\* A step that changes the bytes and the slot of one connection only.
LEMMA NtyTouch ==
    ASSUME NtyInv, NtyFrame', NtySlots', UNCHANGED <<nPeer, nBacklog, nOwner>>,
           NEW c \in NtyConns,
           \A d \in NtyConns : d # c => /\ nSent'[d] = nSent[d] /\ nInput'[d] = nInput[d]
                                        /\ echoed'[d] = echoed[d] /\ dropped'[d] = dropped[d],
           Fresh(nPeer, nBacklog, c) => Accounted(nSent'[c], echoed'[c], dropped'[c], nInput'[c]),
           \A f \in Nty!Slots : nOwner[f] # c => events'[f] = events[f],
           \A f \in Nty!Slots : nOwner[f] = c /\ events'[f].status = 1 =>
              Accounted(nSent'[c], echoed'[c], dropped'[c], InSlot(f)' \o nInput'[c])
    PROVE  NtyInv'
<1>1. ASSUME NEW d \in NtyConns, Fresh(nPeer, nBacklog, d)'
      PROVE  Accounted(nSent[d], echoed[d], dropped[d], nInput[d])'
  <2>1. Fresh(nPeer, nBacklog, d)
    BY <1>1 DEF Fresh
  <2>2. CASE d = c
    BY <2>1, <2>2
  <2>3. CASE d # c
    BY <2>1, <2>3 DEF NtyInv, NtyBytes
  <2> QED BY <2>2, <2>3
<1>2. ASSUME NEW f \in Nty!Slots, events'[f].status = 1
      PROVE  Accounted(nSent[nOwner[f]], echoed[nOwner[f]], dropped[nOwner[f]],
                       InSlot(f) \o nInput[nOwner[f]])'
  <2>1. CASE nOwner[f] = c
    BY <1>2, <2>1
  <2>2. CASE nOwner[f] # c
    <3>1. events'[f] = events[f] /\ InSlot(f)' = InSlot(f)
      BY <2>2 DEF InSlot
    <3>2. nOwner[f] # None
      BY <1>2, <3>1 DEF NtyInv, NtySlots
    <3>3. nOwner[f] \in NtyConns
      BY <3>2, NtySizes DEF NtyInv, NtyFrame, Placed
    <3> QED BY <1>2, <2>2, <3>1, <3>3 DEF NtyInv, NtyBytes
  <2> QED BY <2>1, <2>2
<1> QED BY <1>1, <1>2 DEF NtyInv, NtyBytes

\* A slot's buffer holds numbers.
LEMMA SlotBytes ==
    ASSUME NtyInv, NEW f \in Nty!Slots
    PROVE  InSlot(f) \in Seq(Nat) /\ events[f] \in EventType
BY EmptySeq DEF NtyInv, NtyFrame, EventType, InSlot

\* A client sends a byte.
LEMMA NtySends ==
    ASSUME NtyInv, NEW c \in NtyConns, Nty!ClientSend(c)
    PROVE  NtyInv'
<1> DEFINE s == nSent[c]
<1>0. /\ NtyFrame /\ NtySlots
      /\ s \in Nat /\ nInput[c] \in Seq(Nat) /\ echoed[c] \in Seq(Nat) /\ dropped[c] \in Nat
  BY DEF NtyInv, NtyFrame
<1>1. /\ nSent' = [nSent EXCEPT ![c] = nSent[c] + 1]
      /\ nInput' = [nInput EXCEPT ![c] = Append(nInput[c], s + 1)]
      /\ UNCHANGED <<nPeer, nBacklog, nOwner, nEpoll, events, echoed, dropped>>
  BY DEF Nty!ClientSend
<1>2. Append(nInput[c], s + 1) \in Seq(Nat)
  BY <1>0, AppendProperties
<1>3. /\ nSent' \in [NtyConns -> Nat] /\ nInput' \in [NtyConns -> Seq(Nat)]
      /\ nSent'[c] = s + 1 /\ nInput'[c] = Append(nInput[c], s + 1)
      /\ \A d \in NtyConns : d # c => nSent'[d] = nSent[d] /\ nInput'[d] = nInput[d]
  BY <1>0, <1>1, <1>2 DEF NtyFrame
<1>4. NtyFrame' /\ NtySlots'
  BY <1>0, <1>1, <1>3 DEF NtyFrame, NtySlots
<1>5. Fresh(nPeer, nBacklog, c) => Accounted(nSent'[c], echoed'[c], dropped'[c], nInput'[c])
  <2> SUFFICES ASSUME Fresh(nPeer, nBacklog, c)
               PROVE  Accounted(s + 1, echoed[c], dropped[c], Append(nInput[c], s + 1))
    BY <1>1, <1>3
  <2>1. Accounted(s, echoed[c], dropped[c], nInput[c])
    BY DEF NtyInv, NtyBytes
  <2> HIDE DEF s
  <2> QED BY <1>0, <2>1, AccountedSend
<1>6. ASSUME NEW f \in Nty!Slots, nOwner[f] = c, events'[f].status = 1
      PROVE  Accounted(nSent'[c], echoed'[c], dropped'[c], InSlot(f)' \o nInput'[c])
  <2> DEFINE b == InSlot(f)
  <2>1. b \in Seq(Nat) /\ InSlot(f)' = b
    BY <1>1, SlotBytes DEF InSlot
  <2>2. Accounted(s, echoed[c], dropped[c], b \o nInput[c])
    BY <1>1, <1>6 DEF NtyInv, NtyBytes
  <2> HIDE DEF b, s
  <2>3. b \o nInput[c] \in Seq(Nat)
    BY <1>0, <2>1, ConcatProperties
  <2>4. Accounted(s + 1, echoed[c], dropped[c], Append(b \o nInput[c], s + 1))
    BY <1>0, <2>2, <2>3, AccountedSend
  <2>5. b \o Append(nInput[c], s + 1) = Append(b \o nInput[c], s + 1)
    <3> DEFINE i == nInput[c]
               x == s + 1
    <3>1. x \in Nat /\ i \in Seq(Nat)
      BY <1>0
    <3> HIDE DEF x, i
    <3>2. b \o Append(i, x) = Append(b \o i, x)
      BY <2>1, <3>1, AppendToSecond
    <3> QED BY <3>2 DEF x, i
  <2> QED BY <1>1, <1>3, <2>1, <2>4, <2>5
<1>7. \A d \in NtyConns : d # c => /\ nSent'[d] = nSent[d] /\ nInput'[d] = nInput[d]
                                   /\ echoed'[d] = echoed[d] /\ dropped'[d] = dropped[d]
  BY <1>1, <1>3
<1>8. \A f \in Nty!Slots : nOwner[f] # c => events'[f] = events[f]
  BY <1>1
<1>9. UNCHANGED <<nPeer, nBacklog, nOwner>>
  BY <1>1
<1> QED BY <1>4, <1>5, <1>6, <1>7, <1>8, <1>9, NtyTouch

\* A callback that runs has an open descriptor, the only one of its connection, and its slot
\* is in use.
LEMMA CalledSlot ==
    ASSUME NtyInv, NEW f \in Nty!Slots, nOwner[f] # None
    PROVE  /\ nOwner[f] \in NtyConns /\ events[f].status = 1 /\ f \in Nty!Fds
           /\ ~Fresh(nPeer, nBacklog, nOwner[f])
           /\ \A g \in Nty!Slots : nOwner[g] = nOwner[f] => g = f
           /\ Accounted(nSent[nOwner[f]], echoed[nOwner[f]], dropped[nOwner[f]],
                        InSlot(f) \o nInput[nOwner[f]])
<1>0. Placed(NtyConns, Nty!Fds, nPeer, nBacklog, nOwner)
  BY DEF NtyInv, NtyFrame
<1>1. f \in Nty!Fds
  BY NtySizes
<1>2. nOwner[f] \in NtyConns /\ ~Fresh(nPeer, nBacklog, nOwner[f])
  BY <1>0, <1>1, OwnedNotFresh
<1>3. events[f].status = 1
  BY DEF NtyInv, NtySlots
<1>4. \A g \in Nty!Slots : nOwner[g] = nOwner[f] => g = f
  BY <1>0, <1>1, NtySizes DEF Placed
<1> QED BY <1>1, <1>2, <1>3, <1>4 DEF NtyInv, NtyBytes

\* recv_callback() moves bytes from the socket to the slot.
LEMMA NtyReceives ==
    ASSUME NtyInv, NEW f \in Nty!Fds, Nty!RecvData(f)
    PROVE  NtyInv'
<1> DEFINE c == nOwner[f]
           i == nInput[c]
           n == IF Len(i) > MAX_BUFFER_SIZE THEN MAX_BUFFER_SIZE ELSE Len(i)
           b == SubSeq(i, 1, n)
           r == SubSeq(i, n + 1, Len(i))
           e == [events |-> "out", status |-> 1, buffer |-> b]
<1>0. NtyFrame /\ NtySlots /\ f \in Nty!Slots /\ c # None /\ events[f].events = "in"
  BY DEF NtyInv, Nty!RecvData, Nty!Called
<1>1. /\ c \in NtyConns /\ ~Fresh(nPeer, nBacklog, c)
      /\ \A g \in Nty!Slots : nOwner[g] = c => g = f
      /\ Accounted(nSent[c], echoed[c], dropped[c], InSlot(f) \o i)
  BY <1>0, CalledSlot
<1>2. i \in Seq(Nat) /\ Len(i) \in Nat
  BY <1>0, <1>1, LenProperties DEF NtyFrame
<1>3. b = Nty!Chunk(c)
  BY DEF Nty!Chunk
<1>4. /\ nInput' = [nInput EXCEPT ![c] = SubSeq(i, Len(b) + 1, Len(i))]
      /\ events' = [events EXCEPT ![f] = e] /\ nEpoll' = [nEpoll EXCEPT ![f] = "out"]
      /\ UNCHANGED <<nPeer, nSent, nBacklog, nOwner, echoed, dropped>>
  BY <1>3 DEF Nty!RecvData, Nty!clientVars
<1>5. n \in 0 .. Len(i)
  BY <1>2, ReactorsAssumption
<1> HIDE DEF n
<1>6. b \in Seq(Nat) /\ Len(b) = n /\ r \in Seq(Nat) /\ b \o r = i
  BY <1>2, <1>5, CutInTwo
<1>7. InSlot(f) \o i = b \o r
  <2>1. InSlot(f) = <<>>
    BY <1>0 DEF InSlot
  <2> HIDE DEF i, b, r
  <2> QED BY <1>2, <1>6, <2>1, ConcatEmptySeq
<1>8. nInput' = [nInput EXCEPT ![c] = r]
  BY <1>4, <1>6
<1> HIDE DEF b, r, i
<1>9. /\ nInput' \in [NtyConns -> Seq(Nat)] /\ nInput'[c] = r
      /\ \A d \in NtyConns : d # c => nInput'[d] = nInput[d]
  BY <1>0, <1>1, <1>6, <1>8 DEF NtyFrame
<1>10. e \in EventType /\ e.events = "out" /\ e.status = 1 /\ e.buffer = b
  BY <1>6 DEF EventType
<1> HIDE DEF e
<1>11. /\ events' \in [Nty!Slots -> EventType] /\ events'[f] = e
       /\ \A g \in Nty!Slots : g # f => events'[g] = events[g]
  BY <1>0, <1>4, <1>10 DEF NtyFrame
<1>12. /\ nEpoll' \in [Nty!Fds -> {"in", "out", "no"}] /\ nEpoll'[f] = "out"
       /\ \A g \in Nty!Fds : g # f => nEpoll'[g] = nEpoll[g]
  BY <1>0, <1>4 DEF NtyFrame
<1>13. InSlot(f)' = b
  BY <1>10, <1>11 DEF InSlot
<1>14. NtyFrame'
  BY <1>0, <1>4, <1>9, <1>11, <1>12 DEF NtyFrame
<1>15. NtySlots'
  BY <1>0, <1>4, <1>10, <1>11, <1>12, NtySizes DEF NtySlots
<1>16. \A g \in Nty!Slots : nOwner[g] # c => events'[g] = events[g]
  BY <1>11
<1>17. Accounted(nSent'[c], echoed'[c], dropped'[c], b \o r)
  BY <1>1, <1>4, <1>7
<1>18. \A g \in Nty!Slots : nOwner[g] = c => InSlot(g)' \o nInput'[c] = b \o r
  BY <1>1, <1>9, <1>13
<1> HIDE DEF c
<1>19. \A d \in NtyConns : d # c => /\ nSent'[d] = nSent[d] /\ nInput'[d] = nInput[d]
                                    /\ echoed'[d] = echoed[d] /\ dropped'[d] = dropped[d]
  BY <1>4, <1>9
<1> QED BY <1>1, <1>4, <1>14, <1>15, <1>16, <1>17, <1>18, <1>19, NtyTouch

\* send_callback() echoes a part of the slot's buffer.
LEMMA NtyEchoes ==
    ASSUME NtyInv, NEW f \in Nty!Fds, Nty!SendData(f)
    PROVE  NtyInv'
<1> DEFINE c == nOwner[f]
           i == nInput[c]
           b == events[f].buffer
           e == [events |-> "in", status |-> 1, buffer |-> <<>>]
<1>0. NtyFrame /\ NtySlots /\ f \in Nty!Slots /\ c # None /\ events[f].events = "out"
  BY DEF NtyInv, Nty!SendData, Nty!Called
<1>1. /\ c \in NtyConns /\ ~Fresh(nPeer, nBacklog, c)
      /\ \A g \in Nty!Slots : nOwner[g] = c => g = f
      /\ Accounted(nSent[c], echoed[c], dropped[c], InSlot(f) \o i)
  BY <1>0, CalledSlot
<1>2. /\ nSent[c] \in Nat /\ i \in Seq(Nat) /\ echoed[c] \in Seq(Nat) /\ dropped[c] \in Nat
      /\ b \in Seq(Nat) /\ InSlot(f) = b
  BY <1>0, <1>1, SlotBytes DEF NtyFrame, InSlot
<1>3. PICK rc \in 1 .. Len(b) :
        /\ echoed' = [echoed EXCEPT ![c] = echoed[c] \o SubSeq(b, 1, rc)]
        /\ dropped' = [dropped EXCEPT ![c] = dropped[c] + Len(b) - rc]
  BY DEF Nty!SendData
<1>4. /\ events' = [events EXCEPT ![f] = e] /\ nEpoll' = [nEpoll EXCEPT ![f] = "in"]
      /\ UNCHANGED <<nPeer, nSent, nInput, nBacklog, nOwner>>
  BY DEF Nty!SendData, Nty!clientVars
<1> DEFINE ec == echoed[c] \o SubSeq(b, 1, rc)
           dr == dropped[c] + Len(b) - rc
<1>5. e \in EventType /\ e.events = "in" /\ e.status = 1
  BY EmptySeq DEF EventType
<1> HIDE DEF e, b, i
<1>6. Accounted(nSent[c], ec, dr, i) /\ ec \in Seq(Nat) /\ dr \in Nat
  BY <1>1, <1>2, <1>3, AccountedEcho
<1> HIDE DEF ec, dr
<1>7. /\ echoed' = [echoed EXCEPT ![c] = ec] /\ dropped' = [dropped EXCEPT ![c] = dr]
  BY <1>3 DEF ec, dr
<1>8. /\ echoed' \in [NtyConns -> Seq(Nat)] /\ dropped' \in [NtyConns -> Nat]
      /\ echoed'[c] = ec /\ dropped'[c] = dr
      /\ \A d \in NtyConns : d # c => echoed'[d] = echoed[d] /\ dropped'[d] = dropped[d]
  BY <1>0, <1>1, <1>6, <1>7 DEF NtyFrame
<1>9. /\ events' \in [Nty!Slots -> EventType] /\ events'[f] = e
      /\ \A g \in Nty!Slots : g # f => events'[g] = events[g]
  BY <1>0, <1>4, <1>5 DEF NtyFrame
<1>10. /\ nEpoll' \in [Nty!Fds -> {"in", "out", "no"}] /\ nEpoll'[f] = "in"
       /\ \A g \in Nty!Fds : g # f => nEpoll'[g] = nEpoll[g]
  BY <1>0, <1>4 DEF NtyFrame
<1>11. InSlot(f)' \o nInput'[c] = i /\ nInput'[c] = i
  <2>1. InSlot(f)' = <<>> /\ nInput'[c] = i
    BY <1>4, <1>5, <1>9 DEF InSlot, i
  <2> QED BY <1>2, <2>1, ConcatEmptySeq
<1>12. NtyFrame'
  BY <1>0, <1>4, <1>8, <1>9, <1>10 DEF NtyFrame
<1>13. NtySlots'
  BY <1>0, <1>4, <1>5, <1>9, <1>10, NtySizes DEF NtySlots
<1>14. \A g \in Nty!Slots : nOwner[g] # c => events'[g] = events[g]
  BY <1>9
<1>15. Accounted(nSent'[c], echoed'[c], dropped'[c], i)
  BY <1>4, <1>6, <1>8
<1>16. \A g \in Nty!Slots : nOwner[g] = c => InSlot(g)' \o nInput'[c] = i
  BY <1>1, <1>11
<1> HIDE DEF c
<1>17. \A d \in NtyConns : d # c => /\ nSent'[d] = nSent[d] /\ nInput'[d] = nInput[d]
                                    /\ echoed'[d] = echoed[d] /\ dropped'[d] = dropped[d]
  BY <1>4, <1>8
<1> QED BY <1>1, <1>4, <1>12, <1>13, <1>14, <1>15, <1>16, <1>17, NtyTouch

\* Every step of the echo reactor.
LEMMA NtyStep == NtyInv /\ [Nty!Next]_nVars => NtyInv'
<1> SUFFICES ASSUME NtyInv, [Nty!Next]_nVars PROVE NtyInv'
  OBVIOUS
<1>1. ASSUME NEW c \in NtyConns, Nty!Connect(c) \/ Nty!ClientSend(c) \/ Nty!ClientClose(c)
      PROVE  NtyInv'
  BY <1>1, NtyClientMoves, NtySends
<1>2. ASSUME NEW f \in Nty!Fds, Nty!Callback(f)
      PROVE  NtyInv'
  BY <1>2, NtyReceives, NtyEchoes, NtyCloses DEF Nty!Callback
<1>3. CASE Nty!AcceptFull \/ Nty!AcceptClient
  BY <1>3, NtyAccepts
<1>4. CASE Nty!EpollWait \/ Nty!EpollTimeout \/ Nty!AcceptFails \/ UNCHANGED nVars
  <2>1. UNCHANGED <<nPeer, nSent, nInput, nBacklog, nOwner, nEpoll, events, echoed, dropped>>
    BY <1>4 DEF Nty!EpollWait, Nty!EpollTimeout, Nty!AcceptFails, nVars, Nty!vars, Nty!clientVars
  <2>2. NtyFrame' /\ NtySlots'
    BY <2>1 DEF NtyInv, NtyFrame, NtySlots
  <2> QED BY <2>1, <2>2, NtyMove
<1> QED BY <1>1, <1>2, <1>3, <1>4 DEF Nty!Next, Nty!Reactor, Nty!Accepting

\* What the invariant says of the table and of the bytes.
LEMMA NtySound == NtyInv => Nty!SlotIsFd /\ Nty!BytesAccounted
<1> SUFFICES ASSUME NtyInv PROVE Nty!SlotIsFd /\ Nty!BytesAccounted
  OBVIOUS
<1>1. Nty!SlotIsFd
  BY SlotFound DEF NtyInv, NtySlots, Nty!SlotIsFd
<1>2. ASSUME NEW c \in NtyConns, NEW f \in Nty!Registered(c)
      PROVE  LET pending == (IF events[f].events = "out" THEN events[f].buffer ELSE <<>>)
                               \o nInput[c]
                 before == nSent[c] - Len(pending)
             IN  /\ Len(echoed[c]) + dropped[c] = before
                 /\ \A k \in DOMAIN pending : pending[k] = before + k
                 /\ \A k \in DOMAIN echoed[c] :
                       /\ echoed[c][k] <= before
                       /\ k > 1 => echoed[c][k - 1] < echoed[c][k]
  <2> DEFINE p == InSlot(f) \o nInput[c]
             e == echoed[c]
  <2>1. f \in Nty!Slots /\ nOwner[f] = c /\ events[f].status = 1
    BY <1>2 DEF Nty!Registered
  <2>2. Accounted(nSent[c], e, dropped[c], p)
    BY <2>1 DEF NtyInv, NtyBytes
  <2>3. InSlot(f) \in Seq(Nat) /\ nInput[c] \in Seq(Nat) /\ e \in Seq(Nat)
    BY <2>1, SlotBytes DEF NtyInv, NtyFrame
  <2>4. p \in Seq(Nat)
    BY <2>3, ConcatProperties
  <2>5. DOMAIN p = 1 .. Len(p) /\ DOMAIN e = 1 .. Len(e) /\ Len(e) \in Nat
    BY <2>3, <2>4, LenProperties
  <2>6. p = (IF events[f].events = "out" THEN events[f].buffer ELSE <<>>) \o nInput[c]
    BY DEF InSlot
  <2> HIDE DEF p, e
  <2>7. \A k \in DOMAIN e : k > 1 => e[k - 1] < e[k]
    <3>1. \A k \in 2 .. Len(e) : e[k - 1] < e[k]
      BY <2>2 DEF Accounted
    <3>2. \A k \in 1 .. Len(e) : k > 1 => k \in 2 .. Len(e)
      BY <2>5
    <3> QED BY <2>5, <3>1, <3>2
  <2>8. /\ Len(e) + dropped[c] = nSent[c] - Len(p)
        /\ \A k \in DOMAIN p : p[k] = nSent[c] - Len(p) + k
        /\ \A k \in DOMAIN e : e[k] <= nSent[c] - Len(p)
    BY <2>2, <2>5 DEF Accounted
  <2> QED BY <2>6, <2>7, <2>8 DEF e
<1>3. Nty!BytesAccounted
  BY <1>2 DEF Nty!BytesAccounted
<1> QED BY <1>1, <1>3

-----------------------------------------------------------------------------
(* The HTTP server. *)

ConType == [readed : Seq({"x", "end"}), written : 0 .. ResLen - 1, writeEnabled : BOOLEAN]

\* A client that has sent t tokens and got o parts, with the tokens i unread and the state
\* con, has had n whole responses and rests,
Rests(n, t, o, i, con) ==
    /\ t = 2 * n /\ o = ResLen * n /\ con.readed = <<>> /\ i = <<>>
    /\ con.written = 0 /\ ~con.writeEnabled

\* or has sent half a request,
HalfSent(n, t, o, i, con) ==
    /\ t = 2 * n + 1 /\ o = ResLen * n /\ con.readed \o i = <<"x">>
    /\ con.written = 0 /\ ~con.writeEnabled

\* or has sent a request that is not read to its end,
Asked(n, t, o, i, con) ==
    /\ t = 2 * n + 2 /\ o = ResLen * n /\ con.readed \o i = <<"x", "end">> /\ i # <<>>
    /\ con.written = 0 /\ ~con.writeEnabled

\* or has sent a request that has been read, and got a part of the response.
BeingAnswered(n, t, o, i, con) ==
    /\ t = 2 * n + 2 /\ o = ResLen * n + con.written
    /\ con.readed = <<"x", "end">> /\ i = <<>>

Served(t, o, i, con) ==
    \E n \in Nat : \/ Rests(n, t, o, i, con) \/ HalfSent(n, t, o, i, con)
                   \/ Asked(n, t, o, i, con)
                   \/ BeingAnswered(n, t, o, i, con) /\ con.writeEnabled

HttpFrame ==
    /\ Placed(Conns, ClientFds, hPeer, hBacklog, hOwner)
    /\ tokens \in [Conns -> Nat] /\ hInput \in [Conns -> Seq({"x", "end"})]
    /\ out \in [Conns -> Nat]
    /\ hEpoll \in [ClientFds -> {"no", "in", "inout"}]
    /\ cons \in [ClientFds -> ConType \cup {None}]

\* What epoll_wait() has reported still holds when it is handled: other handlers of the batch
\* do not touch the descriptor.
HttpReports ==
    /\ reading \in ClientFds \cup {None}
    /\ \A f \in ClientFds :
          /\ <<f, "in">> \in hReady => hOwner[f] # None
          /\ <<f, "out">> \in hReady => hEpoll[f] = "inout" /\ <<f, "in">> \notin hReady
          /\ reading = f => /\ hOwner[f] # None
                            /\ <<f, "in">> \notin hReady /\ <<f, "out">> \notin hReady
    /\ <<4, "in">> \in hReady => hBacklog # <<>>

HttpFlow ==
    /\ \A c \in Conns : Fresh(hPeer, hBacklog, c)
                          => Served(tokens[c], out[c], hInput[c], Http!NewCon)
    /\ \A f \in ClientFds : hOwner[f] # None =>
          Served(tokens[hOwner[f]], out[hOwner[f]], hInput[hOwner[f]], Http!Con(f))

HttpInv == HttpFrame /\ HttpReports /\ Http!InterestMatches /\ HttpFlow

Tokens == {"x", "end"}

\* The short sequences of tokens.
LEMMA ShortSeqs ==
    /\ <<>> \in Seq(Tokens) /\ Len(<<>>) = 0
    /\ <<"x">> \in Seq(Tokens) /\ Len(<<"x">>) = 1 /\ <<"x">> = Append(<<>>, "x")
    /\ <<"x", "end">> \in Seq(Tokens) /\ Len(<<"x", "end">>) = 2
    /\ <<"x", "end">> = Append(<<"x">>, "end")
    /\ <<"x", "end">>[2] = "end"
BY DEF Tokens

\* Concatenation of what has been read, what is read now and what is left.
LEMMA ThreeParts ==
    ASSUME NEW r \in Seq(Tokens), NEW a \in Seq(Tokens), NEW b \in Seq(Tokens)
    PROVE  (r \o a) \o b = r \o (a \o b)
BY ConcatAssociative

\* The last token of a request arrives.
LEMMA EndAppended ==
    ASSUME NEW r \in Seq(Tokens), NEW i \in Seq(Tokens)
    PROVE  r \o Append(i, "end") = Append(r \o i, "end")
<1> DEFINE z == "end"
<1>1. z \in Tokens
  BY DEF Tokens
<1> HIDE DEF z
<1>2. r \o Append(i, z) = Append(r \o i, z)
  BY <1>1, AppendToSecond
<1> QED BY <1>2 DEF z

\* The client sends a token, a new request only after the last response.
LEMMA ServedSend ==
    ASSUME NEW t \in Nat, NEW o \in Nat, NEW i \in Seq(Tokens), NEW con \in ConType,
           Served(t, o, i, con), t % 2 = 0 => o = ResLen * (t \div 2)
    PROVE  Served(t + 1, o, Append(i, IF t % 2 = 0 THEN "x" ELSE "end"), con)
<1>0. /\ ResLen \in Nat \ {0} /\ con.readed \in Seq(Tokens) /\ con.written \in 0 .. ResLen - 1
  BY ReactorsAssumption DEF ConType, Tokens
<1>1. PICK n \in Nat : \/ Rests(n, t, o, i, con) \/ HalfSent(n, t, o, i, con)
                       \/ Asked(n, t, o, i, con)
                       \/ BeingAnswered(n, t, o, i, con) /\ con.writeEnabled
  BY DEF Served
<1>2. CASE Rests(n, t, o, i, con)
  <2>1. t % 2 = 0 /\ t = 2 * n /\ o = ResLen * n /\ con.readed = <<>> /\ i = <<>>
    BY <1>2 DEF Rests
  <2>2. con.readed \o Append(i, "x") = <<"x">>
    BY <2>1, ShortSeqs, ConcatEmptySeq
  <2>3. HalfSent(n, t + 1, o, Append(i, "x"), con)
    BY <1>2, <2>1, <2>2 DEF HalfSent, Rests
  <2> QED BY <2>1, <2>3 DEF Served
<1>3. CASE HalfSent(n, t, o, i, con)
  <2>1. t % 2 # 0 /\ t + 1 = 2 * n + 2 /\ o = ResLen * n /\ con.readed \o i = <<"x">>
    BY <1>3 DEF HalfSent
  <2>2. con.readed \o Append(i, "end") = <<"x", "end">>
    <3>1. con.readed \o Append(i, "end") = Append(con.readed \o i, "end")
      BY <1>0, EndAppended
    <3> QED BY <2>1, <3>1, ShortSeqs
  <2>3. Append(i, "end") # <<>>
    BY AppendProperties, EmptySeq DEF Tokens
  <2>4. Asked(n, t + 1, o, Append(i, "end"), con)
    BY <1>3, <2>1, <2>2, <2>3 DEF HalfSent, Asked
  <2> QED BY <2>1, <2>4 DEF Served
<1>4. CASE Asked(n, t, o, i, con) \/ BeingAnswered(n, t, o, i, con)
  <2> DEFINE w == o - ResLen * n
             p == ResLen * n
  <2>1. t = 2 * n + 2 /\ w \in Nat /\ w < ResLen /\ o = p + w /\ p \in Nat
    <3>1. t = 2 * n + 2 /\ (o = p \/ o = p + con.written)
      BY <1>4 DEF Asked, BeingAnswered
    <3>2. p \in Nat
      BY <1>0
    <3> HIDE DEF p
    <3>3. o - p \in Nat /\ o - p < ResLen /\ o = p + (o - p)
      BY <1>0, <3>1, <3>2
    <3> QED BY <3>1, <3>2, <3>3 DEF p
  <2>2. t % 2 = 0 /\ t \div 2 = n + 1
    BY <2>1
  <2>3. ResLen * (n + 1) = p + ResLen
    BY <1>0
  <2>4. o = p + ResLen
    BY <2>2, <2>3
  <2> HIDE DEF p, w
  <2> QED BY <1>0, <2>1, <2>4
<1> QED BY <1>1, <1>2, <1>3, <1>4

\* read() takes k tokens: the request is complete exactly when its last token is read.
LEMMA ServedRead ==
    ASSUME NEW t \in Nat, NEW o \in Nat, NEW i \in Seq(Tokens), NEW con \in ConType,
           Served(t, o, i, con), i # <<>>, NEW k \in 1 .. Len(i), NEW new \in ConType,
           new = [con EXCEPT !.readed = con.readed \o SubSeq(i, 1, k)]
    PROVE  /\ ~Http!Complete(new.readed)
                => Served(t, o, SubSeq(i, k + 1, Len(i)), new)
           /\ Http!Complete(new.readed)
                => \E n \in Nat : BeingAnswered(n, t, o, SubSeq(i, k + 1, Len(i)), new)
<1> DEFINE a == SubSeq(i, 1, k)
           b == SubSeq(i, k + 1, Len(i))
           r == con.readed
           q == r \o a
<1>0. r \in Seq(Tokens) /\ Len(i) \in Nat /\ k \in 0 .. Len(i) /\ k >= 1 /\ Len(r) \in Nat
  BY LenProperties DEF ConType, Tokens
<1>1. a \in Seq(Tokens) /\ Len(a) = k /\ b \in Seq(Tokens) /\ Len(b) = Len(i) - k /\ a \o b = i
  BY <1>0, CutInTwo
<1>2. /\ new.readed = q /\ new.written = con.written /\ new.writeEnabled = con.writeEnabled
  BY DEF ConType
<1> HIDE DEF a, b, r
<1>3. q \in Seq(Tokens) /\ Len(q) = Len(r) + k
  BY <1>0, <1>1, ConcatProperties
<1>4. q \o b = r \o i
  <2>1. (r \o a) \o b = r \o (a \o b)
    BY <1>0, <1>1, ThreeParts
  <2> QED BY <1>1, <2>1
<1> HIDE DEF q
<1>5. Len(q) + Len(b) = Len(r \o i) /\ Len(q) \in Nat /\ Len(b) \in Nat
  BY <1>1, <1>3, <1>4, ConcatProperties, LenProperties
<1>6. PICK n \in Nat : \/ Rests(n, t, o, i, con) \/ HalfSent(n, t, o, i, con)
                       \/ Asked(n, t, o, i, con)
                       \/ BeingAnswered(n, t, o, i, con) /\ con.writeEnabled
  BY DEF Served
<1>7. CASE HalfSent(n, t, o, i, con)
  <2>1. Len(q) <= 1
    BY <1>5, <1>7, ShortSeqs DEF HalfSent, r
  <2>2. ~Http!Complete(q)
    BY <1>5, <2>1 DEF Http!Complete
  <2>3. HalfSent(n, t, o, b, new)
    BY <1>2, <1>4, <1>7 DEF HalfSent, r
  <2> QED BY <1>2, <2>2, <2>3 DEF Served, b
<1>8. CASE Asked(n, t, o, i, con)
  <2>1. q \o b = <<"x", "end">> /\ Len(q) + Len(b) = 2
    BY <1>4, <1>5, <1>8, ShortSeqs DEF Asked, r
  <2>2. CASE b = <<>>
    <3>1. q = <<"x", "end">>
      BY <1>3, <2>1, <2>2, ConcatEmptySeq
    <3>2. Http!Complete(q)
      BY <3>1, ShortSeqs DEF Http!Complete
    <3>3. t = 2 * n + 2 /\ o = ResLen * n /\ con.written = 0
      BY <1>8 DEF Asked
    <3>4. o = ResLen * n + new.written
      BY <1>2, <3>3
    <3>5. BeingAnswered(n, t, o, b, new)
      BY <1>2, <2>2, <3>1, <3>3, <3>4 DEF BeingAnswered
    <3> QED BY <1>2, <3>2, <3>5 DEF b
  <2>3. CASE b # <<>>
    <3>1. Len(b) > 0
      BY <1>1, <1>5, <2>3, EmptySeq
    <3>2. ~Http!Complete(q)
      BY <1>5, <2>1, <3>1 DEF Http!Complete
    <3>3. Asked(n, t, o, b, new)
      BY <1>2, <1>8, <2>1, <2>3 DEF Asked
    <3> QED BY <1>2, <3>2, <3>3 DEF Served, b
  <2> QED BY <2>2, <2>3
<1> QED BY <1>6, <1>7, <1>8 DEF Rests, BeingAnswered

\* sendRes() writes k more parts: the rest of the response, or less.
LEMMA ServedAnswer ==
    ASSUME NEW n \in Nat, NEW t \in Nat, NEW o \in Nat, NEW i \in Seq(Tokens),
           NEW con \in ConType, BeingAnswered(n, t, o, i, con), NEW k \in Nat
    PROVE  /\ k = ResLen - con.written => Served(t, o + k, i, Http!NewCon)
           /\ \A new \in ConType :
                new.readed = con.readed /\ new.written = con.written + k /\ new.writeEnabled
                  => Served(t, o + k, i, new)
<1>0. ResLen \in Nat \ {0} /\ con.written \in 0 .. ResLen - 1
  BY ReactorsAssumption DEF ConType
<1>1. /\ t = 2 * n + 2 /\ o = ResLen * n + con.written /\ con.readed = <<"x", "end">> /\ i = <<>>
  BY DEF BeingAnswered
<1> DEFINE p == ResLen * n
<1>2. p \in Nat /\ ResLen * (n + 1) = p + ResLen
  BY <1>0
<1>3. o = p + con.written
  BY <1>1
<1> HIDE DEF p
<1>4. ASSUME k = ResLen - con.written PROVE Served(t, o + k, i, Http!NewCon)
  <2>1. o + k = ResLen * (n + 1) /\ t = 2 * (n + 1) /\ n + 1 \in Nat
    <3>1. o + k = p + ResLen
      BY <1>0, <1>2, <1>3, <1>4
    <3>2. t = 2 * (n + 1) /\ n + 1 \in Nat
      BY <1>1
    <3> QED BY <1>2, <3>1, <3>2
  <2>2. Rests(n + 1, t, o + k, i, Http!NewCon)
    BY <1>1, <2>1 DEF Rests, Http!NewCon
  <2> QED BY <2>1, <2>2 DEF Served
<1>5. ASSUME NEW new \in ConType, new.readed = con.readed, new.written = con.written + k,
             new.writeEnabled
      PROVE  Served(t, o + k, i, new)
  <2>1. o + k = p + new.written
    BY <1>0, <1>2, <1>3, <1>5
  <2>2. BeingAnswered(n, t, o + k, i, new)
    BY <1>1, <1>5, <2>1 DEF BeingAnswered, p
  <2> QED BY <1>5, <2>2 DEF Served
<1> QED BY <1>4, <1>5

LEMMA RestOf ==
    ASSUME NEW N \in Nat \ {0}, NEW d \in Int, NEW r \in 0 .. N - 1, N * d + r \in Nat
    PROVE  (N * d + r) % N = r
<1> DEFINE m == N * d + r
<1>1. m \in Nat /\ m = N * d + r
  OBVIOUS
<1> HIDE DEF m
<1>2. m % N = r
  BY <1>1, ModUnique
<1> QED BY <1>2 DEF m

\* What a client has got: whole responses and the part under way, not more than it asked for.
LEMMA ServedExact ==
    ASSUME NEW t \in Nat, NEW o \in Nat, NEW i, NEW con \in ConType, Served(t, o, i, con)
    PROVE  o % ResLen = con.written /\ o <= ResLen * (t \div 2)
<1>0. ResLen \in Nat \ {0} /\ con.written \in 0 .. ResLen - 1
  BY ReactorsAssumption DEF ConType
<1>1. PICK n \in Nat : \/ Rests(n, t, o, i, con) \/ HalfSent(n, t, o, i, con)
                       \/ Asked(n, t, o, i, con)
                       \/ BeingAnswered(n, t, o, i, con) /\ con.writeEnabled
  BY DEF Served
<1>2. o = ResLen * n + con.written
  <2>1. CASE o = ResLen * n /\ con.written = 0
    BY <1>0, <2>1
  <2> QED BY <1>1, <2>1 DEF Rests, HalfSent, Asked, BeingAnswered
<1>3. o % ResLen = con.written
  <2> DEFINE w == con.written
  <2>1. n \in Int /\ w \in 0 .. ResLen - 1 /\ o = ResLen * n + w
    BY <1>0, <1>2
  <2> HIDE DEF w
  <2>2. o % ResLen = w
    BY <1>0, <2>1, RestOf
  <2> QED BY <2>2 DEF w
<1> DEFINE p == ResLen * n
<1>4. p \in Nat /\ ResLen * (n + 1) = p + ResLen
  BY <1>0
<1>5. o <= ResLen * (t \div 2)
  <2>1. CASE t = 2 * n + 2
    <3>1. t \div 2 = n + 1
      BY <2>1
    <3>2. ResLen * (t \div 2) = p + ResLen /\ o = p + con.written
      BY <1>2, <1>4, <3>1
    <3> HIDE DEF p
    <3> QED BY <1>0, <1>4, <3>2
  <2>2. CASE t # 2 * n + 2
    <3>1. (t = 2 * n \/ t = 2 * n + 1) /\ o = ResLen * n
      BY <1>1, <2>2 DEF Rests, HalfSent, Asked, BeingAnswered
    <3>2. t \div 2 = n
      BY <3>1
    <3> QED BY <1>4, <3>1, <3>2
  <2> QED BY <2>1, <2>2
<1> QED BY <1>3, <1>5

\* What the constants and the frame say of a descriptor and its state.
LEMMA HttpSizes ==
    /\ None \notin Conns /\ None \notin ClientFds /\ 4 \notin ClientFds
    /\ ClientFds \subseteq Nat /\ None \notin ConType /\ Http!NewCon \in ConType
<1>1. /\ None \notin Conns /\ None \notin ClientFds /\ 4 \notin ClientFds
      /\ ClientFds \subseteq Nat
  BY ReactorsAssumption
<1>2. None \notin ConType
  BY ReactorsAssumption DEF ConType
<1>3. Http!NewCon \in ConType
  <2>1. 0 \in 0 .. ResLen - 1 /\ <<>> \in Seq({"x", "end"})
    BY ReactorsAssumption, EmptySeq
  <2> QED BY <2>1 DEF ConType, Http!NewCon
<1> QED BY <1>1, <1>2, <1>3

\* The state of a descriptor's connection.
LEMMA ConOf ==
    ASSUME HttpFrame, NEW f \in ClientFds
    PROVE  Http!Con(f) \in ConType /\ (cons[f] # None => Http!Con(f) = cons[f])
BY HttpSizes DEF HttpFrame, Http!Con

\* A step that only moves connections and descriptors.
LEMMA HttpMove ==
    ASSUME HttpInv, HttpFrame', HttpReports', Http!InterestMatches',
           UNCHANGED <<tokens, hInput, out>>,
           \A c \in Conns : Fresh(hPeer', hBacklog', c) => Fresh(hPeer, hBacklog, c),
           \A f \in ClientFds : hOwner'[f] # None =>
              \/ cons'[f] = cons[f] /\ hOwner'[f] = hOwner[f]
              \/ cons'[f] = None /\ hOwner'[f] \in Conns /\ Fresh(hPeer, hBacklog, hOwner'[f])
    PROVE  HttpInv'
<1>1. ASSUME NEW c \in Conns, Fresh(hPeer, hBacklog, c)'
      PROVE  Served(tokens[c], out[c], hInput[c], Http!NewCon)'
  <2>1. Fresh(hPeer, hBacklog, c)
    BY <1>1 DEF Fresh
  <2>2. Served(tokens[c], out[c], hInput[c], Http!NewCon)
    BY <2>1 DEF HttpInv, HttpFlow
  <2> QED BY <2>2 DEF Http!NewCon
<1>2. ASSUME NEW f \in ClientFds, hOwner'[f] # None
      PROVE  Served(tokens[hOwner[f]], out[hOwner[f]], hInput[hOwner[f]], Http!Con(f))'
  <2>1. CASE cons'[f] = cons[f] /\ hOwner'[f] = hOwner[f]
    <3>1. Http!Con(f)' = Http!Con(f)
      BY <2>1 DEF Http!Con, Http!NewCon
    <3>2. Served(tokens[hOwner[f]], out[hOwner[f]], hInput[hOwner[f]], Http!Con(f))
      BY <1>2, <2>1 DEF HttpInv, HttpFlow
    <3> QED BY <2>1, <3>1, <3>2
  <2>2. CASE cons'[f] = None /\ hOwner'[f] \in Conns /\ Fresh(hPeer, hBacklog, hOwner'[f])
    <3>1. Http!Con(f)' = Http!NewCon
      BY <2>2 DEF Http!Con, Http!NewCon
    <3>2. Served(tokens[hOwner'[f]], out[hOwner'[f]], hInput[hOwner'[f]], Http!NewCon)
      BY <2>2 DEF HttpInv, HttpFlow
    <3> QED BY <2>2, <3>1, <3>2
  <2> QED BY <1>2, <2>1, <2>2
<1> QED BY <1>1, <1>2 DEF HttpInv, HttpFlow

\* A step that changes the tokens, the parts and the state of one connection only, or closes
\* its descriptor.
LEMMA HttpTouch ==
    ASSUME HttpInv, HttpFrame', HttpReports', Http!InterestMatches',
           UNCHANGED <<hPeer, hBacklog>>, NEW c \in Conns,
           \A d \in Conns : d # c => /\ tokens'[d] = tokens[d] /\ hInput'[d] = hInput[d]
                                     /\ out'[d] = out[d],
           Fresh(hPeer, hBacklog, c) => Served(tokens'[c], out'[c], hInput'[c], Http!NewCon),
           \A f \in ClientFds : hOwner'[f] # None => hOwner'[f] = hOwner[f],
           \A f \in ClientFds : hOwner[f] # c => cons'[f] = cons[f],
           \A f \in ClientFds : hOwner'[f] = c =>
              Served(tokens'[c], out'[c], hInput'[c], Http!Con(f)')
    PROVE  HttpInv'
<1>1. ASSUME NEW d \in Conns, Fresh(hPeer, hBacklog, d)'
      PROVE  Served(tokens[d], out[d], hInput[d], Http!NewCon)'
  <2>1. Fresh(hPeer, hBacklog, d)
    BY <1>1 DEF Fresh
  <2>2. Served(tokens'[d], out'[d], hInput'[d], Http!NewCon)
    <3>1. CASE d = c
      BY <2>1, <3>1
    <3>2. CASE d # c
      BY <2>1, <3>2 DEF HttpInv, HttpFlow
    <3> QED BY <3>1, <3>2
  <2> QED BY <2>2 DEF Http!NewCon
<1>2. ASSUME NEW f \in ClientFds, hOwner'[f] # None
      PROVE  Served(tokens[hOwner[f]], out[hOwner[f]], hInput[hOwner[f]], Http!Con(f))'
  <2>0. hOwner'[f] = hOwner[f] /\ hOwner[f] \in Conns
    BY <1>2, HttpSizes DEF HttpInv, HttpFrame, Placed
  <2>1. CASE hOwner[f] = c
    BY <2>0, <2>1
  <2>2. CASE hOwner[f] # c
    <3>1. Http!Con(f)' = Http!Con(f)
      BY <2>2 DEF Http!Con, Http!NewCon
    <3>2. Served(tokens[hOwner[f]], out[hOwner[f]], hInput[hOwner[f]], Http!Con(f))
      BY <1>2, <2>0 DEF HttpInv, HttpFlow
    <3> QED BY <2>0, <2>2, <3>1, <3>2
  <2> QED BY <2>1, <2>2
<1> QED BY <1>1, <1>2 DEF HttpInv, HttpFlow

LEMMA HttpInit == Http!Init => HttpInv
<1> SUFFICES ASSUME Http!Init PROVE HttpInv
  OBVIOUS
<1>0. /\ hPeer = [c \in Conns |-> "away"] /\ tokens = [c \in Conns |-> 0]
      /\ hInput = [c \in Conns |-> <<>>] /\ hBacklog = <<>>
      /\ hOwner = [f \in ClientFds |-> None] /\ hEpoll = [f \in ClientFds |-> "no"]
      /\ cons = [f \in ClientFds |-> None] /\ hReady = {} /\ reading = None
      /\ out = [c \in Conns |-> 0]
  BY DEF Http!Init
<1>1. Placed(Conns, ClientFds, hPeer, hBacklog, hOwner)
  BY <1>0, EmptySeq DEF Placed, Peers
<1>2. <<>> \in Seq({"x", "end"}) /\ 0 \in Nat
  BY EmptySeq
<1>3. HttpFrame
  BY <1>0, <1>1, <1>2 DEF HttpFrame
<1>4. HttpReports /\ Http!InterestMatches
  BY <1>0, HttpSizes DEF HttpReports, Http!InterestMatches
<1>5. Served(0, 0, <<>>, Http!NewCon)
  <2>1. 0 = 2 * 0 /\ 0 = ResLen * 0
    BY ReactorsAssumption
  <2>2. Rests(0, 0, 0, <<>>, Http!NewCon)
    BY <2>1 DEF Rests, Http!NewCon
  <2> QED BY <1>2, <2>2 DEF Served
<1>6. HttpFlow
  BY <1>0, <1>5 DEF HttpFlow
<1> QED BY <1>3, <1>4, <1>6 DEF HttpInv

\* Clients connect and close.
LEMMA HttpClientMoves ==
    ASSUME HttpInv, NEW c \in Conns, Http!Connect(c) \/ Http!ClientClose(c)
    PROVE  HttpInv'
<1>0. HttpFrame /\ HttpReports /\ Http!InterestMatches
      /\ Placed(Conns, ClientFds, hPeer, hBacklog, hOwner)
  BY DEF HttpInv, HttpFrame
<1>1. /\ Placed(Conns, ClientFds, hPeer', hBacklog', hOwner')
      /\ \A d \in Conns : Fresh(hPeer', hBacklog', d) => Fresh(hPeer, hBacklog, d)
      /\ hBacklog # <<>> => hBacklog' # <<>>
  <2>1. CASE Http!Connect(c)
    <3>1. hBacklog' = Append(hBacklog, c) /\ hBacklog \in Seq(Conns)
      BY <1>0, <2>1 DEF Http!Connect, Placed
    <3>2. hBacklog' # <<>>
      BY <3>1, AppendProperties, EmptySeq
    <3> QED BY <1>0, <2>1, <3>2, PlacedConnect, HttpSizes DEF Http!Connect
  <2>2. CASE Http!ClientClose(c)
    BY <1>0, <2>2, PlacedClose, HttpSizes DEF Http!ClientClose
  <2> QED BY <2>1, <2>2
<1>2. UNCHANGED <<tokens, hInput, hOwner, hEpoll, cons, hReady, reading, out>>
  BY DEF Http!Connect, Http!ClientClose
<1>3. HttpFrame' /\ HttpReports'
  BY <1>0, <1>1, <1>2 DEF HttpFrame, HttpReports
<1>4. Http!InterestMatches'
  BY <1>0, <1>2 DEF Http!InterestMatches, Http!Con, Http!NewCon
<1> QED BY <1>1, <1>2, <1>3, <1>4, HttpMove

\* A client sends a token.
LEMMA HttpSends ==
    ASSUME HttpInv, NEW c \in Conns, Http!ClientSend(c)
    PROVE  HttpInv'
<1> DEFINE z == IF tokens[c] % 2 = 0 THEN "x" ELSE "end"
           t == tokens[c]
           i == hInput[c]
<1>0. /\ HttpFrame /\ HttpReports /\ Http!InterestMatches
      /\ t \in Nat /\ i \in Seq(Tokens) /\ out[c] \in Nat
  BY DEF HttpInv, HttpFrame, Tokens
<1>1. /\ tokens' = [tokens EXCEPT ![c] = t + 1] /\ hInput' = [hInput EXCEPT ![c] = Append(i, z)]
      /\ t % 2 = 0 => out[c] = ResLen * (t \div 2)
      /\ UNCHANGED <<hPeer, hBacklog, hOwner, hEpoll, cons, hReady, reading, out>>
  BY DEF Http!ClientSend
<1>2. Append(i, z) \in Seq(Tokens)
  <2>1. z \in Tokens
    BY DEF Tokens
  <2> HIDE DEF z
  <2> QED BY <1>0, <2>1, AppendProperties
<1>3. \A con \in ConType : Served(t, out[c], i, con) => Served(t + 1, out[c], Append(i, z), con)
  <2> HIDE DEF t, i
  <2> QED BY <1>0, <1>1, ServedSend DEF t
<1> HIDE DEF z, t, i
<1>4. /\ tokens' \in [Conns -> Nat] /\ hInput' \in [Conns -> Seq(Tokens)]
      /\ tokens'[c] = t + 1 /\ hInput'[c] = Append(i, z)
      /\ \A d \in Conns : d # c => tokens'[d] = tokens[d] /\ hInput'[d] = hInput[d]
  BY <1>0, <1>1, <1>2 DEF HttpFrame, Tokens
<1>5. HttpFrame' /\ HttpReports'
  BY <1>0, <1>1, <1>4 DEF HttpFrame, HttpReports, Tokens
<1>6. Http!InterestMatches'
  BY <1>0, <1>1 DEF Http!InterestMatches, Http!Con, Http!NewCon
<1>7. Fresh(hPeer, hBacklog, c) => Served(tokens'[c], out'[c], hInput'[c], Http!NewCon)
  BY <1>1, <1>3, <1>4, HttpSizes DEF HttpInv, HttpFlow, t, i
<1>8. ASSUME NEW f \in ClientFds, hOwner'[f] = c
      PROVE  Served(tokens'[c], out'[c], hInput'[c], Http!Con(f)')
  <2>1. Http!Con(f)' = Http!Con(f) /\ Http!Con(f) \in ConType
    BY <1>0, <1>1, ConOf DEF Http!Con, Http!NewCon
  <2>2. Served(t, out[c], i, Http!Con(f))
    BY <1>1, <1>8, HttpSizes DEF HttpInv, HttpFlow, t, i
  <2> QED BY <1>1, <1>3, <1>4, <2>1, <2>2
<1>9. /\ \A d \in Conns : d # c => /\ tokens'[d] = tokens[d] /\ hInput'[d] = hInput[d]
                                   /\ out'[d] = out[d]
      /\ \A f \in ClientFds : hOwner'[f] # None => hOwner'[f] = hOwner[f]
      /\ \A f \in ClientFds : hOwner[f] # c => cons'[f] = cons[f]
      /\ UNCHANGED <<hPeer, hBacklog>>
  BY <1>1, <1>4
<1> QED BY <1>5, <1>6, <1>7, <1>8, <1>9, HttpTouch

\* handleAccept().
LEMMA HttpAccepts ==
    ASSUME HttpInv, Http!HandleAccept
    PROVE  HttpInv'
<1> DEFINE l == Http!LowestFree(hOwner, None)
           h == Head(hBacklog)
<1>0. /\ HttpFrame /\ HttpReports /\ Http!InterestMatches
      /\ Placed(Conns, ClientFds, hPeer, hBacklog, hOwner) /\ DOMAIN hOwner = ClientFds
  BY DEF HttpInv, HttpFrame, Placed
<1>1. /\ reading = None /\ <<4, "in">> \in hReady /\ Http!FreeFds(hOwner, None) # {}
      /\ hOwner' = [hOwner EXCEPT ![l] = h] /\ hEpoll' = [hEpoll EXCEPT ![l] = "in"]
      /\ hBacklog' = Tail(hBacklog) /\ hReady' = hReady \ {<<4, "in">>}
      /\ UNCHANGED <<hPeer, tokens, hInput, cons, reading, out>>
  BY DEF Http!HandleAccept, Http!Listen
<1>2. l \in ClientFds /\ hOwner[l] = None
  BY <1>0, <1>1, LowestIsFree, HttpSizes DEF Http!FreeFds
<1> HIDE DEF l
<1>3. hBacklog # <<>>
  BY <1>0, <1>1 DEF HttpReports
<1>4. /\ Placed(Conns, ClientFds, hPeer', hBacklog', hOwner')
      /\ h \in Conns /\ Fresh(hPeer, hBacklog, h)
      /\ \A d \in Conns : Fresh(hPeer', hBacklog', d) => Fresh(hPeer, hBacklog, d)
  BY <1>0, <1>1, <1>2, <1>3, PlacedAccept, HttpSizes
<1> HIDE DEF h
<1>5. /\ hOwner'[l] = h /\ \A f \in ClientFds : f # l => hOwner'[f] = hOwner[f]
      /\ hEpoll' \in [ClientFds -> {"no", "in", "inout"}]
      /\ hEpoll'[l] = "in" /\ \A f \in ClientFds : f # l => hEpoll'[f] = hEpoll[f]
  BY <1>0, <1>1, <1>2 DEF HttpFrame
<1>6. hEpoll[l] = "no" /\ cons[l] = None
  BY <1>0, <1>2 DEF Http!InterestMatches
<1>7. HttpFrame'
  BY <1>0, <1>1, <1>4, <1>5 DEF HttpFrame
<1>8. HttpReports'
  <2>1. <<l, "in">> \notin hReady /\ <<l, "out">> \notin hReady
    BY <1>0, <1>2, <1>6 DEF HttpReports
  <2>2. <<4, "in">> \notin hReady' /\ \A x \in hReady' : x \in hReady
    BY <1>1
  <2> QED BY <1>0, <1>1, <1>2, <1>5, <2>1, <2>2, HttpSizes DEF HttpReports
<1>9. Http!InterestMatches'
  <2>1. Http!NewCon.writeEnabled = FALSE
    BY DEF Http!NewCon
  <2>2. \A f \in ClientFds : Http!Con(f)' = Http!Con(f)
    BY <1>1 DEF Http!Con, Http!NewCon
  <2>3. Http!Con(l) = Http!NewCon
    BY <1>6 DEF Http!Con
  <2>4. ASSUME NEW f \in ClientFds
        PROVE  IF hOwner'[f] = None
                 THEN hEpoll'[f] = "no" /\ cons'[f] = None
                 ELSE hEpoll'[f] = IF Http!Con(f)'.writeEnabled THEN "inout" ELSE "in"
    <3>1. CASE f = l
      BY <1>4, <1>5, <2>1, <2>2, <2>3, <3>1, HttpSizes
    <3>2. CASE f # l
      BY <1>0, <1>1, <1>5, <2>2, <3>2 DEF Http!InterestMatches
    <3> QED BY <3>1, <3>2
  <2> QED BY <2>4 DEF Http!InterestMatches
<1>10. \A f \in ClientFds :
         \/ cons'[f] = cons[f] /\ hOwner'[f] = hOwner[f]
         \/ cons'[f] = None /\ hOwner'[f] \in Conns /\ Fresh(hPeer, hBacklog, hOwner'[f])
  BY <1>1, <1>4, <1>5, <1>6
<1> QED BY <1>1, <1>4, <1>7, <1>8, <1>9, <1>10, HttpMove

\* loop_once() waits, handleRead() begins or finds nothing more, the server ends: only the
\* reports change.
LEMMA HttpWaits ==
    ASSUME HttpInv,
           \/ Http!EpollWait \/ Http!EpollTimeout \/ Http!AcceptExits \/ Http!ReadAgain
           \/ Http!Ended \/ UNCHANGED hVars
           \/ \E f \in ClientFds : Http!HandleRead(f)
    PROVE  HttpInv'
<1>0. HttpFrame /\ HttpReports /\ Http!InterestMatches
  BY DEF HttpInv
<1>1. UNCHANGED <<hPeer, tokens, hInput, hBacklog, hOwner, hEpoll, cons, out>>
  BY DEF Http!EpollWait, Http!EpollTimeout, Http!AcceptExits, Http!ReadAgain, Http!Ended,
         Http!HandleRead, Http!vars, Http!netVars, hVars
<1>2. HttpReports'
  <2>1. CASE Http!EpollWait
    <3> DEFINE L == IF hBacklog # <<>> THEN {<<4, "in">>} ELSE {}
    <3>1. /\ reading = None /\ reading' = None
          /\ \E w \in SUBSET Http!Out :
                hReady' = (Http!In \X {"in"}) \cup (w \X {"out"}) \cup L
      BY <2>1 DEF Http!EpollWait, Http!Idle, Http!Listen
    <3>2. PICK w \in SUBSET Http!Out :
                hReady' = (Http!In \X {"in"}) \cup (w \X {"out"}) \cup L
      BY <3>1
    <3>3. \A f \in Http!Out : hEpoll[f] = "inout" /\ f \notin Http!In /\ f \in ClientFds
      BY DEF Http!Out
    <3>4. \A f \in Http!In : f \in ClientFds /\ hOwner[f] # None
      BY <1>0 DEF Http!In, Http!InterestMatches
    <3> HIDE DEF L
    <3>5. \A x \in L : x = <<4, "in">> /\ hBacklog # <<>>
      BY DEF L
    <3>6. ASSUME NEW f \in ClientFds
          PROVE  /\ <<f, "in">> \in hReady' => f \in Http!In
                 /\ <<f, "out">> \in hReady' => f \in Http!Out
      <4>1. <<f, "in">> \notin L /\ <<f, "out">> \notin L
        BY <3>5, HttpSizes
      <4> QED BY <3>2, <4>1
    <3>7. <<4, "in">> \in hReady' => hBacklog # <<>>
      <4>1. 4 \notin Http!In
        BY HttpSizes, <3>4
      <4> QED BY <3>2, <3>5, <4>1
    <3>8. \A f \in ClientFds : reading' # f
      BY <3>1, HttpSizes
    <3> QED BY <1>1, <3>1, <3>3, <3>4, <3>6, <3>7, <3>8 DEF HttpReports
  <2>2. ASSUME NEW f \in ClientFds, Http!HandleRead(f) PROVE HttpReports'
    <3>1. /\ reading' = f /\ <<f, "in">> \in hReady /\ hReady' = hReady \ {<<f, "in">>}
      BY <2>2 DEF Http!HandleRead
    <3> QED BY <1>0, <1>1, <3>1 DEF HttpReports
  <2>3. CASE Http!ReadAgain
    <3>1. reading' = None /\ hReady' = hReady
      BY <2>3 DEF Http!ReadAgain
    <3> QED BY <1>0, <1>1, <3>1, HttpSizes DEF HttpReports
  <2>4. CASE Http!EpollTimeout \/ Http!AcceptExits \/ Http!Ended \/ UNCHANGED hVars
    <3>1. reading' = reading /\ hReady' = hReady
      BY <2>4 DEF Http!EpollTimeout, Http!AcceptExits, Http!Ended, Http!vars, hVars
    <3> QED BY <1>0, <1>1, <3>1 DEF HttpReports
  <2> QED BY <2>1, <2>2, <2>3, <2>4
<1>3. HttpFrame'
  BY <1>0, <1>1 DEF HttpFrame
<1>4. Http!InterestMatches'
  BY <1>0, <1>1 DEF Http!InterestMatches, Http!Con, Http!NewCon
<1> QED BY <1>1, <1>2, <1>3, <1>4, HttpMove

\* The descriptor of a connection is the only one.
LEMMA HttpOnlyFd ==
    ASSUME HttpInv, NEW f \in ClientFds, hOwner[f] # None
    PROVE  /\ hOwner[f] \in Conns /\ ~Fresh(hPeer, hBacklog, hOwner[f])
           /\ \A g \in ClientFds : hOwner[g] = hOwner[f] => g = f
<1>1. Placed(Conns, ClientFds, hPeer, hBacklog, hOwner)
  BY DEF HttpInv, HttpFrame
<1>2. hOwner[f] \in Conns /\ ~Fresh(hPeer, hBacklog, hOwner[f])
  BY <1>1, OwnedNotFresh
<1> QED BY <1>1, <1>2 DEF Placed

\* The descriptor f is closed, by a handler that has consumed its reports.
LEMMA HttpCloses ==
    ASSUME HttpInv, NEW f \in ClientFds, hOwner[f] # None, Http!Closed(f),
           UNCHANGED <<hPeer, tokens, hBacklog, out>>,
           hInput' \in [Conns -> Seq({"x", "end"})],
           \A d \in Conns : d # hOwner[f] => hInput'[d] = hInput[d],
           hReady' \subseteq hReady, <<f, "in">> \notin hReady', <<f, "out">> \notin hReady',
           reading' = None
    PROVE  HttpInv'
<1> DEFINE c == hOwner[f]
<1>0. /\ HttpFrame /\ HttpReports /\ Http!InterestMatches
      /\ Placed(Conns, ClientFds, hPeer, hBacklog, hOwner)
  BY DEF HttpInv, HttpFrame
<1>1. c \in Conns /\ ~Fresh(hPeer, hBacklog, c) /\ \A g \in ClientFds : hOwner[g] = c => g = f
  BY HttpOnlyFd
<1>2. /\ hOwner' = [hOwner EXCEPT ![f] = None] /\ hEpoll' = [hEpoll EXCEPT ![f] = "no"]
      /\ cons' = [cons EXCEPT ![f] = None]
  BY DEF Http!Closed
<1>3. Placed(Conns, ClientFds, hPeer', hBacklog', hOwner')
  BY <1>0, <1>2, PlacedClose, HttpSizes
<1>4. /\ hOwner'[f] = None /\ hEpoll'[f] = "no" /\ cons'[f] = None
      /\ \A g \in ClientFds : g # f => /\ hOwner'[g] = hOwner[g] /\ hEpoll'[g] = hEpoll[g]
                                       /\ cons'[g] = cons[g]
      /\ hEpoll' \in [ClientFds -> {"no", "in", "inout"}]
      /\ cons' \in [ClientFds -> ConType \cup {None}]
  BY <1>0, <1>2 DEF HttpFrame, Placed
<1>5. HttpFrame'
  BY <1>0, <1>3, <1>4 DEF HttpFrame
<1>6. HttpReports'
  <2>1. \A x : x \in hReady' => x \in hReady
    OBVIOUS
  <2>2. \A g \in ClientFds : reading' # g
    BY HttpSizes
  <2> QED BY <1>0, <1>4, <2>1, <2>2 DEF HttpReports
<1>7. Http!InterestMatches'
  <2>1. \A g \in ClientFds : g # f => Http!Con(g)' = Http!Con(g)
    BY <1>4 DEF Http!Con, Http!NewCon
  <2>2. ASSUME NEW g \in ClientFds
        PROVE  IF hOwner'[g] = None
                 THEN hEpoll'[g] = "no" /\ cons'[g] = None
                 ELSE hEpoll'[g] = IF Http!Con(g)'.writeEnabled THEN "inout" ELSE "in"
    <3>1. CASE g = f
      BY <1>4, <3>1
    <3>2. CASE g # f
      BY <1>0, <1>4, <2>1, <3>2 DEF Http!InterestMatches
    <3> QED BY <3>1, <3>2
  <2> QED BY <2>2 DEF Http!InterestMatches
<1>8. /\ \A d \in Conns : d # c => /\ tokens'[d] = tokens[d] /\ hInput'[d] = hInput[d]
                                   /\ out'[d] = out[d]
      /\ \A g \in ClientFds : hOwner'[g] # None => hOwner'[g] = hOwner[g]
      /\ \A g \in ClientFds : hOwner[g] # c => cons'[g] = cons[g]
      /\ \A g \in ClientFds : hOwner'[g] # c
  BY <1>1, <1>4, HttpSizes
<1> HIDE DEF c
<1> QED BY <1>1, <1>5, <1>6, <1>7, <1>8, HttpTouch

\* A handler changes the state and the interest of the descriptor f together.
LEMMA HttpUpdates ==
    ASSUME HttpInv, NEW f \in ClientFds, hOwner[f] # None,
           UNCHANGED <<hPeer, tokens, hBacklog, hOwner, reading>>,
           hInput' \in [Conns -> Seq({"x", "end"})], out' \in [Conns -> Nat],
           \A d \in Conns : d # hOwner[f] => hInput'[d] = hInput[d] /\ out'[d] = out[d],
           cons' \in [ClientFds -> ConType \cup {None}],
           hEpoll' \in [ClientFds -> {"no", "in", "inout"}],
           \A g \in ClientFds : g # f => cons'[g] = cons[g] /\ hEpoll'[g] = hEpoll[g],
           hEpoll'[f] = IF Http!Con(f)'.writeEnabled THEN "inout" ELSE "in",
           Served(tokens[hOwner[f]], out'[hOwner[f]], hInput'[hOwner[f]], Http!Con(f)'),
           hReady' \subseteq hReady, <<f, "out">> \notin hReady'
    PROVE  HttpInv'
<1> DEFINE c == hOwner[f]
<1>0. HttpFrame /\ HttpReports /\ Http!InterestMatches
  BY DEF HttpInv
<1>1. c \in Conns /\ ~Fresh(hPeer, hBacklog, c) /\ \A g \in ClientFds : hOwner[g] = c => g = f
  BY HttpOnlyFd
<1>2. HttpFrame'
  BY <1>0 DEF HttpFrame
<1>3. HttpReports'
  <2>1. \A x : x \in hReady' => x \in hReady
    OBVIOUS
  <2> QED BY <1>0, <2>1 DEF HttpReports
<1>4. Http!InterestMatches'
  <2>1. \A g \in ClientFds : g # f => Http!Con(g)' = Http!Con(g)
    BY DEF Http!Con, Http!NewCon
  <2>2. ASSUME NEW g \in ClientFds
        PROVE  IF hOwner'[g] = None
                 THEN hEpoll'[g] = "no" /\ cons'[g] = None
                 ELSE hEpoll'[g] = IF Http!Con(g)'.writeEnabled THEN "inout" ELSE "in"
    <3>1. CASE g = f
      BY <3>1
    <3>2. CASE g # f
      BY <1>0, <2>1, <3>2 DEF Http!InterestMatches
    <3> QED BY <3>1, <3>2
  <2> QED BY <2>2 DEF Http!InterestMatches
<1>5. /\ \A d \in Conns : d # c => /\ tokens'[d] = tokens[d] /\ hInput'[d] = hInput[d]
                                   /\ out'[d] = out[d]
      /\ \A g \in ClientFds : hOwner'[g] # None => hOwner'[g] = hOwner[g]
      /\ \A g \in ClientFds : hOwner[g] # c => cons'[g] = cons[g]
      /\ \A g \in ClientFds : hOwner'[g] = c =>
            Served(tokens'[c], out'[c], hInput'[c], Http!Con(g)')
  BY <1>1
<1> HIDE DEF c
<1> QED BY <1>1, <1>2, <1>3, <1>4, <1>5, HttpTouch

\* sendRes() for a request that has been read.
LEMMA HttpAnswers ==
    ASSUME HttpInv, NEW f \in ClientFds, hOwner[f] # None,
           UNCHANGED <<hPeer, tokens, hBacklog, reading>>,
           hInput' \in [Conns -> Seq({"x", "end"})],
           \A d \in Conns : d # hOwner[f] => hInput'[d] = hInput[d],
           NEW con \in ConType, NEW n \in Nat, NEW k \in Nat,
           BeingAnswered(n, tokens[hOwner[f]], out[hOwner[f]], hInput'[hOwner[f]], con),
           Http!SendRes(f, con, k),
           hReady' \subseteq hReady, <<f, "out">> \notin hReady'
    PROVE  HttpInv'
<1> DEFINE c == hOwner[f]
           new == [con EXCEPT !.written = con.written + k, !.writeEnabled = TRUE]
           left == ResLen - con.written
<1>0. HttpFrame /\ c \in Conns /\ out[c] \in Nat /\ tokens[c] \in Nat /\ hInput'[c] \in Seq(Tokens)
  BY HttpOnlyFd DEF HttpInv, HttpFrame, Tokens
<1>1. /\ k <= left /\ out' = [out EXCEPT ![c] = out[c] + k] /\ hOwner' = hOwner
      /\ k = left => /\ cons' = [cons EXCEPT ![f] = None]
                     /\ hEpoll' = [hEpoll EXCEPT ![f] = "in"]
      /\ k # left => /\ cons' = [cons EXCEPT ![f] = new]
                     /\ hEpoll' = [hEpoll EXCEPT ![f] = "inout"]
  BY DEF Http!SendRes
<1>2. con.written \in 0 .. ResLen - 1 /\ ResLen \in Nat
  BY ReactorsAssumption DEF ConType
<1>3. k # left => /\ new \in ConType /\ new.readed = con.readed /\ new.written = con.written + k
                  /\ new.writeEnabled = TRUE
  <2> SUFFICES ASSUME k # left
               PROVE  /\ new \in ConType /\ new.readed = con.readed
                      /\ new.written = con.written + k /\ new.writeEnabled = TRUE
    OBVIOUS
  <2>1. con.written + k \in 0 .. ResLen - 1
    BY <1>1, <1>2
  <2> QED BY <2>1 DEF ConType
<1>4. /\ k = left => Served(tokens[c], out[c] + k, hInput'[c], Http!NewCon)
      /\ k # left => Served(tokens[c], out[c] + k, hInput'[c], new)
  <2> DEFINE t == tokens[c]
             o == out[c]
             i == hInput'[c]
  <2>1. t \in Nat /\ o \in Nat /\ i \in Seq(Tokens) /\ BeingAnswered(n, t, o, i, con)
    BY <1>0
  <2> HIDE DEF t, o, i, c, new
  <2>2. /\ k = left => Served(t, o + k, i, Http!NewCon)
        /\ k # left => Served(t, o + k, i, new)
    BY <1>3, <2>1, ServedAnswer
  <2> QED BY <2>2 DEF t, o, i
<1> HIDE DEF new, left
<1>5. /\ out' \in [Conns -> Nat] /\ out'[c] = out[c] + k
      /\ \A d \in Conns : d # c => out'[d] = out[d]
  <2>1. out[c] + k \in Nat
    BY <1>0
  <2> QED BY <1>0, <1>1, <2>1 DEF HttpFrame
<1>6. /\ cons' \in [ClientFds -> ConType \cup {None}]
      /\ hEpoll' \in [ClientFds -> {"no", "in", "inout"}]
      /\ \A g \in ClientFds : g # f => cons'[g] = cons[g] /\ hEpoll'[g] = hEpoll[g]
      /\ k = left => cons'[f] = None /\ hEpoll'[f] = "in"
      /\ k # left => cons'[f] = new /\ hEpoll'[f] = "inout"
  BY <1>0, <1>1, <1>3 DEF HttpFrame
<1>7. /\ k = left => Http!Con(f)' = Http!NewCon /\ Http!NewCon.writeEnabled = FALSE
      /\ k # left => Http!Con(f)' = new
  BY <1>3, <1>6, HttpSizes DEF Http!Con, Http!NewCon
<1>8. hEpoll'[f] = IF Http!Con(f)'.writeEnabled THEN "inout" ELSE "in"
  BY <1>3, <1>6, <1>7
<1>9. Served(tokens[c], out'[c], hInput'[c], Http!Con(f)')
  BY <1>4, <1>5, <1>7
<1>10. \A d \in Conns : d # c => hInput'[d] = hInput[d] /\ out'[d] = out[d]
  BY <1>5
<1>11. UNCHANGED <<hPeer, tokens, hBacklog, hOwner, reading>>
  BY <1>1
<1> QED BY <1>5, <1>6, <1>8, <1>9, <1>10, <1>11, HttpUpdates

\* handleRead() gets data, or the end.
LEMMA HttpReads ==
    ASSUME HttpInv, Http!ReadData \/ Http!ReadEnd
    PROVE  HttpInv'
<1> DEFINE f == reading
           c == hOwner[f]
           i == hInput[c]
<1>0. /\ HttpFrame /\ HttpReports /\ Http!InterestMatches /\ HttpFlow
      /\ reading # None /\ reading \in ClientFds /\ hOwner[f] # None
      /\ <<f, "in">> \notin hReady /\ <<f, "out">> \notin hReady
      /\ UNCHANGED <<hPeer, tokens, hBacklog, hReady>>
  BY DEF HttpInv, HttpReports, Http!ReadData, Http!ReadEnd, Http!netVars
<1>1. c \in Conns /\ i \in Seq(Tokens) /\ tokens[c] \in Nat /\ out[c] \in Nat
      /\ Http!Con(f) \in ConType /\ Served(tokens[c], out[c], i, Http!Con(f))
  BY <1>0, HttpOnlyFd, ConOf DEF HttpFrame, HttpFlow, Tokens
<1>2. CASE Http!ReadEnd
  <2>1. Http!Closed(f) /\ reading' = None /\ UNCHANGED <<hInput, out>>
    BY <1>2 DEF Http!ReadEnd
  <2>2. hInput' \in [Conns -> Seq({"x", "end"})] /\ \A d \in Conns : hInput'[d] = hInput[d]
    BY <1>0, <2>1 DEF HttpFrame
  <2> QED BY <1>0, <2>1, <2>2, HttpCloses
<1>3. CASE Http!ReadData
  <2> DEFINE b(n) == SubSeq(i, n + 1, Len(i))
             con(n) == [Http!Con(f) EXCEPT !.readed = Http!Con(f).readed \o SubSeq(i, 1, n)]
  <2>1. i # <<>>
    BY <1>3 DEF Http!ReadData
  <2>2. PICK n \in 1 .. Len(i) :
          /\ hInput' = [hInput EXCEPT ![c] = b(n)]
          /\ IF ~Http!Complete(con(n).readed)
               THEN /\ cons' = [cons EXCEPT ![f] = con(n)]
                    /\ UNCHANGED <<hOwner, hEpoll, out, reading>>
               ELSE \/ \E k \in 0 .. ResLen : Http!SendRes(f, con(n), k) /\ UNCHANGED reading
                    \/ Http!Closed(f) /\ reading' = None /\ UNCHANGED out
    BY <1>3 DEF Http!ReadData
  <2> DEFINE new == con(n)
             rest == b(n)
             old == Http!Con(f)
             a == SubSeq(i, 1, n)
  <2>3. n \in 0 .. Len(i) /\ Len(i) \in Nat
    BY <1>1, LenProperties
  <2>4. a \in Seq(Tokens) /\ rest \in Seq(Tokens)
    <3> HIDE DEF i
    <3> QED BY <1>1, <2>3, CutInTwo
  <2>5. new \in ConType /\ new.writeEnabled = old.writeEnabled
    <3>1. old.readed \in Seq(Tokens)
      BY <1>1 DEF ConType, Tokens
    <3> HIDE DEF a, old
    <3>2. old.readed \o a \in Seq({"x", "end"})
      BY <2>4, <3>1, ConcatProperties DEF Tokens
    <3>3. new = [old EXCEPT !.readed = old.readed \o a]
      BY DEF old, a
    <3>4. old \in ConType
      BY <1>1 DEF old
    <3> HIDE DEF new
    <3> QED BY <3>2, <3>3, <3>4 DEF ConType
  <2>6. /\ ~Http!Complete(new.readed) => Served(tokens[c], out[c], rest, new)
        /\ Http!Complete(new.readed)
             => \E m \in Nat : BeingAnswered(m, tokens[c], out[c], rest, new)
    <3> DEFINE t == tokens[c]
               o == out[c]
    <3>1. /\ t \in Nat /\ o \in Nat /\ i \in Seq(Tokens) /\ old \in ConType
          /\ Served(t, o, i, old) /\ i # <<>> /\ n \in 1 .. Len(i) /\ new \in ConType
          /\ new = [old EXCEPT !.readed = old.readed \o SubSeq(i, 1, n)]
          /\ rest = SubSeq(i, n + 1, Len(i))
      BY <1>1, <2>1, <2>5
    <3> HIDE DEF t, o, i, old, new, rest
    <3>2. /\ ~Http!Complete(new.readed) => Served(t, o, SubSeq(i, n + 1, Len(i)), new)
          /\ Http!Complete(new.readed)
               => \E m \in Nat : BeingAnswered(m, t, o, SubSeq(i, n + 1, Len(i)), new)
      BY <3>1, ServedRead
    <3> QED BY <3>1, <3>2 DEF t, o
  <2>7. /\ hInput' = [hInput EXCEPT ![c] = rest]
        /\ ~Http!Complete(new.readed) => /\ cons' = [cons EXCEPT ![f] = new]
                                         /\ UNCHANGED <<hOwner, hEpoll, out, reading>>
        /\ Http!Complete(new.readed) =>
             \/ \E k \in 0 .. ResLen : Http!SendRes(f, new, k) /\ UNCHANGED reading
             \/ Http!Closed(f) /\ reading' = None /\ UNCHANGED out
    BY <2>2
  <2> HIDE DEF new, rest, i, old, a
  <2>8. /\ hInput' \in [Conns -> Seq({"x", "end"})] /\ hInput'[c] = rest
        /\ \A d \in Conns : d # c => hInput'[d] = hInput[d]
    BY <1>0, <1>1, <2>4, <2>7 DEF HttpFrame, Tokens
  <2>9. CASE ~Http!Complete(new.readed)
    <3>1. /\ cons' \in [ClientFds -> ConType \cup {None}] /\ cons'[f] = new
          /\ \A g \in ClientFds : g # f => cons'[g] = cons[g]
      BY <1>0, <2>5, <2>7, <2>9 DEF HttpFrame
    <3>2. Http!Con(f)' = new
      <4>1. (IF cons'[f] = None THEN Http!NewCon ELSE cons'[f]) = new
        BY <2>5, <3>1, HttpSizes
      <4>2. reading' = reading
        BY <2>7, <2>9
      <4> QED BY <4>1, <4>2 DEF Http!Con, Http!NewCon
    <3>3. hEpoll[f] = IF Http!Con(f).writeEnabled THEN "inout" ELSE "in"
      BY <1>0 DEF Http!InterestMatches
    <3>4. hEpoll'[f] = IF Http!Con(f)'.writeEnabled THEN "inout" ELSE "in"
      BY <2>5, <2>7, <2>9, <3>2, <3>3 DEF old
    <3>5. Served(tokens[c], out'[c], hInput'[c], Http!Con(f)')
      BY <2>6, <2>7, <2>8, <2>9, <3>2
    <3>6. /\ UNCHANGED <<hOwner, hEpoll, out, reading>>
          /\ hEpoll' \in [ClientFds -> {"no", "in", "inout"}] /\ out' \in [Conns -> Nat]
      BY <1>0, <2>7, <2>9 DEF HttpFrame
    <3> HIDE DEF f
    <3> QED BY <1>0, <2>8, <3>1, <3>4, <3>5, <3>6, HttpUpdates DEF f
  <2>10. CASE Http!Complete(new.readed)
    <3>1. PICK m \in Nat : BeingAnswered(m, tokens[c], out[c], hInput'[c], new)
      BY <2>6, <2>8, <2>10
    <3>2. ASSUME NEW k \in 0 .. ResLen, Http!SendRes(f, new, k), UNCHANGED reading
          PROVE  HttpInv'
      <4>1. k \in Nat
        BY ReactorsAssumption
      <4> QED BY <1>0, <2>5, <2>8, <3>1, <3>2, <4>1, HttpAnswers
    <3>3. CASE Http!Closed(f) /\ reading' = None /\ UNCHANGED out
      BY <1>0, <2>8, <3>3, HttpCloses
    <3> QED BY <2>7, <2>10, <3>2, <3>3
  <2> QED BY <2>9, <2>10
<1> QED BY <1>2, <1>3

\* handleWrite(): a response is under way, since the write event was asked for.
LEMMA HttpWrites ==
    ASSUME HttpInv, NEW f \in ClientFds, Http!HandleWrite(f)
    PROVE  HttpInv'
<1> DEFINE c == hOwner[f]
           con == Http!Con(f)
<1>0. /\ HttpFrame /\ HttpReports /\ Http!InterestMatches /\ HttpFlow
      /\ reading = None /\ <<f, "out">> \in hReady /\ hReady' = hReady \ {<<f, "out">>}
      /\ UNCHANGED <<hPeer, tokens, hBacklog, hInput, reading>>
  BY DEF HttpInv, Http!HandleWrite, Http!netVars
<1>1. hEpoll[f] = "inout" /\ <<f, "in">> \notin hReady
  BY <1>0 DEF HttpReports
<1>2. hOwner[f] # None /\ con.writeEnabled
  BY <1>0, <1>1 DEF Http!InterestMatches
<1>3. /\ hReady' \subseteq hReady /\ <<f, "in">> \notin hReady' /\ <<f, "out">> \notin hReady'
      /\ hInput' \in [Conns -> Seq({"x", "end"})] /\ con \in ConType
      /\ \A d \in Conns : hInput'[d] = hInput[d]
  BY <1>0, <1>1, ConOf DEF HttpFrame
<1>4. Served(tokens[c], out[c], hInput[c], con)
  BY <1>0, <1>2 DEF HttpFlow
<1>5. PICK n \in Nat : BeingAnswered(n, tokens[c], out[c], hInput[c], con)
  BY <1>2, <1>4 DEF Served, Rests, HalfSent, Asked
<1>6. ASSUME NEW k \in 1 .. ResLen, Http!SendRes(f, con, k)
      PROVE  HttpInv'
  <2>1. k \in Nat /\ hInput'[c] = hInput[c]
    BY <1>0, ReactorsAssumption
  <2>2. BeingAnswered(n, tokens[c], out[c], hInput'[c], con)
    BY <1>5, <2>1
  <2> HIDE DEF con
  <2> QED BY <1>0, <1>2, <1>3, <1>6, <2>1, <2>2, HttpAnswers
<1>7. CASE Http!Closed(f) /\ UNCHANGED out
  BY <1>0, <1>2, <1>3, <1>7, HttpCloses
<1> QED BY <1>6, <1>7 DEF Http!HandleWrite

\* Every step of the HTTP server.
LEMMA HttpStep == HttpInv /\ [Http!Next]_hVars => HttpInv'
<1> SUFFICES ASSUME HttpInv, [Http!Next]_hVars PROVE HttpInv'
  OBVIOUS
<1>1. ASSUME NEW c \in Conns, Http!Connect(c) \/ Http!ClientSend(c) \/ Http!ClientClose(c)
      PROVE  HttpInv'
  BY <1>1, HttpClientMoves, HttpSends
<1>2. CASE Http!Server
  BY <1>2, HttpWaits, HttpAccepts, HttpReads, HttpWrites DEF Http!Server
<1>3. CASE Http!EpollTimeout \/ Http!Ended \/ UNCHANGED hVars
  BY <1>3, HttpWaits
<1> QED BY <1>1, <1>2, <1>3 DEF Http!Next

\* What the invariant says of the responses.
LEMMA HttpSound == HttpInv => Http!ResponseExact /\ Http!InterestMatches
<1> SUFFICES ASSUME HttpInv PROVE Http!ResponseExact
  BY DEF HttpInv
<1> SUFFICES ASSUME NEW f \in ClientFds, hOwner[f] # None
             PROVE  /\ out[hOwner[f]] % ResLen = Http!Con(f).written
                    /\ out[hOwner[f]] <= ResLen * (tokens[hOwner[f]] \div 2)
  BY DEF Http!ResponseExact
<1> DEFINE t == tokens[hOwner[f]]
           o == out[hOwner[f]]
           con == Http!Con(f)
           i == hInput[hOwner[f]]
<1>1. hOwner[f] \in Conns
  BY HttpOnlyFd
<1>2. t \in Nat /\ o \in Nat /\ con \in ConType /\ Served(t, o, i, con)
  BY <1>1, ConOf DEF HttpInv, HttpFrame, HttpFlow
<1> HIDE DEF t, o, con, i
<1>3. o % ResLen = con.written /\ o <= ResLen * (t \div 2)
  BY <1>2, ServedExact
<1> QED BY <1>3 DEF t, o, con

-----------------------------------------------------------------------------
(* The suite. *)

ReactorsInv == SrvInv /\ NtyInv /\ HttpInv

\* A behaviour runs one of the servers; the others stay as they were made.
LEMMA ReactorsInductive ==
    /\ Init => ReactorsInv
    /\ ReactorsInv /\ [Next]_allVars => ReactorsInv'
<1>1. Init => ReactorsInv
  BY SrvInit, NtyInit, HttpInit DEF Init, ReactorsInv
<1>2. ASSUME ReactorsInv, [Next]_allVars PROVE ReactorsInv'
  <2>1. [Srv!Next]_sVars
    BY <1>2 DEF Next, NtyOnly, HttpOnly, allVars
  <2>2. [Nty!Next]_nVars
    BY <1>2 DEF Next, SrvOnly, HttpOnly, allVars
  <2>3. [Http!Next]_hVars
    BY <1>2 DEF Next, SrvOnly, NtyOnly, allVars
  <2> QED BY <1>2, <2>1, <2>2, <2>3, SrvStep, NtyStep, HttpStep DEF ReactorsInv
<1> QED BY <1>1, <1>2

\* reactor_server: a registered client that has something to read, or has closed, is in
\* epoll, in the main thread's batch, on the list or with a worker, although the descriptors
\* are edge-triggered and handled by many threads.
THEOREM NoLostEdgeHolds == Spec => []NoLostEdge
<1>1. ReactorsInv => NoLostEdge
  BY DEF ReactorsInv, SrvInv, NoLostEdge
<1> QED BY <1>1, ReactorsInductive, PTL DEF Spec

\* reactor_server: while a worker sleeps, every client on the list has a worker that looks
\* for it or the main thread's notification to come.
THEOREM ListedHasWorkerHolds == Spec => []ListedHasWorker
<1>1. ReactorsInv => ListedHasWorker
  BY DEF ReactorsInv, SrvInv, ListedHasWorker
<1> QED BY <1>1, ReactorsInductive, PTL DEF Spec

\* my_reactor: the slot accept_callback() has searched is the one its descriptor indexes, and
\* a slot is in use exactly while its descriptor is open and registered with the slot's mask.
THEOREM SlotIsFdHolds == Spec => []SlotIsFd
<1>1. ReactorsInv => SlotIsFd
  BY NtySound DEF ReactorsInv, SlotIsFd
<1> QED BY <1>1, ReactorsInductive, PTL DEF Spec

\* my_reactor: no byte is echoed twice, out of order or to another client, however
\* descriptors and slots are reused and however short send() is.
THEOREM BytesAccountedHolds == Spec => []BytesAccounted
<1>1. ReactorsInv => BytesAccounted
  BY NtySound DEF ReactorsInv, BytesAccounted
<1> QED BY <1>1, ReactorsInductive, PTL DEF Spec

\* socket/epoll.cpp: a client gets whole responses and the part under way, never more than it
\* has asked for, and write interest lasts exactly as long as a response is under way.
THEOREM ResponseExactHolds == Spec => []ResponseExact
<1>1. ReactorsInv => ResponseExact
  BY HttpSound DEF ReactorsInv, ResponseExact
<1> QED BY <1>1, ReactorsInductive, PTL DEF Spec

=============================================================================
