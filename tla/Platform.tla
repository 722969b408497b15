------------------------------ MODULE Platform ------------------------------
(***************************************************************************)
(* What the programs rely on outside the repository, as they use it: the    *)
(* C++ and POSIX synchronisation primitives and the kernel's descriptors.   *)
(* These operators stand for library and kernel code and are marked         *)
(* external.                                                                *)
(***************************************************************************)
EXTENDS Naturals

(* A std::condition_variable (or pthread_cond_t) is the set of the threads   *)
(* blocked on it.  A thread that has been woken leaves the set and still has *)
(* to re-acquire the mutex before it re-evaluates its predicate.             *)

\* The wait sets that notify_one() may leave: nothing happens when nobody
\* waits, otherwise the library picks any one waiter.
WakeOne(waiters) ==
    IF waiters = {} THEN {{}} ELSE {waiters \ {w} : w \in waiters}

\* The wait set that notify_all() leaves.
WakeAll(waiters) == {}

\* wait() is allowed to return although nobody called notify.
SpuriousWake(waiters) == {waiters \ {w} : w \in waiters}

-----------------------------------------------------------------------------
(* How descriptors are numbered, and when epoll reports one.  owner maps     *)
(* every descriptor to the connection it is open on, or to None.             *)

\* accept() returns the lowest descriptor that is not open.
FreeFds(owner, None) == {f \in DOMAIN owner : owner[f] = None}
LowestFree(owner, None) ==
    CHOOSE f \in FreeFds(owner, None) : \A g \in FreeFds(owner, None) : f <= g

\* A connection is readable when it has unread bytes or its peer has closed:
\* read() then returns the bytes, or 0.
Readable(unread, peer, c) == unread[c] > 0 \/ peer[c] = "closed"

=============================================================================
