--------------------------- MODULE SafeQueueProofs --------------------------
(***************************************************************************)
(* TLAPS proofs about SafeQueue, for any sets of pushers and poppers, any   *)
(* capacity and any number of items.                                        *)
(***************************************************************************)
EXTENDS SafeQueue, SharedLemmas

\* The end of input is reported only when finished() has been called, on an
\* empty queue, and a popper decides to wait on an empty queue only.
Flags ==
    /\ sawEnd => _finished
    /\ sawEnd => _queue = <<>>
    /\ \A c \in Poppers : pc[c] = "wait" => _queue = <<>>

\* The inductive invariant.
IInv == TypeOK /\ Fifo /\ Bounded /\ SleepersHaveReason /\ Flags /\ EndIsFinal

-----------------------------------------------------------------------------
\* The invariant holds of a freshly constructed queue.
LEMMA InitInv == Init => IInv
<1> SUFFICES ASSUME Init PROVE IInv
  OBVIOUS
<1>1. TypeOK
  <2>1. _quit \in BOOLEAN /\ _finished \in BOOLEAN /\ sawEnd \in BOOLEAN
    BY DEF Init
  <2>2. pc \in [Threads -> {"idle", "lock", "inside", "wait"}] /\ \A x \in Threads : pc[x] = "idle"
    BY DEF Init
  <2>3. \A x \in Threads : x # Nobody
    BY QueueAssumption DEF Threads
  <2>4. _queue \in Seq(Nat) /\ pushed \in Seq(Nat) /\ popped \in Seq(Nat)
    BY EmptySeq DEF Init
  <2> QED BY <2>1, <2>2, <2>3, <2>4 DEF Init, TypeOK
<1>2. Fifo
  BY ConcatEmptySeq, EmptySeq DEF Init, Fifo
<1>3. Bounded /\ SleepersHaveReason
  BY QueueAssumption, EmptySeq DEF Init, Bounded, SleepersHaveReason
<1>4. Flags /\ EndIsFinal
  BY DEF Init, Flags, EndIsFinal
<1> QED BY <1>1, <1>2, <1>3, <1>4 DEF IInv

\* push() adds one item to the queue.
LEMMA PushFacts ==
    ASSUME TypeOK, NEW p \in Pushers, Push(p)
    PROVE  /\ _queue' \in Seq(Nat) /\ pushed' \in Seq(Nat)
           /\ Len(_queue') = Len(_queue) + 1 /\ _queue' # <<>>
<1>1. Len(pushed) + 1 \in Nat
  BY DEF TypeOK
<1>2. _queue \in Seq(Nat) /\ pushed \in Seq(Nat)
  BY DEF TypeOK
<1>3. \A s \in Seq(Nat), e \in Nat :
        Append(s, e) \in Seq(Nat) /\ Len(Append(s, e)) = Len(s) + 1 /\ Append(s, e) # <<>>
  BY AppendProperties
<1> QED BY <1>1, <1>2, <1>3 DEF Push

\* pop() takes one item off the queue.
LEMMA PopFacts ==
    ASSUME TypeOK, NEW c \in Poppers, Pop(c)
    PROVE  /\ _queue' \in Seq(Nat) /\ popped' \in Seq(Nat)
           /\ Len(_queue') = Len(_queue) - 1
<1>1. _queue # <<>> /\ _queue \in Seq(Nat)
  BY DEF Pop, TypeOK
<1>2. Head(_queue) \in Nat /\ Tail(_queue) \in Seq(Nat) /\ Len(Tail(_queue)) = Len(_queue) - 1
  BY <1>1, HeadTailProperties
<1> QED BY <1>2, AppendProperties DEF Pop, TypeOK

\* Type correctness, with the ownership of the lock, is preserved.
LEMMA TypeStep == TypeOK /\ [Next]_vars => TypeOK'
<1> SUFFICES ASSUME TypeOK, [Next]_vars PROVE TypeOK'
  OBVIOUS
<1> USE QueueAssumption DEF TypeOK, Threads
<1>1. ASSUME NEW x \in Threads, Call(x) PROVE TypeOK'
  BY <1>1 DEF Call
<1>2. ASSUME NEW p \in Pushers, PushStep(p) PROVE TypeOK'
  <2>1. CASE PushTest(p)
    BY <2>1 DEF PushTest, CanLock
  <2>2. CASE Push(p)
    <3>1. _queue' \in Seq(Nat) /\ pushed' \in Seq(Nat)
      BY <2>2, PushFacts
    <3> QED BY <2>2, <3>1 DEF Push, WakeAll
  <2>3. CASE PushWait(p)
    BY <2>3 DEF PushWait
  <2> QED BY <1>2, <2>1, <2>2, <2>3 DEF PushStep
<1>3. ASSUME NEW c \in Poppers, PopStep(c) PROVE TypeOK'
  <2>1. CASE PopTest(c)
    BY <2>1 DEF PopTest, CanLock
  <2>2. CASE Pop(c)
    <3>1. _queue' \in Seq(Nat) /\ popped' \in Seq(Nat)
      BY <2>2, PopFacts
    <3> QED BY <2>2, <3>1 DEF Pop, WakeAll
  <2>3. CASE PopEnd(c)
    BY <2>3 DEF PopEnd
  <2>4. CASE PopDecide(c)
    BY <2>4 DEF PopDecide
  <2>5. CASE PopWait(c)
    BY <2>5 DEF PopWait
  <2> QED BY <1>3, <2>1, <2>2, <2>3, <2>4, <2>5 DEF PopStep
<1>4. CASE Spurious
  <2>1. _empty' \subseteq _empty /\ _fullQue' \subseteq _fullQue
    BY <1>4 DEF Spurious, SpuriousWake
  <2> QED BY <1>4, <2>1 DEF Spurious
<1>5. CASE Quit \/ Finished
  BY <1>5 DEF Quit, Finished, threadVars
<1>6. CASE NotifyEmpty \/ NotifyFull
  <2>1. ctl' \in SUBSET {"empty", "full"}
    BY <1>6 DEF NotifyEmpty, NotifyFull
  <2>2. _empty' \subseteq _empty /\ _fullQue' \subseteq _fullQue
    BY <1>6 DEF NotifyEmpty, NotifyFull, WakeAll
  <2> QED BY <1>6, <2>1, <2>2 DEF NotifyEmpty, NotifyFull
<1>7. CASE UNCHANGED vars
  BY <1>7 DEF vars, threadVars
<1> QED
  BY <1>1, <1>2, <1>3, <1>4, <1>5, <1>6, <1>7 DEF Next

\* Nothing is lost, duplicated or reordered by any step.
LEMMA FifoStep == TypeOK /\ Fifo /\ [Next]_vars => Fifo'
<1> SUFFICES ASSUME TypeOK, Fifo, [Next]_vars PROVE Fifo'
  OBVIOUS
<1>1. ASSUME NEW p \in Pushers, Push(p) PROVE Fifo'
  <2> DEFINE e == Len(pushed) + 1
  <2>1. /\ e \in Nat /\ _queue \in Seq(Nat) /\ popped \in Seq(Nat) /\ pushed \in Seq(Nat)
        /\ <<e>> \in Seq(Nat)
    BY DEF TypeOK
  <2>2. Append(pushed, e) = pushed \o <<e>> /\ Append(_queue, e) = _queue \o <<e>>
    BY <2>1, AppendIsConcat
  <2>3. (popped \o _queue) \o <<e>> = popped \o (_queue \o <<e>>)
    BY <2>1, ConcatAssociative
  <2> QED BY <1>1, <2>2, <2>3 DEF Push, Fifo
<1>2. ASSUME NEW c \in Poppers, Pop(c) PROVE Fifo'
  <2>1. _queue \in Seq(Nat) /\ popped \in Seq(Nat) /\ _queue # <<>>
    BY <1>2 DEF Pop, TypeOK
  <2>2. _queue = <<Head(_queue)>> \o Tail(_queue)
    BY <2>1
  <2>3. Head(_queue) \in Nat /\ Tail(_queue) \in Seq(Nat)
    BY <2>1, HeadTailProperties
  <2>4. <<Head(_queue)>> \in Seq(Nat)
    BY <2>3
  <2>5. Append(popped, Head(_queue)) = popped \o <<Head(_queue)>>
    BY <2>1, <2>3, AppendIsConcat
  <2>6. (popped \o <<Head(_queue)>>) \o Tail(_queue) = popped \o _queue
    BY <2>1, <2>2, <2>3, <2>4, ConcatAssociative
  <2> QED BY <1>2, <2>5, <2>6 DEF Pop, Fifo
<1>3. CASE UNCHANGED <<_queue, pushed, popped>>
  BY <1>3 DEF Fifo
<1> QED
  BY <1>1, <1>2, <1>3 DEF Next, vars, threadVars, PushStep, PopStep, Call, PushTest,
     PushWait, PopTest, PopEnd, PopDecide, PopWait, Spurious, Quit, Finished,
     NotifyEmpty, NotifyFull

\* The bound and the reasons to sleep survive every step.
LEMMA SleepStep ==
    TypeOK /\ Flags /\ Bounded /\ SleepersHaveReason /\ [Next]_vars
        => Bounded' /\ SleepersHaveReason'
<1> SUFFICES ASSUME TypeOK, Flags, Bounded, SleepersHaveReason, [Next]_vars
             PROVE  Bounded' /\ SleepersHaveReason'
  OBVIOUS
<1> USE QueueAssumption DEF Bounded, SleepersHaveReason
<1>0. Len(_queue) \in Nat /\ (_queue = <<>> <=> Len(_queue) = 0)
  BY EmptySeq DEF TypeOK
<1>1. ASSUME NEW p \in Pushers, PushStep(p) PROVE Bounded' /\ SleepersHaveReason'
  <2>1. CASE PushTest(p)
    BY <2>1 DEF PushTest
  <2>2. CASE Push(p)
    BY <1>0, <2>2, PushFacts DEF Push, WakeAll
  <2>3. CASE PushWait(p)
    BY <1>0, <2>3 DEF PushWait
  <2> QED BY <1>1, <2>1, <2>2, <2>3 DEF PushStep
<1>2. ASSUME NEW c \in Poppers, PopStep(c) PROVE Bounded' /\ SleepersHaveReason'
  <2>1. CASE PopTest(c)
    BY <2>1 DEF PopTest
  <2>2. CASE Pop(c)
    BY <1>0, <2>2, PopFacts DEF Pop, WakeAll
  <2>3. CASE PopEnd(c)
    BY <2>3 DEF PopEnd
  <2>4. CASE PopDecide(c)
    BY <2>4 DEF PopDecide
  <2>5. CASE PopWait(c)
    BY <2>5 DEF PopWait, Flags
  <2> QED BY <1>2, <2>1, <2>2, <2>3, <2>4, <2>5 DEF PopStep
<1>3. CASE Spurious
  <2>1. _empty' \subseteq _empty /\ _fullQue' \subseteq _fullQue /\ _queue' = _queue
    BY <1>3 DEF Spurious, SpuriousWake
  <2> QED BY <2>1
<1>4. CASE NotifyEmpty \/ NotifyFull
  BY <1>4 DEF NotifyEmpty, NotifyFull, WakeAll
<1>5. CASE UNCHANGED <<_queue, _empty, _fullQue>>
  BY <1>5
<1> QED
  BY <1>1, <1>2, <1>3, <1>4, <1>5 DEF Next, vars, threadVars, Call, Quit, Finished

\* Reporting the end of input is final.
LEMMA FlagsStep ==
    TypeOK /\ Flags /\ EndIsFinal /\ [Next]_vars => Flags' /\ EndIsFinal'
<1> SUFFICES ASSUME TypeOK, Flags, EndIsFinal, [Next]_vars PROVE Flags' /\ EndIsFinal'
  OBVIOUS
<1> USE QueueAssumption DEF Flags, EndIsFinal, Threads, TypeOK
<1>1. ASSUME NEW x \in Threads, Call(x) PROVE Flags' /\ EndIsFinal'
  BY <1>1 DEF Call
<1>2. ASSUME NEW p \in Pushers, PushStep(p) PROVE Flags' /\ EndIsFinal'
  <2>1. CASE PushTest(p)
    BY <2>1 DEF PushTest, CanLock
  <2>2. CASE Push(p)
    BY <2>2 DEF Push
  <2>3. CASE PushWait(p)
    BY <2>3 DEF PushWait
  <2> QED BY <1>2, <2>1, <2>2, <2>3 DEF PushStep
<1>3. ASSUME NEW c \in Poppers, PopStep(c) PROVE Flags' /\ EndIsFinal'
  <2>1. CASE PopTest(c)
    BY <2>1 DEF PopTest, CanLock
  <2>2. CASE Pop(c)
    BY <2>2 DEF Pop
  <2>3. CASE PopEnd(c)
    BY <2>3 DEF PopEnd
  <2>4. CASE PopDecide(c)
    BY <2>4 DEF PopDecide
  <2>5. CASE PopWait(c)
    BY <2>5 DEF PopWait
  <2> QED BY <1>3, <2>1, <2>2, <2>3, <2>4, <2>5 DEF PopStep
<1>4. CASE Quit \/ Finished
  BY <1>4 DEF Quit, Finished, threadVars
<1>5. CASE UNCHANGED <<_queue, pc, sawEnd, _finished>>
  BY <1>5
<1> QED
  BY <1>1, <1>2, <1>3, <1>4, <1>5 DEF Next, vars, threadVars, Spurious, NotifyEmpty,
     NotifyFull

-----------------------------------------------------------------------------
\* The invariant holds in every reachable state.
LEMMA Invariance == Spec => []IInv
<1>1. IInv /\ [Next]_vars => IInv'
  BY TypeStep, FifoStep, SleepStep, FlagsStep DEF IInv
<1> QED BY InitInv, <1>1, PTL DEF Spec

\* Every variable keeps its type and a thread is inside push() or pop() exactly
\* when it owns _mutex.
THEOREM TypeCorrect == Spec => []TypeOK
<1>1. IInv => TypeOK
  BY DEF IInv
<1> QED BY Invariance, <1>1, PTL

\* Queue::push and Queue::pop neither lose, duplicate nor reorder an item.
THEOREM DeliversInOrder == Spec => []Fifo
<1>1. IInv => Fifo
  BY DEF IInv
<1> QED BY Invariance, <1>1, PTL

\* The queue never holds more than _size_max items.
THEOREM StaysBounded == Spec => []Bounded
<1>1. IInv => Bounded
  BY DEF IInv
<1> QED BY Invariance, <1>1, PTL

\* Nobody sleeps on _empty beside an item or on _fullQue beside a free slot.
THEOREM NoLostWakeup == Spec => []SleepersHaveReason
<1>1. IInv => SleepersHaveReason
  BY DEF IInv
<1> QED BY Invariance, <1>1, PTL

\* A pop() that returned false after finished() has seen the end of the data.
THEOREM EndOfInputIsFinal == Spec => []EndIsFinal
<1>1. IInv => EndIsFinal
  BY DEF IInv
<1> QED BY Invariance, <1>1, PTL

=============================================================================
