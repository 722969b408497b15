---------------------------- MODULE Philosophers ----------------------------
(***************************************************************************)
(* The dining philosophers of cpp/thread/eat_think.cpp: lock the left       *)
(* chopstick, trylock the right one, and on EBUSY put the left one back.    *)
(* Philosopher i (A = 1 ... E = 5) has the chopsticks Left(i) and i; the    *)
(* source has five of them.                                                 *)
(***************************************************************************)
EXTENDS Naturals, FiniteSets

CONSTANTS N,      \* number of philosophers
          Nobody

VARIABLES chopstick,  \* the philosopher holding it, or Nobody
          pc          \* "left", "right", "back", "eat", "release"

vars == <<chopstick, pc>>
Phil == 1 .. N

\* The switch over 'A' .. 'E': left is 5, 1, 2, 3, 4 and right 1, 2, 3, 4, 5.
Left(i) == IF i = 1 THEN N ELSE i - 1
Right(i) == i

TypeOK ==
    /\ chopstick \in [Phil -> Phil \cup {Nobody}]
    /\ pc \in [Phil -> {"left", "right", "back", "eat", "release"}]

Init == chopstick = [i \in Phil |-> Nobody] /\ pc = [i \in Phil |-> "left"]

\* pthread_mutex_lock(&chopstick[left])
TakeLeft(i) ==
    /\ pc[i] = "left" /\ chopstick[Left(i)] = Nobody
    /\ chopstick' = [chopstick EXCEPT ![Left(i)] = i]
    /\ pc' = [pc EXCEPT ![i] = "right"]

\* Mutant: the result of trylock is not looked at.
TryRight_Ignored(i) ==
    /\ pc[i] = "right"
    /\ chopstick' = IF chopstick[Right(i)] = Nobody
                      THEN [chopstick EXCEPT ![Right(i)] = i] ELSE chopstick
    /\ pc' = [pc EXCEPT ![i] = "eat"]

\* pthread_mutex_trylock(&chopstick[right])
TryRight(i) ==
    /\ pc[i] = "right"
    /\ IF chopstick[Right(i)] = Nobody
         THEN /\ chopstick' = [chopstick EXCEPT ![Right(i)] = i]
              /\ pc' = [pc EXCEPT ![i] = "eat"]
         ELSE /\ pc' = [pc EXCEPT ![i] = "back"]
              /\ UNCHANGED chopstick

\* Mutant: tries again without putting the left one back.
PutBack_Keeps(i) ==
    /\ pc[i] = "back"
    /\ pc' = [pc EXCEPT ![i] = "right"]
    /\ UNCHANGED chopstick

\* EBUSY: unlock the left one and start again.
PutBack(i) ==
    /\ pc[i] = "back"
    /\ chopstick' = [chopstick EXCEPT ![Left(i)] = Nobody]
    /\ pc' = [pc EXCEPT ![i] = "left"]

\* Has eaten: unlock left ...
ReleaseLeft(i) ==
    /\ pc[i] = "eat"
    /\ chopstick' = [chopstick EXCEPT ![Left(i)] = Nobody]
    /\ pc' = [pc EXCEPT ![i] = "release"]

\* Mutant: the left chopstick is released twice, the right one never.
ReleaseRight_Wrong(i) ==
    /\ pc[i] = "release"
    /\ chopstick' = [chopstick EXCEPT ![Left(i)] = Nobody]
    /\ pc' = [pc EXCEPT ![i] = "left"]

\* ... then right.
ReleaseRight(i) ==
    /\ pc[i] = "release"
    /\ chopstick' = [chopstick EXCEPT ![Right(i)] = Nobody]
    /\ pc' = [pc EXCEPT ![i] = "left"]

Step(i) ==
    \/ TakeLeft(i) \/ TryRight(i) \/ PutBack(i)
    \/ ReleaseLeft(i) \/ ReleaseRight(i)
Next == \E i \in Phil : Step(i)
Spec == Init /\ [][Next]_vars
FairSpec == Spec /\ \A i \in Phil : WF_vars(Step(i))

-----------------------------------------------------------------------------
\* The chopsticks a philosopher has to hold where it stands.
Holds(i) ==
    CASE pc[i] = "left" -> {}
      [] pc[i] \in {"right", "back"} -> {Left(i)}
      [] pc[i] = "eat" -> {Left(i), Right(i)}
      [] pc[i] = "release" -> {Right(i)}

\* Each philosopher holds exactly the chopsticks its position in the loop
\* requires, so every unlock is of a mutex the caller owns.
OwnsWhatItUnlocks == \A i \in Phil : {c \in Phil : chopstick[c] = i} = Holds(i)

\* Neighbours never eat at the same time.
NeighboursApart == \A i \in Phil : pc[i] = "eat" => pc[Left(i)] # "eat"

\* Nobody keeps a chopstick for ever: it is put back after a failed trylock or
\* after the meal.
PutsDown == \A i \in Phil : pc[i] # "left" ~> pc[i] = "left"

=============================================================================
