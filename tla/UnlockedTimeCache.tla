------------------------- MODULE UnlockedTimeCache --------------------------
(***************************************************************************)
(* The first clock cache, cpp/cpp_language/old/time_thread.cpp: a thread      *)
(* stores the clocks in plain structs and a plain counter of seconds, other    *)
(* threads copy them without a lock.  A struct is written and read field by    *)
(* field.  main() makes the four calls in turn, for ever (its 10 million        *)
(* rounds).                                                                   *)
(***************************************************************************)
EXTENDS Naturals

CONSTANTS NSEC,      \* clock steps per second
          MaxClock   \* bound on the clock

VARIABLES now,
          cacheOn,  \* the flags gDebugTimeCached_*
          structs,  \* _tv, tp_monotonic, tp_realtime: [sec, frac]
          seconds,  \* _seconds
          updater,  \* [at, time]: the next store of run() and the time it read
          caller,   \* [call, sec, result]: main()'s current call
          kept,     \* kept[call]: the seconds of its result before
          floor     \* floor[call]: the seconds the cache held when the call began

vars == <<now, cacheOn, structs, seconds, updater, caller, kept, floor>>

Structs == {"tv", "mono", "real"}
Calls == {"time", "tv", "real", "mono"}
\* run() stores tv, mono, real, _seconds; main() calls time, tv, real, mono.
Stored == [tv |-> "mono", mono |-> "real", real |-> "seconds", seconds |-> "tv"]
Called == [time |-> "tv", tv |-> "real", real |-> "mono", mono |-> "time"]
Split(t) == [sec |-> t \div NSEC, frac |-> t % NSEC]
None == MaxClock + NSEC     \* no second field, no result yet

TypeOK ==
    LET Sec == 0 .. MaxClock \div NSEC IN
    /\ now \in 0 .. MaxClock /\ cacheOn \in BOOLEAN
    /\ structs \in [Structs -> [sec : Sec, frac : 0 .. NSEC - 1]] /\ seconds \in Sec
    /\ updater \in [at : Structs \cup {"seconds"}, time : Nat]
    /\ caller \in [call : Calls, sec : Nat, result : Nat]
    /\ kept \in [Calls -> Sec] /\ floor \in Sec

\* The constructor has read every clock before it starts the thread.
Init ==
    /\ now = 1
    /\ cacheOn \in BOOLEAN
    /\ structs = [s \in Structs |-> Split(1)] /\ seconds = Split(1).sec
    /\ updater = [at |-> "tv", time |-> None]
    /\ caller = [call |-> "time", sec |-> None, result |-> None]
    /\ kept = [c \in Calls |-> 0] /\ floor = 0

Tick ==
    /\ now < MaxClock
    /\ now' = now + 1
    /\ UNCHANGED <<cacheOn, structs, seconds, updater, caller, kept, floor>>

-----------------------------------------------------------------------------
\* run(): a system call reads the clock and writes the seconds of a struct, then the rest.
StoreSec ==
    /\ updater.at \in Structs /\ updater.time = None
    /\ structs' = [structs EXCEPT ![updater.at].sec = Split(now).sec]
    /\ updater' = [updater EXCEPT !.time = now]
    /\ UNCHANGED <<now, cacheOn, seconds, caller, kept, floor>>

StoreFrac ==
    /\ updater.at \in Structs /\ updater.time # None
    /\ structs' = [structs EXCEPT ![updater.at].frac = Split(updater.time).frac]
    /\ updater' = [at |-> Stored[updater.at], time |-> None]
    /\ UNCHANGED <<now, cacheOn, seconds, caller, kept, floor>>

\* Mutant: the seconds are kept from before the last system calls.
StoreSeconds_Before ==
    /\ updater.at = "seconds"
    /\ seconds' = structs.tv.sec + structs.tv.frac
    /\ updater' = [updater EXCEPT !.at = "tv"]
    /\ UNCHANGED <<now, cacheOn, structs, caller, kept, floor>>

\* _seconds = _tv.tv_sec, nanosleep.
StoreSeconds ==
    /\ updater.at = "seconds"
    /\ seconds' = structs.tv.sec
    /\ updater' = [updater EXCEPT !.at = "tv"]
    /\ UNCHANGED <<now, cacheOn, structs, caller, kept, floor>>

-----------------------------------------------------------------------------
Cached(call) == IF call = "time" THEN seconds ELSE structs[call].sec

\* With the flags off the global functions pass the call to the system.
SystemCall ==
    /\ ~cacheOn
    /\ caller.sec = None
    /\ caller' = [caller EXCEPT !.sec = Split(now).sec,
                     !.result = IF caller.call = "time" THEN Split(now).sec * NSEC ELSE now]
    /\ floor' = Split(now).sec
    /\ UNCHANGED <<now, cacheOn, structs, seconds, updater, kept>>

\* time_cached, gettimeofday_cached, clock_gettime_cached: the first load.
LoadSec ==
    /\ cacheOn
    /\ caller.sec = None
    /\ caller' = [caller EXCEPT !.sec = Cached(caller.call)]
    /\ floor' = Cached(caller.call)
    /\ UNCHANGED <<now, cacheOn, structs, seconds, updater, kept>>

\* The second load: the rest of the struct; time_cached() reads _seconds again for its
\* result, the first load went to *__timer.
LoadRest ==
    /\ caller.sec # None /\ caller.result = None
    /\ caller' = [caller EXCEPT !.result =
                    IF caller.call = "time" THEN seconds * NSEC
                    ELSE caller.sec * NSEC + structs[caller.call].frac]
    /\ UNCHANGED <<now, cacheOn, structs, seconds, updater, kept, floor>>

\* main() goes on with its next call.
main ==
    /\ caller.result # None
    /\ kept' = [kept EXCEPT ![caller.call] = caller.result \div NSEC]
    /\ caller' = [call |-> Called[caller.call], sec |-> None, result |-> None]
    /\ UNCHANGED <<now, cacheOn, structs, seconds, updater, floor>>

Next ==
    \/ Tick
    \/ StoreSec \/ StoreFrac \/ StoreSeconds
    \/ SystemCall \/ LoadSec \/ LoadRest \/ main

Spec == Init /\ [][Next]_vars

-----------------------------------------------------------------------------
\* The seconds of a result are never behind those of the call before nor ahead of the
\* clock, and *__timer is never ahead of the value returned; a copied struct may mix two
\* times, but by less than a second.
TimeSound ==
    caller.result # None =>
       LET sec == caller.result \div NSEC IN
       /\ kept[caller.call] <= sec /\ floor <= sec /\ caller.sec <= sec
       /\ sec * NSEC <= now
       /\ caller.result < now + NSEC /\ caller.result + NSEC > floor * NSEC

=============================================================================
