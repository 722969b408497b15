-------------------------- MODULE RwlockTimeCache ---------------------------
(***************************************************************************)
(* The clock cache of cpp/cpp_language/old/gettimeofday/rwlock_time_cache.cpp: *)
(* three structs, each with a reader/writer lock of its own.  A struct is      *)
(* written and read field by field under its lock.  The readers are the file's *)
(* own test loops, and a caller that asks for CLOCK_MONOTONIC.  The clocks are  *)
(* taken to advance together and never to be set back.                         *)
(***************************************************************************)
EXTENDS Naturals

CONSTANTS Readers,
          NSEC,      \* clock steps per second
          gCachedNsecTolerance,
          MaxClock   \* bound on the clock

VARIABLES now,
          slots,   \* slots[s]: [sec, frac], the structs _tv, _tp_realtime, _tp_monotonic
          writing, \* the slots whose lock is held for writing
          readers, \* readers[s]: the threads that hold its lock for reading
          updater, \* [pc, slot, time]: the updating thread and the time it read
          loop,    \* loop[r]: the function that r runs
          reader,  \* reader[r]: [pc, sys, sec, result]
          kept,    \* kept[r]: prev_time, or max of compare_time_diff
          floor    \* floor[r]: what the call of r must not fall short of

vars == <<now, slots, writing, readers, updater, loop, reader, kept, floor>>

Slots == {"tv", "real", "mono"}
Loops == {"time", "gettimeofday", "clock_gettime", "compare", "monotonic"}
SlotOf(r) == CASE loop[r] = "clock_gettime" -> "real" [] loop[r] = "monotonic" -> "mono"
               [] OTHER -> "tv"
Idle == [pc |-> "idle", sys |-> 0, sec |-> 0, result |-> 0]
After == [tv |-> "real", real |-> "mono", mono |-> "tv"]
Value(x) == x.sec * NSEC + x.frac
Split(t) == [sec |-> t \div NSEC, frac |-> t % NSEC]

TypeOK ==
    /\ now \in 0 .. MaxClock
    /\ slots \in [Slots -> [sec : Nat, frac : 0 .. NSEC - 1]]
    /\ writing \subseteq Slots /\ readers \in [Slots -> SUBSET Readers]
    /\ updater \in [pc : {"wrlock", "sec", "frac", "unlock"}, slot : Slots, time : 0 .. MaxClock]
    /\ reader \in [Readers -> [pc : {"idle", "rdlock", "sec", "frac", "unlock", "returned"},
                               sys : 0 .. MaxClock, sec : Nat, result : Nat]]
    /\ loop \in [Readers -> Loops] /\ kept \in [Readers -> Nat] /\ floor \in [Readers -> Nat]

\* The constructor has run do_update_time() and initialised the locks.
Init ==
    /\ now = 1
    /\ slots = [s \in Slots |-> Split(1)]
    /\ writing = {} /\ readers = [s \in Slots |-> {}]
    /\ updater = [pc |-> "wrlock", slot |-> "tv", time |-> 0]
    /\ reader = [r \in Readers |-> Idle]
    /\ loop \in [Readers -> Loops]
    /\ kept = [r \in Readers |-> 0]
    /\ floor = [r \in Readers |-> 0]

Tick ==
    /\ now < MaxClock
    /\ now' = now + 1
    /\ UNCHANGED <<slots, writing, readers, updater, loop, reader, kept, floor>>

-----------------------------------------------------------------------------
\* do_update_time(), for one struct: lock, read the clock, store both fields, unlock.
WrLock ==
    /\ updater.pc = "wrlock"
    /\ readers[updater.slot] = {}
    /\ writing' = {updater.slot}
    /\ updater' = [updater EXCEPT !.pc = "sec", !.time = now]
    /\ UNCHANGED <<now, slots, readers, loop, reader, kept, floor>>

WriteSec ==
    /\ updater.pc = "sec"
    /\ slots' = [slots EXCEPT ![updater.slot].sec = Split(updater.time).sec]
    /\ updater' = [updater EXCEPT !.pc = "frac"]
    /\ UNCHANGED <<now, writing, readers, loop, reader, kept, floor>>

WriteFrac ==
    /\ updater.pc = "frac"
    /\ slots' = [slots EXCEPT ![updater.slot].frac = Split(updater.time).frac]
    /\ updater' = [updater EXCEPT !.pc = "unlock"]
    /\ UNCHANGED <<now, writing, readers, loop, reader, kept, floor>>

\* Unlock and go on with the next struct; after the last one run() begins again.
WrUnlock ==
    /\ updater.pc = "unlock"
    /\ writing' = {}
    /\ updater' = [pc |-> "wrlock", slot |-> After[updater.slot], time |-> 0]
    /\ UNCHANGED <<now, slots, readers, loop, reader, kept, floor>>

-----------------------------------------------------------------------------
\* The global cached_time, cached_gettimeofday and cached_clock_gettime; sys is what the
\* caller has read from the system before.
Call(r, sys) ==
    LET s == SlotOf(r)
    IN /\ reader[r].pc = "idle"
       /\ reader' = [reader EXCEPT ![r] = [Idle EXCEPT !.pc = "rdlock", !.sys = sys]]
       /\ floor' = [floor EXCEPT ![r] = IF s \in writing THEN 0 ELSE Value(slots[s])]
       /\ UNCHANGED kept

\* Mutant: the reader does not wait for the writer.
RdLock_Through(r) ==
    /\ reader[r].pc = "rdlock"
    /\ readers' = [readers EXCEPT ![SlotOf(r)] = @ \cup {r}]
    /\ reader' = [reader EXCEPT ![r].pc = "sec"]
    /\ UNCHANGED <<now, slots, writing, updater, loop, kept, floor>>

RdLock(r) ==
    /\ reader[r].pc = "rdlock"
    /\ SlotOf(r) \notin writing
    /\ readers' = [readers EXCEPT ![SlotOf(r)] = @ \cup {r}]
    /\ reader' = [reader EXCEPT ![r].pc = "sec"]
    /\ UNCHANGED <<now, slots, writing, updater, loop, kept, floor>>

\* The first field; cached_time() needs no other.
ReadSec(r) ==
    LET sec == slots[SlotOf(r)].sec IN
    /\ reader[r].pc = "sec"
    /\ reader' = [reader EXCEPT ![r].sec = sec, ![r].result = sec * NSEC,
                                ![r].pc = IF loop[r] = "time" THEN "unlock" ELSE "frac"]
    /\ UNCHANGED <<now, slots, writing, readers, updater, loop, kept, floor>>

ReadFrac(r) ==
    /\ reader[r].pc = "frac"
    /\ reader' = [reader EXCEPT ![r].pc = "unlock",
                    ![r].result = reader[r].sec * NSEC + slots[SlotOf(r)].frac]
    /\ UNCHANGED <<now, slots, writing, readers, updater, loop, kept, floor>>

RdUnlock(r) ==
    /\ reader[r].pc = "unlock"
    /\ readers' = [readers EXCEPT ![SlotOf(r)] = @ \ {r}]
    /\ reader' = [reader EXCEPT ![r].pc = "returned", ![r].sec = 0]
    /\ UNCHANGED <<now, slots, writing, updater, loop, kept, floor>>

-----------------------------------------------------------------------------
Distance(a, b) == IF a > b THEN a - b ELSE b - a

\* The end of a round: what the loop keeps for the next one.
Keep(r, v) ==
    /\ reader[r].pc = "returned"
    /\ reader' = [reader EXCEPT ![r] = Idle]
    /\ kept' = [kept EXCEPT ![r] = v]
    /\ UNCHANGED floor

\* The loops ask the system after the cache, before it, before it and after it.
test_cached_time(r) ==
    loop[r] = "time" /\ (Call(r, 0) \/ Keep(r, reader[r].result))

test_cached_gettimeofday(r) ==
    loop[r] = "gettimeofday" /\ (Call(r, now) \/ Keep(r, reader[r].result))

test_cached_clock_gettime(r) ==
    loop[r] = "clock_gettime" /\ (Call(r, now) \/ Keep(r, reader[r].result))

compare_time_diff(r) ==
    LET usec == Distance(reader[r].result, now) % NSEC
    IN loop[r] = "compare" /\ (Call(r, 0) \/ Keep(r, IF usec > kept[r] THEN usec ELSE kept[r]))

\* A caller of cached_clock_gettime(CLOCK_MONOTONIC).
Monotonic(r) == loop[r] = "monotonic" /\ (Call(r, 0) \/ Keep(r, reader[r].result))

Round(r) ==
    /\ \/ test_cached_time(r) \/ test_cached_gettimeofday(r) \/ test_cached_clock_gettime(r)
       \/ compare_time_diff(r) \/ Monotonic(r)
    /\ UNCHANGED <<now, slots, writing, readers, updater, loop>>

Next ==
    \/ Tick
    \/ WrLock \/ WriteSec \/ WriteFrac \/ WrUnlock
    \/ \E r \in Readers : RdLock(r) \/ ReadSec(r) \/ ReadFrac(r) \/ RdUnlock(r) \/ Round(r)

Spec == Init /\ [][Next]_vars

-----------------------------------------------------------------------------
\* A call never returns a time later than now or older than what the struct held when
\* it began, and a loop never sees the time go back ("cur_time < prev_time").
TimeSound ==
    \A r \in Readers :
       reader[r].pc = "returned" =>
          /\ reader[r].result <= now
          /\ (IF loop[r] = "time" THEN (floor[r] \div NSEC) * NSEC ELSE floor[r])
                <= reader[r].result
          /\ loop[r] # "compare" => kept[r] <= reader[r].result

\* A loop prints "!!!!" for the tolerance only when the struct had not been updated, or
\* the thread had not gone on, for that long.
WarningsJustified ==
    \A r \in Readers :
       LET warns == Distance(reader[r].result, reader[r].sys) >= gCachedNsecTolerance IN
       reader[r].pc = "returned" /\ loop[r] \in {"gettimeofday", "clock_gettime"} /\ warns =>
          \/ reader[r].sys >= floor[r] + gCachedNsecTolerance
          \/ now >= reader[r].sys + gCachedNsecTolerance

=============================================================================
