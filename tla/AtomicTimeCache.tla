-------------------------- MODULE AtomicTimeCache ---------------------------
(***************************************************************************)
(* The clock cache of cpp/cpp_language/old/gettimeofday/atomic_time_cache.cpp *)
(* (cas_time_cache.cpp is the same text): one thread samples two clocks and   *)
(* stores them, any thread reads the stored values.  "use cache to reduce     *)
(* system call in i386": there an access to a 64-bit variable is one step only *)
(* if it is atomic; the plain read of _time_monotonic is two loads.           *)
(* The readers are the file's own test loops, and a caller that asks for      *)
(* CLOCK_MONOTONIC.  The clocks are taken to advance together and never to be  *)
(* set back.                                                                  *)
(***************************************************************************)
EXTENDS Naturals

CONSTANTS Readers,
          NSEC,      \* nanoseconds per second
          WORD,      \* number of values of a 32-bit word
          Split,     \* TRUE (i386): a plain 64-bit read is two loads; FALSE (x86_64): one
          gCachedNsecTolerance,
          MaxClock   \* bound on the clock

VARIABLES now,      \* the system's clock
          cached,   \* [mono, real]: _time_monotonic, _time_realtime
          sample,   \* [mono, real]: tp_monotonic, tp_realtime of do_update_time
          upc,      \* the updating thread's next step
          loop,     \* loop[r]: the function that r runs
          reader,   \* reader[r]: [pc, sys, low, result]
          kept,     \* kept[r]: prev_time, or max of compare_time_diff
          updated,  \* updated[c]: the sample of the last completed update
          floor     \* floor[r]: what the call of r must not fall short of

vars == <<now, cached, sample, upc, loop, reader, kept, updated, floor>>

Clocks == {"mono", "real"}
Loops == {"time", "gettimeofday", "clock_gettime", "compare", "monotonic"}
Clock(r) == IF loop[r] = "monotonic" THEN "mono" ELSE "real"
Idle == [pc |-> "idle", sys |-> 0, low |-> 0, result |-> 0]

TypeOK ==
    LET Time == 0 .. MaxClock IN
    /\ now \in Time
    /\ cached \in [Clocks -> Time] /\ sample \in [Clocks -> Time] /\ updated \in [Clocks -> Time]
    /\ upc \in {"sampleMono", "sampleReal", "storeMono", "storeReal", "sleep"}
    /\ reader \in [Readers -> [pc : {"idle", "load", "low", "high", "returned"},
                               sys : Time, low : Nat, result : Nat]]
    /\ loop \in [Readers -> Loops] /\ kept \in [Readers -> Nat] /\ floor \in [Readers -> Nat]

\* The constructor has run do_update_time() before it starts the thread.
Init ==
    /\ now = 1
    /\ cached = [c \in Clocks |-> 1] /\ sample = cached /\ updated = cached
    /\ upc = "sampleMono"
    /\ reader = [r \in Readers |-> Idle]
    /\ loop \in [Readers -> Loops]
    /\ kept = [r \in Readers |-> 0]
    /\ floor = [r \in Readers |-> 0]

-----------------------------------------------------------------------------
Tick ==
    /\ now < MaxClock
    /\ now' = now + 1
    /\ UNCHANGED <<cached, sample, upc, loop, reader, kept, updated, floor>>

\* do_update_time(): the two system calls ...
SampleMono ==
    /\ upc = "sampleMono"
    /\ sample' = [sample EXCEPT !.mono = now]
    /\ upc' = "sampleReal"
    /\ UNCHANGED <<now, cached, loop, reader, kept, updated, floor>>

SampleReal ==
    /\ upc = "sampleReal"
    /\ sample' = [sample EXCEPT !.real = now]
    /\ upc' = "storeMono"
    /\ UNCHANGED <<now, cached, loop, reader, kept, updated, floor>>

\* ... and the two atomic stores.
StoreMono ==
    /\ upc = "storeMono"
    /\ cached' = [cached EXCEPT !.mono = sample.mono]
    /\ upc' = "storeReal"
    /\ UNCHANGED <<now, sample, loop, reader, kept, updated, floor>>

\* Mutant: the value of before is stored again.
StoreReal_Pre ==
    /\ upc = "storeReal"
    /\ updated' = sample
    /\ upc' = "sleep"
    /\ UNCHANGED <<now, cached, sample, loop, reader, kept, floor>>

\* The pair is complete: _pre_time_realtime is only kept for a difference nobody uses.
StoreReal ==
    /\ upc = "storeReal"
    /\ cached' = [cached EXCEPT !.real = sample.real]
    /\ updated' = sample
    /\ upc' = "sleep"
    /\ UNCHANGED <<now, sample, loop, reader, kept, floor>>

\* run(): nanosleep, then the next update.
Sleep ==
    /\ upc = "sleep"
    /\ upc' = "sampleMono"
    /\ UNCHANGED <<now, cached, sample, loop, reader, kept, updated, floor>>

-----------------------------------------------------------------------------
\* The conversions back to seconds and to a timeval or timespec: what is left of the
\* value when the caller counts it in nanoseconds again (here a microsecond is the
\* clock's resolution).
Converted(r, t) == IF loop[r] = "time" THEN (t \div NSEC) * NSEC
                   ELSE (t \div NSEC) * NSEC + (t % NSEC)

\* The global cached_time, cached_gettimeofday and cached_clock_gettime; sys is what the
\* caller has read from the system before.
Call(r, sys) ==
    /\ reader[r].pc = "idle"
    /\ reader' = [reader EXCEPT ![r] = [Idle EXCEPT !.pc = "load", !.sys = sys]]
    /\ floor' = [floor EXCEPT ![r] = updated[Clock(r)]]
    /\ UNCHANGED kept

Return(r, t) ==
    reader' = [reader EXCEPT ![r].pc = "returned", ![r].low = 0, ![r].result = Converted(r, t)]

\* Mutant: the cached value is read without __atomic_load, as for the other clock.
Load_Plain(r) ==
    /\ reader[r].pc = "load"
    /\ reader' = [reader EXCEPT ![r].pc = "low"]
    /\ UNCHANGED <<now, cached, sample, upc, loop, kept, updated, floor>>

\* __atomic_load of the clock's variable, which is never 0; the result is converted, but
\* for CLOCK_MONOTONIC the variable is then read a second time.
Load(r) ==
    LET c == Clock(r) IN
    /\ reader[r].pc = "load"
    /\ cached[c] # 0
    /\ IF c = "mono" THEN reader' = [reader EXCEPT ![r].pc = "low"] ELSE Return(r, cached[c])
    /\ UNCHANGED <<now, cached, sample, upc, loop, kept, updated, floor>>

\* The plain second read, whole or in two halves.
ReadWhole(r) ==
    /\ reader[r].pc = "low"
    /\ ~Split
    /\ Return(r, cached[Clock(r)])
    /\ UNCHANGED <<now, cached, sample, upc, loop, kept, updated, floor>>

ReadLow(r) ==
    /\ reader[r].pc = "low"
    /\ Split
    /\ reader' = [reader EXCEPT ![r].pc = "high",
                                ![r].low = cached[Clock(r)] % WORD]
    /\ UNCHANGED <<now, cached, sample, upc, loop, kept, updated, floor>>

ReadHigh(r) ==
    /\ reader[r].pc = "high"
    /\ Return(r, (cached[Clock(r)] \div WORD) * WORD + reader[r].low)
    /\ UNCHANGED <<now, cached, sample, upc, loop, kept, updated, floor>>

-----------------------------------------------------------------------------
Distance(a, b) == IF a > b THEN a - b ELSE b - a

\* The end of a round: what the loop keeps for the next one.
Keep(r, v) ==
    /\ reader[r].pc = "returned"
    /\ reader' = [reader EXCEPT ![r] = Idle]
    /\ kept' = [kept EXCEPT ![r] = v]
    /\ UNCHANGED floor

\* The loop asks the system after the cache ...
test_cached_time(r) ==
    loop[r] = "time" /\ (Call(r, 0) \/ Keep(r, reader[r].result))

\* ... before the cache ...
test_cached_gettimeofday(r) ==
    loop[r] = "gettimeofday" /\ (Call(r, now) \/ Keep(r, reader[r].result))

test_cached_clock_gettime(r) ==
    loop[r] = "clock_gettime" /\ (Call(r, now) \/ Keep(r, reader[r].result))

\* ... and after it, keeping the largest tv_usec of the difference.
compare_time_diff(r) ==
    LET usec == Distance(reader[r].result, now) % NSEC
    IN loop[r] = "compare" /\ (Call(r, 0) \/ Keep(r, IF usec > kept[r] THEN usec ELSE kept[r]))

\* A caller of cached_clock_gettime(CLOCK_MONOTONIC).
Monotonic(r) == loop[r] = "monotonic" /\ (Call(r, 0) \/ Keep(r, reader[r].result))

Round(r) ==
    /\ \/ test_cached_time(r) \/ test_cached_gettimeofday(r) \/ test_cached_clock_gettime(r)
       \/ compare_time_diff(r) \/ Monotonic(r)
    /\ UNCHANGED <<now, cached, sample, upc, loop, updated>>

Next ==
    \/ Tick
    \/ SampleMono \/ SampleReal \/ StoreMono \/ StoreReal \/ Sleep
    \/ \E r \in Readers : Load(r) \/ ReadWhole(r) \/ ReadLow(r) \/ ReadHigh(r) \/ Round(r)

Spec == Init /\ [][Next]_vars

-----------------------------------------------------------------------------
\* CLOCK_MONOTONIC is left out where its second read is not one load.
Judged(r) == reader[r].pc = "returned" /\ (loop[r] # "monotonic" \/ ~Split)

\* A call never returns a time later than now or older than the last update completed
\* before it began (to its own precision), and a loop never sees the time go back
\* ("cur_time < prev_time").
TimeSound ==
    \A r \in Readers : Judged(r) =>
       /\ Converted(r, floor[r]) <= reader[r].result /\ reader[r].result <= now
       /\ loop[r] # "compare" => kept[r] <= reader[r].result

\* A loop prints "!!!!" for the tolerance only when the cache had not been updated, or
\* the thread had not gone on, for that long.
WarningsJustified ==
    \A r \in Readers :
       LET warns == Distance(reader[r].result, reader[r].sys) >= gCachedNsecTolerance IN
       reader[r].pc = "returned" /\ loop[r] \in {"gettimeofday", "clock_gettime"} /\ warns =>
          \/ reader[r].sys >= floor[r] + gCachedNsecTolerance
          \/ now >= reader[r].sys + gCachedNsecTolerance

-----------------------------------------------------------------------------
\* cas_time_cache.cpp has, in spite of its name, the text of atomic_time_cache.cpp: its
\* functions are the steps above, grouped function by function.

\* CTimeThread: the constructor's update and thread, then run() for ever.
CTimeThread == Init
do_update_time == SampleMono \/ SampleReal \/ StoreMono \/ StoreReal
run == do_update_time \/ Sleep

\* The methods that read the cache, and the test code that calls them.
cached_methods(r) == Load(r) \/ ReadWhole(r) \/ ReadLow(r) \/ ReadHigh(r)
cached_calls(r) == reader[r].pc = "idle" /\ Round(r)
test_time(r) == test_cached_time(r) /\ reader[r].pc = "returned"
test_gettimeofday(r) == test_cached_gettimeofday(r) /\ reader[r].pc = "returned"
test_clock_gettime(r) == test_cached_clock_gettime(r) /\ reader[r].pc = "returned"
test_compare(r) == (compare_time_diff(r) \/ Monotonic(r)) /\ reader[r].pc = "returned"

CasNext ==
    \/ Tick
    \/ run
    \/ \E r \in Readers :
          \/ cached_methods(r) \/ cached_calls(r)
          \/ /\ test_time(r) \/ test_gettimeofday(r) \/ test_clock_gettime(r) \/ test_compare(r)
             /\ UNCHANGED <<now, cached, sample, upc, loop, updated>>

=============================================================================
