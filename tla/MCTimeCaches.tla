---------------------------- MODULE MCTimeCaches ----------------------------
(***************************************************************************)
(* The clock caches as one suite for TLC: a behaviour runs one of them.      *)
(* The atomic cache is run for i386 and, from the text of                     *)
(* cas_time_cache.cpp, for x86_64.                                            *)
(***************************************************************************)
EXTENDS Naturals

CONSTANTS AtomicReaders, RwReaders, NSEC, WORD, Tolerance, MaxAtomic, MaxRw, MaxUnlocked

\* A second and a word have some length; the clocks start at 1 and run for a while.
ASSUME TimeAssumption ==
    /\ NSEC \in Nat \ {0} /\ WORD \in Nat \ {0} /\ Tolerance \in Nat
    /\ MaxAtomic \in Nat \ {0} /\ MaxRw \in Nat \ {0} /\ MaxUnlocked \in Nat \ {0}

VARIABLES
    which,                                                          \* the cache that runs
    now, kept, floor,                                               \* all
    loop, reader,                                                   \* the first two
    cached, sample, upc, updated,                                   \* AtomicTimeCache
    slots, writing, readers, updater,                               \* RwlockTimeCache
    cacheOn, structs, seconds, caller                               \* UnlockedTimeCache

atomicVars == <<cached, sample, upc, updated>>
rwVars == <<slots, writing, readers>>
plainVars == <<cacheOn, structs, seconds, caller>>
allVars == <<which, now, kept, floor, loop, reader, updater, atomicVars, rwVars, plainVars>>

I386 == INSTANCE AtomicTimeCache WITH Readers <- AtomicReaders, MaxClock <- MaxAtomic,
           gCachedNsecTolerance <- Tolerance, Split <- TRUE
X86_64 == INSTANCE AtomicTimeCache WITH Readers <- AtomicReaders, MaxClock <- MaxAtomic,
           gCachedNsecTolerance <- Tolerance, Split <- FALSE
Rw == INSTANCE RwlockTimeCache WITH Readers <- RwReaders, MaxClock <- MaxRw,
           gCachedNsecTolerance <- Tolerance
Plain == INSTANCE UnlockedTimeCache WITH MaxClock <- MaxUnlocked

\* The part of a cache that does not run keeps one fixed value.
NoAtomic == cached = 0 /\ sample = 0 /\ upc = 0 /\ updated = 0
NoRw == slots = 0 /\ writing = 0 /\ readers = 0
NoPlain == cacheOn = 0 /\ structs = 0 /\ seconds = 0 /\ caller = 0

Init ==
    \/ which = "i386" /\ I386!Init /\ NoRw /\ NoPlain /\ updater = 0
    \/ which = "x86_64" /\ X86_64!CTimeThread /\ NoRw /\ NoPlain /\ updater = 0
    \/ which = "rwlock" /\ Rw!Init /\ NoAtomic /\ NoPlain
    \/ which = "plain" /\ Plain!Init /\ NoAtomic /\ NoRw /\ loop = 0 /\ reader = 0

Next ==
    \/ which = "i386" /\ I386!Next /\ UNCHANGED <<which, rwVars, plainVars, updater>>
    \/ which = "x86_64" /\ X86_64!CasNext /\ UNCHANGED <<which, rwVars, plainVars, updater>>
    \/ which = "rwlock" /\ Rw!Next /\ UNCHANGED <<which, atomicVars, plainVars>>
    \/ which = "plain" /\ Plain!Next /\ UNCHANGED <<which, atomicVars, rwVars, loop, reader>>

Spec == Init /\ [][Next]_allVars

-----------------------------------------------------------------------------
\* A cached time is never torn, never ahead of the clock, never behind the time the loop
\* saw before and never older than the last update completed when the call began: for all
\* calls of the lock-based cache and of the atomic one on x86_64, for the realtime calls of
\* the atomic one on i386, for the seconds of the cache without synchronisation, whose
\* structs may mix two times by less than a second.  The test loops print "!!!!" for the
\* tolerance only when the cache was that old or the thread was held up that long between
\* its two readings.
CachedTimeSound ==
    CASE which = "i386" -> I386!TypeOK /\ I386!TimeSound /\ I386!WarningsJustified
      [] which = "x86_64" -> X86_64!TypeOK /\ X86_64!TimeSound /\ X86_64!WarningsJustified
      [] which = "rwlock" -> Rw!TypeOK /\ Rw!TimeSound /\ Rw!WarningsJustified
      [] which = "plain" -> Plain!TypeOK /\ Plain!TimeSound

=============================================================================
