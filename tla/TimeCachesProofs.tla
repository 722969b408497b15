-------------------------- MODULE TimeCachesProofs --------------------------
(***************************************************************************)
(* Proofs about the clock caches of MCTimeCaches, for any number of readers, *)
(* any length of a second and of a word, any tolerance and any time.         *)
(***************************************************************************)
EXTENDS MCTimeCaches, SharedLemmas

-----------------------------------------------------------------------------
(* The atomic cache.  Only ReadWhole, ReadLow and what is judged depend on the *)
(* width of a load, so that both versions have one invariant; split is the     *)
(* version.                                                                   *)

\* What the caller of r gets for the time t, to its precision.
Precise(r, t) == IF loop[r] = "time" THEN (t \div NSEC) * NSEC ELSE t

\* The stored times are in order: completed, stored, sampled, now.
TimesOrdered ==
    /\ \A c \in {"mono", "real"} :
          updated[c] <= cached[c] /\ cached[c] <= sample[c] /\ sample[c] <= now
    /\ upc = "storeReal" => cached["mono"] = sample["mono"]

\* While a call is under way its floor is not above the cache, nor is what the loop kept;
\* what it returns lies between them.
AtomicReader(r, split) ==
    LET t == cached[I386!Clock(r)]
        judged == loop[r] # "monotonic" \/ ~ split
    IN  /\ reader[r].pc # "idle" => floor[r] <= t
        /\ reader[r].pc \in {"low", "high"} => loop[r] = "monotonic"
        /\ reader[r].pc = "high" => split
        /\ loop[r] # "compare" /\ judged => kept[r] <= Precise(r, t)
        /\ reader[r].pc = "returned" /\ judged =>
              /\ Precise(r, floor[r]) <= reader[r].result /\ reader[r].result <= Precise(r, t)
              /\ loop[r] # "compare" => kept[r] <= reader[r].result

AtomicInv(split) ==
    I386!TypeOK /\ TimesOrdered /\ \A r \in AtomicReaders : AtomicReader(r, split)

\* Rounding to the caller's precision keeps the order and never adds.
LEMMA PreciseOrder ==
    ASSUME NEW r, NEW a \in Nat, NEW b \in Nat
    PROVE  /\ Precise(r, a) \in Nat /\ Precise(r, a) <= a
           /\ a <= b => Precise(r, a) <= Precise(r, b)
<1>1. NSEC \in Nat \ {0}
  BY TimeAssumption
<1>2. CASE loop[r] = "time"
  <2>1. (a \div NSEC) * NSEC \in Nat /\ (a \div NSEC) * NSEC <= a
    BY <1>1, RoundDown
  <2>2. a <= b => (a \div NSEC) * NSEC <= (b \div NSEC) * NSEC
    BY <1>1, RoundMono
  <2> QED BY <1>2, <2>1, <2>2 DEF Precise
<1>3. CASE loop[r] # "time"
  BY <1>3 DEF Precise
<1> QED BY <1>2, <1>3

\* The conversions to a struct and back only round.
LEMMA ConvertedPrecise ==
    ASSUME NEW r, NEW t \in Nat
    PROVE  I386!Converted(r, t) = Precise(r, t) /\ X86_64!Converted(r, t) = Precise(r, t)
<1>1. (t \div NSEC) * NSEC + (t % NSEC) = t
  BY TimeAssumption, RoundDown
<1> QED BY <1>1 DEF I386!Converted, X86_64!Converted, Precise

\* What the invariant says of types.
LEMMA AtomicTypes ==
    ASSUME I386!TypeOK
    PROVE  /\ now \in Nat /\ now <= MaxAtomic /\ \A c \in {"mono", "real"} :
                 /\ cached[c] \in 0 .. MaxAtomic /\ sample[c] \in 0 .. MaxAtomic
                 /\ updated[c] \in 0 .. MaxAtomic
           /\ \A r \in AtomicReaders :
                 /\ I386!Clock(r) \in {"mono", "real"} /\ cached[I386!Clock(r)] \in Nat
                 /\ kept[r] \in Nat /\ floor[r] \in Nat /\ reader[r].result \in Nat
                 /\ reader[r].sys \in Nat /\ reader[r].low \in Nat
                 /\ updated[I386!Clock(r)] \in Nat
<1>1. MaxAtomic \in Nat /\ \A x \in 0 .. MaxAtomic : x \in Nat
  BY TimeAssumption
<1>2. /\ now \in 0 .. MaxAtomic
      /\ cached \in [{"mono", "real"} -> 0 .. MaxAtomic]
      /\ sample \in [{"mono", "real"} -> 0 .. MaxAtomic]
      /\ updated \in [{"mono", "real"} -> 0 .. MaxAtomic]
      /\ reader \in [AtomicReaders -> [pc : {"idle", "load", "low", "high", "returned"},
                                       sys : 0 .. MaxAtomic, low : Nat, result : Nat]]
      /\ kept \in [AtomicReaders -> Nat] /\ floor \in [AtomicReaders -> Nat]
  BY DEF I386!TypeOK, I386!Clocks
<1>3. \A c \in {"mono", "real"} :
         /\ cached[c] \in 0 .. MaxAtomic /\ sample[c] \in 0 .. MaxAtomic
         /\ updated[c] \in 0 .. MaxAtomic
  BY <1>2
<1>4. ASSUME NEW r \in AtomicReaders
      PROVE  /\ I386!Clock(r) \in {"mono", "real"} /\ cached[I386!Clock(r)] \in Nat
             /\ kept[r] \in Nat /\ floor[r] \in Nat /\ reader[r].result \in Nat
             /\ reader[r].sys \in Nat /\ reader[r].low \in Nat
             /\ updated[I386!Clock(r)] \in Nat
  <2>1. I386!Clock(r) \in {"mono", "real"}
    BY DEF I386!Clock
  <2>2. /\ kept[r] \in Nat /\ floor[r] \in Nat /\ reader[r].result \in Nat
        /\ reader[r].sys \in 0 .. MaxAtomic /\ reader[r].low \in Nat
    BY <1>2
  <2> QED BY <1>1, <1>3, <2>1, <2>2
<1> QED BY <1>1, <1>2, <1>3, <1>4

\* Stores and the clock move forward only, which no reader minds.
LEMMA AtomicForward ==
    ASSUME NEW split \in BOOLEAN, AtomicInv(split), (I386!TypeOK)',
           UNCHANGED <<loop, reader, kept, floor>>,
           \A c \in {"mono", "real"} : cached[c] <= cached'[c]
    PROVE  \A r \in AtomicReaders : AtomicReader(r, split)'
<1> SUFFICES ASSUME NEW r \in AtomicReaders PROVE AtomicReader(r, split)'
  OBVIOUS
<1> DEFINE t == cached[I386!Clock(r)]
<1>1. I386!Clock(r)' = I386!Clock(r) /\ I386!Clock(r) \in {"mono", "real"}
  BY DEF I386!Clock
<1>2. t \in Nat /\ t' \in Nat /\ t <= t' /\ floor[r] \in Nat /\ kept[r] \in Nat
      /\ reader[r].result \in Nat
  <2>1. (/\ \A c \in {"mono", "real"} : cached[c] \in 0 .. MaxAtomic)'
    BY DEF I386!TypeOK, I386!Clocks
  <2> QED BY <1>1, <2>1, AtomicTypes, TimeAssumption DEF AtomicInv
<1>3. /\ Precise(r, t) \in Nat /\ Precise(r, t') \in Nat /\ Precise(r, t) <= Precise(r, t')
      /\ Precise(r, floor[r]) \in Nat
  BY <1>2, PreciseOrder
<1>4. Precise(r, t)' = Precise(r, t') /\ Precise(r, floor[r])' = Precise(r, floor[r])
  BY DEF Precise
<1>5. AtomicReader(r, split)
  BY DEF AtomicInv
<1> HIDE DEF t
<1> QED BY <1>2, <1>3, <1>4, <1>5 DEF AtomicReader, t

\* The records of the readers.
AtomicRecords == [AtomicReaders -> [pc : {"idle", "load", "low", "high", "returned"},
                                    sys : 0 .. MaxAtomic, low : Nat, result : Nat]]

\* A step of one reader leaves the cache and the other readers alone.
LEMMA AtomicOwn ==
    ASSUME NEW split \in BOOLEAN, AtomicInv(split), NEW r \in AtomicReaders,
           UNCHANGED <<now, cached, sample, upc, loop, updated>>,
           reader' \in AtomicRecords, kept' \in [AtomicReaders -> Nat],
           floor' \in [AtomicReaders -> Nat],
           \A u \in AtomicReaders : u # r =>
              reader'[u] = reader[u] /\ kept'[u] = kept[u] /\ floor'[u] = floor[u],
           AtomicReader(r, split)'
    PROVE  AtomicInv(split)'
<1>1. (I386!TypeOK)'
  BY DEF AtomicInv, I386!TypeOK, AtomicRecords
<1>2. TimesOrdered'
  BY DEF AtomicInv, TimesOrdered
<1>3. ASSUME NEW u \in AtomicReaders, u # r PROVE AtomicReader(u, split)'
  <2>1. reader'[u] = reader[u] /\ kept'[u] = kept[u] /\ floor'[u] = floor[u]
    BY <1>3
  <2>2. I386!Clock(u)' = I386!Clock(u)
    BY DEF I386!Clock
  <2>3. AtomicReader(u, split)
    BY DEF AtomicInv
  <2> QED BY <2>1, <2>2, <2>3 DEF AtomicReader, Precise
<1> QED BY <1>1, <1>2, <1>3 DEF AtomicInv

\* The stores and the clock: completed <= stored <= sampled <= now survives each step.
LEMMA AtomicUpdate ==
    ASSUME NEW split \in BOOLEAN, AtomicInv(split),
           \/ I386!Tick \/ I386!SampleMono \/ I386!SampleReal \/ I386!StoreMono
           \/ I386!StoreReal \/ I386!Sleep
    PROVE  AtomicInv(split)'
<1> DEFINE Time == 0 .. MaxAtomic
<1>1. /\ now \in Time /\ cached \in [{"mono", "real"} -> Time]
      /\ sample \in [{"mono", "real"} -> Time] /\ updated \in [{"mono", "real"} -> Time]
      /\ upc \in {"sampleMono", "sampleReal", "storeMono", "storeReal", "sleep"}
  BY DEF AtomicInv, I386!TypeOK, I386!Clocks
<1>2. \A x \in Time : x \in Nat
  BY TimeAssumption
<1>3. now < MaxAtomic => now + 1 \in Time
  <2>1. now \in 0 .. MaxAtomic
    BY <1>1
  <2> QED BY <2>1, TimeAssumption
<1> HIDE DEF Time
<1>4. /\ updated["mono"] \in Nat /\ cached["mono"] \in Nat /\ sample["mono"] \in Nat
      /\ updated["real"] \in Nat /\ cached["real"] \in Nat /\ sample["real"] \in Nat
      /\ now \in Nat
  BY <1>1, <1>2
<1>5. /\ updated["mono"] <= cached["mono"] /\ cached["mono"] <= sample["mono"]
      /\ updated["real"] <= cached["real"] /\ cached["real"] <= sample["real"]
      /\ sample["mono"] <= now /\ sample["real"] <= now
      /\ upc = "storeReal" => cached["mono"] = sample["mono"]
  BY DEF AtomicInv, TimesOrdered
<1>6. UNCHANGED <<loop, reader, kept, floor>>
  BY DEF I386!Tick, I386!SampleMono, I386!SampleReal, I386!StoreMono, I386!StoreReal, I386!Sleep
<1>7. ASSUME now' \in Time, now' \in Nat,
             cached' \in [{"mono", "real"} -> Time],
             sample' \in [{"mono", "real"} -> Time], updated' \in [{"mono", "real"} -> Time],
             upc' \in {"sampleMono", "sampleReal", "storeMono", "storeReal", "sleep"},
             updated'["mono"] <= cached'["mono"], cached'["mono"] <= sample'["mono"],
             updated'["real"] <= cached'["real"], cached'["real"] <= sample'["real"],
             sample'["mono"] <= now', sample'["real"] <= now',
             upc' = "storeReal" => cached'["mono"] = sample'["mono"],
             cached["mono"] <= cached'["mono"], cached["real"] <= cached'["real"]
      PROVE  AtomicInv(split)'
  <2>1. (I386!TypeOK)'
    BY <1>6, <1>7 DEF AtomicInv, I386!TypeOK, I386!Clocks, Time
  <2>2. TimesOrdered'
    BY <1>7 DEF TimesOrdered
  <2>3. \A c \in {"mono", "real"} : cached[c] <= cached'[c]
    BY <1>7
  <2>4. \A r \in AtomicReaders : AtomicReader(r, split)'
    BY <1>6, <2>1, <2>3, AtomicForward
  <2> QED BY <2>1, <2>2, <2>4 DEF AtomicInv
<1>8. CASE I386!Tick
  <2>1. now' \in Time /\ now <= now' /\ now' \in Nat
    BY <1>2, <1>3, <1>4, <1>8 DEF I386!Tick
  <2>2. UNCHANGED <<cached, sample, updated, upc>>
    BY <1>8 DEF I386!Tick
  <2> QED BY <1>1, <1>4, <1>5, <1>7, <2>1, <2>2
<1>9. CASE I386!SampleMono
  <2>1. /\ upc' = "sampleReal" /\ UNCHANGED <<now, cached, updated>>
        /\ sample' \in [{"mono", "real"} -> Time]
        /\ sample'["mono"] = now /\ sample'["real"] = sample["real"]
    BY <1>1, <1>9 DEF I386!SampleMono
  <2> QED BY <1>1, <1>4, <1>5, <1>7, <2>1
<1>10. CASE I386!SampleReal
  <2>1. /\ upc' = "storeMono" /\ UNCHANGED <<now, cached, updated>>
        /\ sample' \in [{"mono", "real"} -> Time]
        /\ sample'["real"] = now /\ sample'["mono"] = sample["mono"]
    BY <1>1, <1>10 DEF I386!SampleReal
  <2> QED BY <1>1, <1>4, <1>5, <1>7, <2>1
<1>11. CASE I386!StoreMono
  <2>1. /\ upc' = "storeReal" /\ UNCHANGED <<now, sample, updated>>
        /\ cached' \in [{"mono", "real"} -> Time]
        /\ cached'["mono"] = sample["mono"] /\ cached'["real"] = cached["real"]
    BY <1>1, <1>11 DEF I386!StoreMono
  <2> QED BY <1>1, <1>4, <1>5, <1>7, <2>1
<1>12. CASE I386!StoreReal
  <2>1. /\ upc = "storeReal" /\ upc' = "sleep" /\ UNCHANGED <<now, sample>> /\ updated' = sample
        /\ cached' \in [{"mono", "real"} -> Time]
        /\ cached'["real"] = sample["real"] /\ cached'["mono"] = cached["mono"]
    BY <1>1, <1>12 DEF I386!StoreReal
  <2> QED BY <1>1, <1>4, <1>5, <1>7, <2>1
<1>13. CASE I386!Sleep
  <2>1. upc' = "sampleMono" /\ UNCHANGED <<now, cached, sample, updated>>
    BY <1>13 DEF I386!Sleep
  <2> QED BY <1>1, <1>4, <1>5, <1>7, <2>1
<1> QED BY <1>8, <1>9, <1>10, <1>11, <1>12, <1>13

\* A call that returns the stored time, or one that is not judged.
LEMMA AtomicReturn ==
    ASSUME NEW split \in BOOLEAN, AtomicInv(split), NEW r \in AtomicReaders,
           UNCHANGED <<now, cached, sample, upc, loop, kept, updated, floor>>,
           reader[r].pc # "idle", NEW t \in Nat, I386!Return(r, t),
           loop[r] # "monotonic" \/ ~ split => t = cached[I386!Clock(r)]
    PROVE  AtomicInv(split)'
<1> DEFINE c == cached[I386!Clock(r)]
<1>1. /\ reader \in AtomicRecords
      /\ kept \in [AtomicReaders -> Nat] /\ floor \in [AtomicReaders -> Nat]
  BY DEF AtomicInv, I386!TypeOK, AtomicRecords
<1>2. Precise(r, t) \in Nat
  BY PreciseOrder
<1>3. /\ reader' \in AtomicRecords /\ reader'[r].pc = "returned"
      /\ reader'[r].result = Precise(r, t)
      /\ \A u \in AtomicReaders : u # r => reader'[u] = reader[u]
  <2>1. I386!Converted(r, t) = Precise(r, t)
    BY ConvertedPrecise
  <2>2. reader' = [reader EXCEPT ![r].pc = "returned", ![r].low = 0, ![r].result = Precise(r, t)]
    BY <2>1 DEF I386!Return
  <2>3. reader' \in AtomicRecords
    BY <1>1, <1>2, <2>2 DEF AtomicRecords
  <2> QED BY <1>1, <2>2, <2>3 DEF AtomicRecords
<1>4. AtomicReader(r, split)'
  <2>1. /\ kept' = kept /\ floor' = floor /\ loop' = loop
        /\ I386!Clock(r)' = I386!Clock(r) /\ cached' = cached
    BY DEF I386!Clock
  <2>2. AtomicReader(r, split)
    BY DEF AtomicInv
  <2>3. floor[r] <= c /\ c \in Nat /\ floor[r] \in Nat
    BY <1>1, <2>2, AtomicTypes DEF AtomicReader, AtomicInv
  <2>4. Precise(r, floor[r]) <= Precise(r, c) /\ Precise(r, c) \in Nat
    BY <2>3, PreciseOrder
  <2>5. /\ loop[r] # "compare" /\ (loop[r] # "monotonic" \/ ~ split) => kept[r] <= Precise(r, c)
    BY <2>2 DEF AtomicReader
  <2>6. Precise(r, floor[r])' = Precise(r, floor[r]) /\ Precise(r, c)' = Precise(r, c)
    BY <2>1 DEF Precise
  <2> QED BY <1>3, <2>1, <2>3, <2>4, <2>5, <2>6 DEF AtomicReader
<1> QED BY <1>1, <1>3, <1>4, AtomicOwn

\* A step inside a call.
LEMMA AtomicInside ==
    ASSUME NEW split \in BOOLEAN, AtomicInv(split), NEW r \in AtomicReaders,
           UNCHANGED <<now, cached, sample, upc, loop, kept, updated, floor>>,
           reader[r].pc # "idle", reader' \in AtomicRecords,
           reader'[r].pc \in {"low", "high"},
           \A u \in AtomicReaders : u # r => reader'[u] = reader[u],
           loop[r] = "monotonic", reader'[r].pc = "high" => split
    PROVE  AtomicInv(split)'
<1>1. kept \in [AtomicReaders -> Nat] /\ floor \in [AtomicReaders -> Nat]
  BY DEF AtomicInv, I386!TypeOK
<1>2. AtomicReader(r, split)'
  <2>1. I386!Clock(r)' = I386!Clock(r)
    BY DEF I386!Clock
  <2>2. AtomicReader(r, split)
    BY DEF AtomicInv
  <2> QED BY <2>1, <2>2 DEF AtomicReader, Precise
<1> QED BY <1>1, <1>2, AtomicOwn

\* A call begins: its floor is the last update completed.
LEMMA AtomicCall ==
    ASSUME NEW split \in BOOLEAN, AtomicInv(split), NEW r \in AtomicReaders,
           UNCHANGED <<now, cached, sample, upc, loop, updated>>,
           NEW s \in 0 .. MaxAtomic, I386!Call(r, s)
    PROVE  AtomicInv(split)'
<1> DEFINE f == updated[I386!Clock(r)]
<1>1. /\ reader \in AtomicRecords
      /\ kept \in [AtomicReaders -> Nat] /\ floor \in [AtomicReaders -> Nat]
  BY DEF AtomicInv, I386!TypeOK, AtomicRecords
<1>2. f \in Nat /\ I386!Clock(r) \in {"mono", "real"} /\ f <= cached[I386!Clock(r)]
  BY AtomicTypes DEF AtomicInv, TimesOrdered
<1>3. /\ reader' \in AtomicRecords /\ reader'[r].pc = "load"
      /\ \A u \in AtomicReaders : u # r => reader'[u] = reader[u]
  <2>1. reader' = [reader EXCEPT ![r] = [[pc |-> "idle", sys |-> 0, low |-> 0, result |-> 0]
                                          EXCEPT !.pc = "load", !.sys = s]]
    BY DEF I386!Call, I386!Idle
  <2>2. reader' \in AtomicRecords
    BY <1>1, <2>1 DEF AtomicRecords
  <2> QED BY <1>1, <2>1, <2>2 DEF AtomicRecords
<1>4. /\ floor' = [floor EXCEPT ![r] = f] /\ kept' = kept
  BY DEF I386!Call
<1>5. /\ floor' \in [AtomicReaders -> Nat] /\ floor'[r] = f
      /\ \A u \in AtomicReaders : u # r => floor'[u] = floor[u]
  BY <1>1, <1>2, <1>4
<1>6. AtomicReader(r, split)'
  <2>1. I386!Clock(r)' = I386!Clock(r)
    BY DEF I386!Clock
  <2>2. AtomicReader(r, split)
    BY DEF AtomicInv
  <2> QED BY <1>2, <1>3, <1>4, <1>5, <2>1, <2>2 DEF AtomicReader, Precise
<1> HIDE DEF f
<1> QED BY <1>1, <1>3, <1>4, <1>5, <1>6, AtomicOwn

\* A round ends: the loop keeps the time it got, or for compare_time_diff any number.
LEMMA AtomicKeep ==
    ASSUME NEW split \in BOOLEAN, AtomicInv(split), NEW r \in AtomicReaders,
           UNCHANGED <<now, cached, sample, upc, loop, updated>>,
           NEW k \in Nat, I386!Keep(r, k),
           loop[r] # "compare" => k = reader[r].result
    PROVE  AtomicInv(split)'
<1>1. /\ reader \in AtomicRecords /\ 0 \in 0 .. MaxAtomic
      /\ kept \in [AtomicReaders -> Nat] /\ floor \in [AtomicReaders -> Nat]
  BY TimeAssumption DEF AtomicInv, I386!TypeOK, AtomicRecords
<1>2. /\ reader' \in AtomicRecords /\ reader'[r].pc = "idle"
      /\ \A u \in AtomicReaders : u # r => reader'[u] = reader[u]
  <2>1. reader' = [reader EXCEPT ![r] = [pc |-> "idle", sys |-> 0, low |-> 0, result |-> 0]]
    BY DEF I386!Keep, I386!Idle
  <2>2. reader' \in AtomicRecords
    BY <1>1, <2>1 DEF AtomicRecords
  <2> QED BY <1>1, <2>1, <2>2 DEF AtomicRecords
<1>3. /\ kept' = [kept EXCEPT ![r] = k] /\ floor' = floor /\ reader[r].pc = "returned"
  BY DEF I386!Keep
<1>4. /\ kept' \in [AtomicReaders -> Nat] /\ kept'[r] = k
      /\ \A u \in AtomicReaders : u # r => kept'[u] = kept[u]
  BY <1>1, <1>3
<1>5. AtomicReader(r, split)'
  <2>1. I386!Clock(r)' = I386!Clock(r)
    BY DEF I386!Clock
  <2>2. AtomicReader(r, split)
    BY DEF AtomicInv
  <2> QED BY <1>2, <1>3, <1>4, <2>1, <2>2 DEF AtomicReader, Precise
<1> QED BY <1>1, <1>2, <1>3, <1>4, <1>5, AtomicOwn

\* The atomic load of a call.
LEMMA AtomicLoad ==
    ASSUME NEW split \in BOOLEAN, AtomicInv(split), NEW r \in AtomicReaders, I386!Load(r)
    PROVE  AtomicInv(split)'
<1> DEFINE c == I386!Clock(r)
<1>1. /\ UNCHANGED <<now, cached, sample, upc, loop, kept, updated, floor>>
      /\ reader[r].pc = "load"
  BY DEF I386!Load
<1>2. CASE c = "mono"
  <2>1. reader' = [reader EXCEPT ![r].pc = "low"] /\ loop[r] = "monotonic"
    BY <1>2 DEF I386!Load, I386!Clock
  <2>2. reader \in AtomicRecords
    BY DEF AtomicInv, I386!TypeOK, AtomicRecords
  <2>3. reader' \in AtomicRecords
    BY <2>1, <2>2 DEF AtomicRecords
  <2>4. reader'[r].pc = "low" /\ \A u \in AtomicReaders : u # r => reader'[u] = reader[u]
    BY <2>1, <2>2 DEF AtomicRecords
  <2> QED BY <1>1, <2>1, <2>3, <2>4, AtomicInside
<1>3. CASE c # "mono"
  <2>1. I386!Return(r, cached[c])
    BY <1>3 DEF I386!Load
  <2>2. cached[c] \in Nat
    BY AtomicTypes DEF AtomicInv
  <2> QED BY <1>1, <2>1, <2>2, AtomicReturn
<1> QED BY <1>2, <1>3

\* The second read of CLOCK_MONOTONIC as one load.
LEMMA AtomicWhole ==
    ASSUME AtomicInv(FALSE), NEW r \in AtomicReaders, X86_64!ReadWhole(r)
    PROVE  AtomicInv(FALSE)'
<1>1. /\ UNCHANGED <<now, cached, sample, upc, loop, kept, updated, floor>>
      /\ reader[r].pc = "low" /\ I386!Return(r, cached[I386!Clock(r)])
  BY DEF X86_64!ReadWhole, X86_64!Return, I386!Return, X86_64!Converted, I386!Converted,
         X86_64!Clock, I386!Clock
<1>2. cached[I386!Clock(r)] \in Nat
  BY AtomicTypes DEF AtomicInv
<1> QED BY <1>1, <1>2, AtomicReturn

\* The second read of CLOCK_MONOTONIC as two loads.
LEMMA AtomicLow ==
    ASSUME AtomicInv(TRUE), NEW r \in AtomicReaders, I386!ReadLow(r)
    PROVE  AtomicInv(TRUE)'
<1>1. /\ UNCHANGED <<now, cached, sample, upc, loop, kept, updated, floor>>
      /\ reader[r].pc = "low"
      /\ reader' = [reader EXCEPT ![r].pc = "high", ![r].low = cached[I386!Clock(r)] % WORD]
  BY DEF I386!ReadLow
<1>2. cached[I386!Clock(r)] % WORD \in Nat
  BY AtomicTypes, TimeAssumption DEF AtomicInv
<1>3. reader \in AtomicRecords
  BY DEF AtomicInv, I386!TypeOK, AtomicRecords
<1>4. reader' \in AtomicRecords
  BY <1>1, <1>2, <1>3 DEF AtomicRecords
<1>5. reader'[r].pc = "high" /\ \A u \in AtomicReaders : u # r => reader'[u] = reader[u]
  BY <1>1, <1>3 DEF AtomicRecords
<1>6. loop[r] = "monotonic"
  BY <1>1 DEF AtomicInv, AtomicReader
<1> QED BY <1>1, <1>4, <1>5, <1>6, AtomicInside

\* The second half: a call that is not judged.
LEMMA AtomicHigh ==
    ASSUME NEW split \in BOOLEAN, AtomicInv(split), NEW r \in AtomicReaders, I386!ReadHigh(r)
    PROVE  AtomicInv(split)'
<1> DEFINE t == (cached[I386!Clock(r)] \div WORD) * WORD + reader[r].low
<1>1. /\ UNCHANGED <<now, cached, sample, upc, loop, kept, updated, floor>>
      /\ reader[r].pc = "high" /\ I386!Return(r, t)
  BY DEF I386!ReadHigh
<1>2. t \in Nat
  <2>1. cached[I386!Clock(r)] \in Nat /\ reader[r].low \in Nat
    BY AtomicTypes DEF AtomicInv
  <2>2. (cached[I386!Clock(r)] \div WORD) * WORD \in Nat
    BY <2>1, RoundDown, TimeAssumption
  <2> QED BY <2>1, <2>2
<1>3. split /\ loop[r] = "monotonic"
  BY <1>1 DEF AtomicInv, AtomicReader
<1> HIDE DEF t
<1> QED BY <1>1, <1>2, <1>3, AtomicReturn

\* The test loops.
LEMMA AtomicRound ==
    ASSUME NEW split \in BOOLEAN, AtomicInv(split), NEW r \in AtomicReaders, I386!Round(r)
    PROVE  AtomicInv(split)'
<1>1. UNCHANGED <<now, cached, sample, upc, loop, updated>>
  BY DEF I386!Round
<1>2. now \in 0 .. MaxAtomic /\ 0 \in 0 .. MaxAtomic
  BY TimeAssumption DEF AtomicInv, I386!TypeOK
<1>3. now \in Nat /\ reader[r].result \in Nat /\ kept[r] \in Nat
  BY AtomicTypes DEF AtomicInv
<1>4. \A s \in 0 .. MaxAtomic : I386!Call(r, s) => AtomicInv(split)'
  BY <1>1, AtomicCall
<1>5. \A k \in Nat : I386!Keep(r, k) /\ (loop[r] # "compare" => k = reader[r].result)
                       => AtomicInv(split)'
  BY <1>1, AtomicKeep
<1>6. CASE I386!test_cached_time(r)
  BY <1>2, <1>3, <1>4, <1>5, <1>6 DEF I386!test_cached_time
<1>7. CASE I386!test_cached_gettimeofday(r)
  BY <1>2, <1>3, <1>4, <1>5, <1>7 DEF I386!test_cached_gettimeofday
<1>8. CASE I386!test_cached_clock_gettime(r)
  BY <1>2, <1>3, <1>4, <1>5, <1>8 DEF I386!test_cached_clock_gettime
<1>9. CASE I386!compare_time_diff(r)
  <2>1. I386!Distance(reader[r].result, now) \in Nat
    BY <1>3 DEF I386!Distance
  <2>2. I386!Distance(reader[r].result, now) % NSEC \in Nat
    BY <2>1, TimeAssumption
  <2> DEFINE usec == I386!Distance(reader[r].result, now) % NSEC
             k == IF usec > kept[r] THEN usec ELSE kept[r]
  <2>3. k \in Nat
    BY <1>3, <2>2
  <2>4. loop[r] = "compare" /\ (I386!Call(r, 0) \/ I386!Keep(r, k))
    BY <1>9 DEF I386!compare_time_diff
  <2> HIDE DEF k
  <2> QED BY <1>2, <1>4, <1>5, <2>3, <2>4
<1>10. CASE I386!Monotonic(r)
  BY <1>2, <1>3, <1>4, <1>5, <1>10 DEF I386!Monotonic
<1> QED BY <1>6, <1>7, <1>8, <1>9, <1>10 DEF I386!Round

\* A step of the cache on i386, and one of cas_time_cache.cpp on x86_64.
LEMMA I386Step ==
    ASSUME AtomicInv(TRUE), I386!Next
    PROVE  AtomicInv(TRUE)'
<1>1. CASE \/ I386!Tick \/ I386!SampleMono \/ I386!SampleReal \/ I386!StoreMono
           \/ I386!StoreReal \/ I386!Sleep
  BY <1>1, AtomicUpdate
<1>2. ASSUME NEW r \in AtomicReaders,
             \/ I386!Load(r) \/ I386!ReadWhole(r) \/ I386!ReadLow(r) \/ I386!ReadHigh(r)
             \/ I386!Round(r)
      PROVE  AtomicInv(TRUE)'
  <2>1. ~ I386!ReadWhole(r)
    BY DEF I386!ReadWhole
  <2> QED BY <1>2, <2>1, AtomicLoad, AtomicLow, AtomicHigh, AtomicRound
<1> QED BY <1>1, <1>2 DEF I386!Next

\* Apart from the width of a load both are the same steps.
LEMMA SameSteps ==
    /\ X86_64!Tick => I386!Tick
    /\ X86_64!run => \/ I386!SampleMono \/ I386!SampleReal \/ I386!StoreMono
                     \/ I386!StoreReal \/ I386!Sleep
    /\ \A r : /\ X86_64!Load(r) => I386!Load(r)
              /\ X86_64!ReadHigh(r) => I386!ReadHigh(r)
              /\ X86_64!Round(r) => I386!Round(r)
<1>1. X86_64!Tick => I386!Tick
  BY DEF X86_64!Tick, I386!Tick
<1>2. X86_64!run => \/ I386!SampleMono \/ I386!SampleReal \/ I386!StoreMono
                    \/ I386!StoreReal \/ I386!Sleep
  BY DEF X86_64!run, X86_64!do_update_time, X86_64!SampleMono, X86_64!SampleReal,
         X86_64!StoreMono, X86_64!StoreReal, X86_64!Sleep, I386!SampleMono, I386!SampleReal,
         I386!StoreMono, I386!StoreReal, I386!Sleep
<1>3. ASSUME NEW r
      PROVE  /\ X86_64!Load(r) => I386!Load(r)
             /\ X86_64!ReadHigh(r) => I386!ReadHigh(r)
             /\ X86_64!Round(r) => I386!Round(r)
  <2>1. X86_64!Clock(r) = I386!Clock(r)
    BY DEF X86_64!Clock, I386!Clock
  <2>2. ASSUME NEW t PROVE X86_64!Return(r, t) => I386!Return(r, t)
    BY DEF X86_64!Return, I386!Return, X86_64!Converted, I386!Converted
  <2>3. ASSUME NEW s PROVE X86_64!Call(r, s) => I386!Call(r, s)
    BY <2>1 DEF X86_64!Call, I386!Call, X86_64!Idle, I386!Idle
  <2>4. ASSUME NEW k PROVE X86_64!Keep(r, k) => I386!Keep(r, k)
    BY DEF X86_64!Keep, I386!Keep, X86_64!Idle, I386!Idle
  <2>5. X86_64!Load(r) => I386!Load(r)
    BY <2>1, <2>2 DEF X86_64!Load, I386!Load
  <2>6. X86_64!ReadHigh(r) => I386!ReadHigh(r)
    BY <2>1, <2>2 DEF X86_64!ReadHigh, I386!ReadHigh
  <2>7. X86_64!Round(r) => I386!Round(r)
    <3>1. \A a, b : X86_64!Distance(a, b) = I386!Distance(a, b)
      BY DEF X86_64!Distance, I386!Distance
    <3>2. X86_64!compare_time_diff(r) => I386!compare_time_diff(r)
      BY <2>3, <2>4, <3>1 DEF X86_64!compare_time_diff, I386!compare_time_diff
    <3>3. X86_64!test_cached_time(r) => I386!test_cached_time(r)
      BY <2>3, <2>4 DEF X86_64!test_cached_time, I386!test_cached_time
    <3>4. X86_64!test_cached_gettimeofday(r) => I386!test_cached_gettimeofday(r)
      BY <2>3, <2>4 DEF X86_64!test_cached_gettimeofday, I386!test_cached_gettimeofday
    <3>5. X86_64!test_cached_clock_gettime(r) => I386!test_cached_clock_gettime(r)
      BY <2>3, <2>4 DEF X86_64!test_cached_clock_gettime, I386!test_cached_clock_gettime
    <3>6. X86_64!Monotonic(r) => I386!Monotonic(r)
      BY <2>3, <2>4 DEF X86_64!Monotonic, I386!Monotonic
    <3> QED BY <3>2, <3>3, <3>4, <3>5, <3>6 DEF X86_64!Round, I386!Round
  <2> QED BY <2>5, <2>6, <2>7
<1> QED BY <1>1, <1>2, <1>3

\* A step of cas_time_cache.cpp on x86_64.
LEMMA X86Step ==
    ASSUME AtomicInv(FALSE), X86_64!CasNext
    PROVE  AtomicInv(FALSE)'
<1>1. CASE X86_64!Tick \/ X86_64!run
  BY <1>1, SameSteps, AtomicUpdate
<1>2. ASSUME NEW r \in AtomicReaders, X86_64!cached_methods(r)
      PROVE  AtomicInv(FALSE)'
  <2>1. ~ X86_64!ReadLow(r)
    BY DEF X86_64!ReadLow
  <2> QED BY <1>2, <2>1, SameSteps, AtomicLoad, AtomicWhole, AtomicHigh
          DEF X86_64!cached_methods
<1>3. ASSUME NEW r \in AtomicReaders,
             \/ X86_64!cached_calls(r)
             \/ /\ \/ X86_64!test_time(r) \/ X86_64!test_gettimeofday(r)
                   \/ X86_64!test_clock_gettime(r) \/ X86_64!test_compare(r)
                /\ UNCHANGED <<now, cached, sample, upc, loop, updated>>
      PROVE  AtomicInv(FALSE)'
  <2>1. X86_64!Round(r)
    BY <1>3 DEF X86_64!cached_calls, X86_64!test_time, X86_64!test_gettimeofday,
                X86_64!test_clock_gettime, X86_64!test_compare, X86_64!Round
  <2> QED BY <2>1, SameSteps, AtomicRound
<1> QED BY <1>1, <1>2, <1>3 DEF X86_64!CasNext

\* The constructor has stored the first sample.
LEMMA AtomicInit ==
    ASSUME NEW split \in BOOLEAN, I386!Init
    PROVE  AtomicInv(split)
<1>1. MaxAtomic \in Nat /\ 0 \in 0 .. MaxAtomic /\ 1 \in 0 .. MaxAtomic
  BY TimeAssumption
<1>2. I386!TypeOK
  BY <1>1 DEF I386!Init, I386!TypeOK, I386!Clocks, I386!Idle
<1>3. TimesOrdered
  BY DEF I386!Init, I386!Clocks, TimesOrdered
<1>4. ASSUME NEW r \in AtomicReaders PROVE AtomicReader(r, split)
  <2>1. /\ reader[r].pc = "idle" /\ kept[r] = 0 /\ I386!Clock(r) \in {"mono", "real"}
    BY DEF I386!Init, I386!Idle, I386!Clock
  <2>2. cached[I386!Clock(r)] = 1
    BY <2>1 DEF I386!Init, I386!Clocks
  <2>3. Precise(r, 1) \in Nat
    BY PreciseOrder
  <2> QED BY <2>1, <2>2, <2>3 DEF AtomicReader
<1> QED BY <1>2, <1>3, <1>4 DEF AtomicInv

\* What the invariant says of a returned time: it is between the floor and the clock, so
\* that a warning needs a long time on one of its two sides.
LEMMA AtomicSound ==
    ASSUME NEW split \in BOOLEAN, AtomicInv(split), NEW r \in AtomicReaders,
           reader[r].pc = "returned", loop[r] # "monotonic" \/ ~ split
    PROVE  /\ Precise(r, floor[r]) <= reader[r].result /\ reader[r].result <= now
           /\ loop[r] # "compare" => kept[r] <= reader[r].result
           /\ loop[r] # "time" => floor[r] <= reader[r].result
           /\ reader[r].result \in Nat /\ now \in Nat /\ floor[r] \in Nat
           /\ reader[r].sys \in Nat
<1> DEFINE t == cached[I386!Clock(r)]
<1>1. /\ reader[r].result \in Nat /\ now \in Nat /\ floor[r] \in Nat /\ reader[r].sys \in Nat
      /\ t \in Nat /\ I386!Clock(r) \in {"mono", "real"}
  BY AtomicTypes DEF AtomicInv
<1>2. /\ Precise(r, floor[r]) <= reader[r].result /\ reader[r].result <= Precise(r, t)
      /\ loop[r] # "compare" => kept[r] <= reader[r].result
  BY DEF AtomicInv, AtomicReader
<1>3. Precise(r, t) \in Nat /\ Precise(r, t) <= t
  BY <1>1, PreciseOrder
<1>4. t <= now
  <2>1. t <= sample[I386!Clock(r)] /\ sample[I386!Clock(r)] <= now
    BY <1>1 DEF AtomicInv, TimesOrdered
  <2>2. sample[I386!Clock(r)] \in Nat
    BY <1>1, AtomicTypes, TimeAssumption DEF AtomicInv
  <2> QED BY <1>1, <2>1, <2>2
<1>5. loop[r] # "time" => Precise(r, floor[r]) = floor[r]
  BY DEF Precise
<1> HIDE DEF t
<1> QED BY <1>1, <1>2, <1>3, <1>4, <1>5

\* Of a time between f and n that differs from s by w or more.
LEMMA Warned ==
    ASSUME NEW f \in Nat, NEW x \in Nat, NEW n \in Nat, NEW s \in Nat, NEW w \in Nat,
           f <= x, x <= n, (IF x > s THEN x - s ELSE s - x) >= w
    PROVE  s >= f + w \/ n >= s + w
OBVIOUS

\* What the two versions promise follows from the invariant.
LEMMA AtomicProperties ==
    /\ AtomicInv(TRUE) => I386!TypeOK /\ I386!TimeSound /\ I386!WarningsJustified
    /\ AtomicInv(FALSE) => X86_64!TypeOK /\ X86_64!TimeSound /\ X86_64!WarningsJustified
<1>1. ASSUME AtomicInv(TRUE) PROVE I386!TypeOK
  BY <1>1 DEF AtomicInv
<1>2. ASSUME AtomicInv(FALSE) PROVE X86_64!TypeOK
  BY <1>2 DEF AtomicInv, I386!TypeOK, X86_64!TypeOK, I386!Clocks, X86_64!Clocks,
              I386!Loops, X86_64!Loops
<1>3. ASSUME AtomicInv(TRUE), NEW r \in AtomicReaders, I386!Judged(r)
      PROVE  /\ I386!Converted(r, floor[r]) <= reader[r].result /\ reader[r].result <= now
             /\ loop[r] # "compare" => kept[r] <= reader[r].result
  <2>1. reader[r].pc = "returned" /\ loop[r] # "monotonic"
    BY <1>3 DEF I386!Judged
  <2> QED BY <1>3, <2>1, AtomicSound, ConvertedPrecise
<1>4. ASSUME AtomicInv(FALSE), NEW r \in AtomicReaders, X86_64!Judged(r)
      PROVE  /\ X86_64!Converted(r, floor[r]) <= reader[r].result /\ reader[r].result <= now
             /\ loop[r] # "compare" => kept[r] <= reader[r].result
  <2>1. reader[r].pc = "returned"
    BY <1>4 DEF X86_64!Judged
  <2> QED BY <1>4, <2>1, AtomicSound, ConvertedPrecise
<1>5. ASSUME NEW split \in BOOLEAN, AtomicInv(split), NEW r \in AtomicReaders,
             reader[r].pc = "returned", loop[r] \in {"gettimeofday", "clock_gettime"},
             I386!Distance(reader[r].result, reader[r].sys) >= Tolerance
      PROVE  \/ reader[r].sys >= floor[r] + Tolerance
             \/ now >= reader[r].sys + Tolerance
  <2>1. loop[r] # "monotonic" /\ loop[r] # "time"
    BY <1>5
  <2>2. /\ floor[r] <= reader[r].result /\ reader[r].result <= now
        /\ reader[r].result \in Nat /\ now \in Nat /\ floor[r] \in Nat /\ reader[r].sys \in Nat
    BY <1>5, <2>1, AtomicSound
  <2>3. Tolerance \in Nat
    BY TimeAssumption
  <2> QED BY <1>5, <2>2, <2>3, Warned DEF I386!Distance
<1>6. ASSUME AtomicInv(TRUE) PROVE I386!WarningsJustified
  BY <1>5, <1>6 DEF I386!WarningsJustified
<1>7. ASSUME AtomicInv(FALSE) PROVE X86_64!WarningsJustified
  <2>1. \A a, b : X86_64!Distance(a, b) = I386!Distance(a, b)
    BY DEF X86_64!Distance, I386!Distance
  <2> QED BY <1>5, <1>7, <2>1 DEF X86_64!WarningsJustified
<1>8. AtomicInv(TRUE) => I386!TimeSound
  BY <1>3 DEF I386!TimeSound
<1>9. AtomicInv(FALSE) => X86_64!TimeSound
  BY <1>4 DEF X86_64!TimeSound
<1> QED BY <1>1, <1>2, <1>6, <1>7, <1>8, <1>9

-----------------------------------------------------------------------------
(* The cache with locks. *)

\* The time a struct stands for: while it is written, the one it will have.
Known(s) == IF s \in writing THEN updater.time ELSE Rw!Value(slots[s])

\* The updater has the lock of the struct it writes, and writes it field by field.
RwUpdater ==
    LET at == slots[updater.slot] IN
    /\ writing = IF updater.pc = "wrlock" THEN {} ELSE {updater.slot}
    /\ updater.time <= now
    /\ updater.pc = "frac" => at.sec = updater.time \div NSEC
    /\ updater.pc = "unlock" => Rw!Value(at) = updater.time
    /\ \A s \in {"tv", "real", "mono"} : Known(s) <= now

\* A reader between lock and unlock is the struct's, which nobody writes; a loop has kept
\* and a call has seen nothing later than what the struct stands for.
RwReader(r) ==
    LET s == Rw!SlotOf(r) IN
    /\ \A u \in {"tv", "real", "mono"} :
          r \in readers[u] <=> u = s /\ reader[r].pc \in {"sec", "frac", "unlock"}
    /\ reader[r].pc # "idle" => floor[r] <= Known(s)
    /\ loop[r] # "compare" => kept[r] <= Precise(r, Known(s))
    /\ reader[r].pc = "frac" => reader[r].sec = slots[s].sec /\ loop[r] # "time"
    /\ reader[r].pc = "unlock" => reader[r].result = Precise(r, Known(s))
    /\ reader[r].pc = "returned" =>
          /\ Precise(r, floor[r]) <= reader[r].result
          /\ reader[r].result <= Precise(r, Known(s))
          /\ loop[r] # "compare" => kept[r] <= reader[r].result

RwInv ==
    /\ Rw!TypeOK /\ RwUpdater
    /\ \A s \in {"tv", "real", "mono"} : s \in writing => readers[s] = {}
    /\ \A r \in RwReaders : RwReader(r)

\* The records of the readers and of the structs.
RwRecords == [RwReaders -> [pc : {"idle", "rdlock", "sec", "frac", "unlock", "returned"},
                            sys : 0 .. MaxRw, sec : Nat, result : Nat]]
RwStructs == [{"tv", "real", "mono"} -> [sec : Nat, frac : 0 .. NSEC - 1]]

\* What the invariant says of types.
LEMMA RwTypes ==
    ASSUME Rw!TypeOK
    PROVE  /\ now \in Nat /\ now \in 0 .. MaxRw /\ slots \in RwStructs /\ reader \in RwRecords
           /\ updater \in [pc : {"wrlock", "sec", "frac", "unlock"},
                            slot : {"tv", "real", "mono"}, time : 0 .. MaxRw]
           /\ updater.time \in Nat /\ updater.slot \in {"tv", "real", "mono"}
           /\ updater.pc \in {"wrlock", "sec", "frac", "unlock"}
           /\ writing \subseteq {"tv", "real", "mono"}
           /\ readers \in [{"tv", "real", "mono"} -> SUBSET RwReaders]
           /\ kept \in [RwReaders -> Nat] /\ floor \in [RwReaders -> Nat]
           /\ \A s \in {"tv", "real", "mono"} :
                 /\ slots[s].sec \in Nat /\ slots[s].frac \in 0 .. NSEC - 1
                 /\ Rw!Value(slots[s]) \in Nat /\ Known(s) \in Nat
           /\ \A r \in RwReaders :
                 /\ Rw!SlotOf(r) \in {"tv", "real", "mono"}
                 /\ kept[r] \in Nat /\ floor[r] \in Nat /\ reader[r].result \in Nat
                 /\ reader[r].sys \in Nat /\ reader[r].sec \in Nat
                 /\ reader[r].pc \in {"idle", "rdlock", "sec", "frac", "unlock", "returned"}
<1>1. MaxRw \in Nat /\ NSEC \in Nat \ {0}
  BY TimeAssumption
<1>2. /\ now \in 0 .. MaxRw /\ slots \in RwStructs /\ reader \in RwRecords
      /\ updater \in [pc : {"wrlock", "sec", "frac", "unlock"},
                       slot : {"tv", "real", "mono"}, time : 0 .. MaxRw]
      /\ writing \subseteq {"tv", "real", "mono"}
      /\ readers \in [{"tv", "real", "mono"} -> SUBSET RwReaders]
      /\ kept \in [RwReaders -> Nat] /\ floor \in [RwReaders -> Nat]
  BY DEF Rw!TypeOK, Rw!Slots, RwRecords, RwStructs
<1>3. \A x \in 0 .. MaxRw : x \in Nat
  BY <1>1
<1>4. /\ updater.time \in 0 .. MaxRw /\ updater.slot \in {"tv", "real", "mono"}
      /\ updater.pc \in {"wrlock", "sec", "frac", "unlock"}
  BY <1>2
<1>5. ASSUME NEW s \in {"tv", "real", "mono"}
      PROVE  /\ slots[s].sec \in Nat /\ slots[s].frac \in 0 .. NSEC - 1
             /\ Rw!Value(slots[s]) \in Nat /\ Known(s) \in Nat
  <2>1. slots[s].sec \in Nat /\ slots[s].frac \in 0 .. NSEC - 1
    BY <1>2 DEF RwStructs
  <2>2. Rw!Value(slots[s]) \in Nat
    BY <1>1, <2>1, RoundSplit DEF Rw!Value
  <2> QED BY <1>3, <1>4, <2>1, <2>2 DEF Known
<1>6. ASSUME NEW r \in RwReaders
      PROVE  /\ Rw!SlotOf(r) \in {"tv", "real", "mono"}
             /\ kept[r] \in Nat /\ floor[r] \in Nat /\ reader[r].result \in Nat
             /\ reader[r].sys \in Nat /\ reader[r].sec \in Nat
             /\ reader[r].pc \in {"idle", "rdlock", "sec", "frac", "unlock", "returned"}
  <2>1. Rw!SlotOf(r) \in {"tv", "real", "mono"}
    BY DEF Rw!SlotOf
  <2>2. /\ reader[r].result \in Nat /\ reader[r].sys \in 0 .. MaxRw /\ reader[r].sec \in Nat
        /\ reader[r].pc \in {"idle", "rdlock", "sec", "frac", "unlock", "returned"}
    BY <1>2 DEF RwRecords
  <2>3. kept[r] \in Nat /\ floor[r] \in Nat
    BY <1>2
  <2> QED BY <1>3, <2>1, <2>2, <2>3
<1> QED BY <1>2, <1>3, <1>4, <1>5, <1>6

\* The same for the next state.
LEMMA KnownNext ==
    ASSUME (Rw!TypeOK)', NEW s \in {"tv", "real", "mono"}
    PROVE  Known(s)' \in Nat
<1>1. MaxRw \in Nat /\ NSEC \in Nat \ {0}
  BY TimeAssumption
<1>2. /\ slots' \in RwStructs
      /\ updater' \in [pc : {"wrlock", "sec", "frac", "unlock"},
                        slot : {"tv", "real", "mono"}, time : 0 .. MaxRw]
  BY DEF Rw!TypeOK, Rw!Slots, RwStructs
<1>3. slots'[s].sec \in Nat /\ slots'[s].frac \in 0 .. NSEC - 1 /\ updater'.time \in 0 .. MaxRw
  BY <1>2 DEF RwStructs
<1>4. slots'[s].sec * NSEC + slots'[s].frac \in Nat /\ updater'.time \in Nat
  BY <1>1, <1>3, RoundSplit
<1> QED BY <1>4 DEF Known, Rw!Value

\* A step of the updater or of the clock, which no reader minds: what a struct stands for
\* moves forward only, and not at all while somebody reads it.
LEMMA RwForward ==
    ASSUME RwInv, (Rw!TypeOK)', RwUpdater', UNCHANGED <<loop, reader, readers, kept, floor>>,
           \A s \in {"tv", "real", "mono"} :
              /\ Known(s) <= Known(s)'
              /\ readers[s] # {} =>
                    s \notin writing' /\ Known(s)' = Known(s) /\ slots'[s].sec = slots[s].sec
    PROVE  RwInv'
<1>1. ASSUME NEW r \in RwReaders PROVE RwReader(r)'
  <2>1. PICK s \in {"tv", "real", "mono"} : Rw!SlotOf(r) = s
    BY RwTypes DEF RwInv
  <2>2. Rw!SlotOf(r)' = s
    BY <2>1 DEF Rw!SlotOf
  <2>3. PICK k \in Nat : k = Known(s)
    BY RwTypes DEF RwInv
  <2>4. PICK n \in Nat : n = Known(s)'
    BY KnownNext
  <2>5. k <= n /\ floor[r] \in Nat /\ kept[r] \in Nat /\ reader[r].result \in Nat
    BY <2>3, <2>4, RwTypes DEF RwInv
  <2>6. /\ Precise(r, k) \in Nat /\ Precise(r, n) \in Nat /\ Precise(r, k) <= Precise(r, n)
        /\ Precise(r, floor[r]) \in Nat
    BY <2>5, PreciseOrder
  <2>7. /\ \A u \in {"tv", "real", "mono"} :
              r \in readers[u] <=> u = s /\ reader[r].pc \in {"sec", "frac", "unlock"}
        /\ reader[r].pc # "idle" => floor[r] <= k
        /\ loop[r] # "compare" => kept[r] <= Precise(r, k)
        /\ reader[r].pc = "frac" => reader[r].sec = slots[s].sec /\ loop[r] # "time"
        /\ reader[r].pc = "unlock" => reader[r].result = Precise(r, k)
        /\ reader[r].pc = "returned" =>
              /\ Precise(r, floor[r]) <= reader[r].result
              /\ reader[r].result <= Precise(r, k)
              /\ loop[r] # "compare" => kept[r] <= reader[r].result
    BY <2>1, <2>3 DEF RwReader, RwInv
  <2>8. reader[r].pc \in {"sec", "frac", "unlock"} => n = k /\ slots'[s].sec = slots[s].sec
    BY <2>3, <2>4, <2>7
  <2>9. /\ \A u \in {"tv", "real", "mono"} :
              r \in readers[u] <=> u = s /\ reader[r].pc \in {"sec", "frac", "unlock"}
        /\ reader[r].pc # "idle" => floor[r] <= n
        /\ loop[r] # "compare" => kept[r] <= Precise(r, n)
        /\ reader[r].pc = "frac" => reader[r].sec = slots'[s].sec /\ loop[r] # "time"
        /\ reader[r].pc = "unlock" => reader[r].result = Precise(r, n)
        /\ reader[r].pc = "returned" =>
              /\ Precise(r, floor[r]) <= reader[r].result
              /\ reader[r].result <= Precise(r, n)
              /\ loop[r] # "compare" => kept[r] <= reader[r].result
    BY <2>5, <2>6, <2>7, <2>8
  <2>10. Precise(r, n)' = Precise(r, n) /\ Precise(r, floor[r])' = Precise(r, floor[r])
    BY DEF Precise
  <2> QED BY <2>2, <2>4, <2>9, <2>10 DEF RwReader
<1>2. ASSUME NEW s \in {"tv", "real", "mono"}, s \in writing' PROVE readers'[s] = {}
  BY <1>2
<1> QED BY <1>1, <1>2 DEF RwInv

\* The clock, and the updater's steps on one struct.
LEMMA RwTick ==
    ASSUME RwInv, Rw!Tick
    PROVE  RwInv'
<1>1. /\ now < MaxRw /\ now' = now + 1
      /\ UNCHANGED <<slots, writing, readers, updater, loop, reader, kept, floor>>
  BY DEF Rw!Tick
<1>2. now \in Nat /\ MaxRw \in Nat /\ \A s \in {"tv", "real", "mono"} : Known(s) \in Nat
  BY RwTypes, TimeAssumption DEF RwInv
<1>3. (Rw!TypeOK)'
  BY <1>1, <1>2 DEF RwInv, Rw!TypeOK
<1>4. \A s : Known(s)' = Known(s)
  BY <1>1 DEF Known, Rw!Value
<1>5. now <= now' /\ now' \in Nat
  BY <1>1, <1>2
<1>6. updater.time \in Nat
  BY RwTypes DEF RwInv
<1>7. RwUpdater'
  BY <1>1, <1>2, <1>4, <1>5, <1>6 DEF RwInv, RwUpdater, Rw!Value
<1>8. ASSUME NEW s \in {"tv", "real", "mono"}
      PROVE  /\ Known(s) <= Known(s)'
             /\ readers[s] # {} =>
                   s \notin writing' /\ Known(s)' = Known(s) /\ slots'[s].sec = slots[s].sec
  BY <1>1, <1>2, <1>4 DEF RwInv
<1> QED BY <1>1, <1>3, <1>7, <1>8, RwForward

\* The lock is taken with nobody reading; from now on the struct stands for the time read.
LEMMA RwWrLock ==
    ASSUME RwInv, Rw!WrLock
    PROVE  RwInv'
<1>1. PICK u \in {"tv", "real", "mono"} : updater.slot = u
  BY RwTypes DEF RwInv
<1>2. /\ updater.pc = "wrlock" /\ readers[u] = {} /\ writing' = {u}
      /\ updater' = [updater EXCEPT !.pc = "sec", !.time = now]
      /\ UNCHANGED <<now, slots, readers, loop, reader, kept, floor>>
  BY <1>1 DEF Rw!WrLock
<1>3. now \in Nat /\ now \in 0 .. MaxRw /\ \A s \in {"tv", "real", "mono"} : Known(s) \in Nat
  BY RwTypes DEF RwInv
<1>4. /\ updater' \in [pc : {"wrlock", "sec", "frac", "unlock"},
                        slot : {"tv", "real", "mono"}, time : 0 .. MaxRw]
      /\ updater'.pc = "sec" /\ updater'.slot = u /\ updater'.time = now
  BY <1>1, <1>2, <1>3, RwTypes DEF RwInv
<1>5. (Rw!TypeOK)'
  BY <1>2, <1>4 DEF RwInv, Rw!TypeOK, Rw!Slots
<1>6. writing = {} /\ \A s \in {"tv", "real", "mono"} : Known(s) <= now
  BY <1>2 DEF RwInv, RwUpdater
<1>7. \A s : Known(s)' = IF s = u THEN now ELSE Known(s)
  BY <1>2, <1>4, <1>6 DEF Known, Rw!Value
<1>8. RwUpdater'
  BY <1>2, <1>3, <1>4, <1>6, <1>7 DEF RwUpdater
<1>9. ASSUME NEW s \in {"tv", "real", "mono"}
      PROVE  /\ Known(s) <= Known(s)'
             /\ readers[s] # {} =>
                   s \notin writing' /\ Known(s)' = Known(s) /\ slots'[s].sec = slots[s].sec
  BY <1>2, <1>3, <1>6, <1>7
<1> QED BY <1>2, <1>5, <1>8, <1>9, RwForward

\* The seconds of a struct that only the updater sees.
LEMMA RwWriteSec ==
    ASSUME RwInv, Rw!WriteSec
    PROVE  RwInv'
<1>1. PICK u \in {"tv", "real", "mono"} : updater.slot = u
  BY RwTypes DEF RwInv
<1>2. PICK q : q = updater.time \div NSEC
  OBVIOUS
<1>3. /\ updater.pc = "sec" /\ slots' = [slots EXCEPT ![u].sec = q]
      /\ updater' = [updater EXCEPT !.pc = "frac"]
      /\ UNCHANGED <<now, writing, readers, loop, reader, kept, floor>>
  BY <1>1, <1>2 DEF Rw!WriteSec, Rw!Split
<1>4. /\ now \in Nat /\ updater.time \in Nat
      /\ \A s \in {"tv", "real", "mono"} : Known(s) \in Nat
  BY RwTypes DEF RwInv
<1>5. q \in Nat
  BY <1>2, <1>4, RoundDown, TimeAssumption
<1>6. /\ updater' \in [pc : {"wrlock", "sec", "frac", "unlock"},
                        slot : {"tv", "real", "mono"}, time : 0 .. MaxRw]
      /\ updater'.pc = "frac" /\ updater'.slot = u /\ updater'.time = updater.time
  BY <1>1, <1>3, RwTypes DEF RwInv
<1>7. slots \in RwStructs
  BY RwTypes DEF RwInv
<1>8. slots' \in RwStructs
  BY <1>3, <1>5, <1>7 DEF RwStructs
<1>9. slots'[u].sec = q /\ \A s \in {"tv", "real", "mono"} : s # u => slots'[s] = slots[s]
  BY <1>3, <1>7 DEF RwStructs
<1>10. (Rw!TypeOK)'
  BY <1>3, <1>6, <1>8 DEF RwInv, Rw!TypeOK, Rw!Slots, RwStructs
<1>11. writing = {u} /\ updater.time <= now /\ \A s \in {"tv", "real", "mono"} : Known(s) <= now
  BY <1>1, <1>3 DEF RwInv, RwUpdater
<1>12. \A s \in {"tv", "real", "mono"} : Known(s)' = Known(s)
  BY <1>3, <1>6, <1>9, <1>11 DEF Known, Rw!Value
<1>13. RwUpdater'
  BY <1>2, <1>3, <1>6, <1>9, <1>11, <1>12 DEF RwUpdater
<1>14. ASSUME NEW s \in {"tv", "real", "mono"}
       PROVE  /\ Known(s) <= Known(s)'
              /\ readers[s] # {} =>
                    s \notin writing' /\ Known(s)' = Known(s) /\ slots'[s].sec = slots[s].sec
  BY <1>3, <1>4, <1>9, <1>11, <1>12 DEF RwInv
<1> QED BY <1>3, <1>10, <1>13, <1>14, RwForward

\* Its fraction, with which it holds the time.
LEMMA RwWriteFrac ==
    ASSUME RwInv, Rw!WriteFrac
    PROVE  RwInv'
<1>1. PICK u \in {"tv", "real", "mono"} : updater.slot = u
  BY RwTypes DEF RwInv
<1>2. PICK m : m = updater.time % NSEC
  OBVIOUS
<1>3. /\ updater.pc = "frac" /\ slots' = [slots EXCEPT ![u].frac = m]
      /\ updater' = [updater EXCEPT !.pc = "unlock"]
      /\ UNCHANGED <<now, writing, readers, loop, reader, kept, floor>>
  BY <1>1, <1>2 DEF Rw!WriteFrac, Rw!Split
<1>4. /\ now \in Nat /\ updater.time \in Nat
      /\ \A s \in {"tv", "real", "mono"} : Known(s) \in Nat
  BY RwTypes DEF RwInv
<1>5. m \in 0 .. NSEC - 1 /\ (updater.time \div NSEC) * NSEC + m = updater.time
  BY <1>2, <1>4, RoundDown, TimeAssumption
<1>6. /\ updater' \in [pc : {"wrlock", "sec", "frac", "unlock"},
                        slot : {"tv", "real", "mono"}, time : 0 .. MaxRw]
      /\ updater'.pc = "unlock" /\ updater'.slot = u /\ updater'.time = updater.time
  BY <1>1, <1>3, RwTypes DEF RwInv
<1>7. slots \in RwStructs
  BY RwTypes DEF RwInv
<1>8. slots' \in RwStructs
  BY <1>3, <1>5, <1>7 DEF RwStructs
<1>9. /\ slots'[u].sec = slots[u].sec /\ slots'[u].frac = m
      /\ \A s \in {"tv", "real", "mono"} : s # u => slots'[s] = slots[s]
  BY <1>3, <1>7 DEF RwStructs
<1>10. (Rw!TypeOK)'
  BY <1>3, <1>6, <1>8 DEF RwInv, Rw!TypeOK, Rw!Slots, RwStructs
<1>11. /\ writing = {u} /\ updater.time <= now /\ slots[u].sec = updater.time \div NSEC
       /\ \A s \in {"tv", "real", "mono"} : Known(s) <= now
  BY <1>1, <1>3 DEF RwInv, RwUpdater
<1>12. \A s \in {"tv", "real", "mono"} : Known(s)' = Known(s)
  BY <1>3, <1>6, <1>9, <1>11 DEF Known, Rw!Value
<1>13. Rw!Value(slots[u])' = updater.time
  BY <1>5, <1>9, <1>11 DEF Rw!Value
<1>14. RwUpdater'
  BY <1>3, <1>6, <1>11, <1>12, <1>13 DEF RwUpdater
<1>15. ASSUME NEW s \in {"tv", "real", "mono"}
       PROVE  /\ Known(s) <= Known(s)'
              /\ readers[s] # {} =>
                    s \notin writing' /\ Known(s)' = Known(s) /\ slots'[s].sec = slots[s].sec
  BY <1>3, <1>4, <1>9, <1>11, <1>12 DEF RwInv
<1> QED BY <1>3, <1>10, <1>14, <1>15, RwForward

\* The struct stands for the same time as before, now by its contents.
LEMMA RwWrUnlock ==
    ASSUME RwInv, Rw!WrUnlock
    PROVE  RwInv'
<1>1. PICK u \in {"tv", "real", "mono"} : updater.slot = u
  BY RwTypes DEF RwInv
<1>2. PICK v \in {"tv", "real", "mono"} : v = Rw!After[u]
  BY DEF Rw!After
<1>3. /\ updater.pc = "unlock" /\ writing' = {}
      /\ updater' = [pc |-> "wrlock", slot |-> v, time |-> 0]
      /\ UNCHANGED <<now, slots, readers, loop, reader, kept, floor>>
  BY <1>1, <1>2 DEF Rw!WrUnlock
<1>4. /\ now \in Nat /\ 0 \in 0 .. MaxRw
      /\ \A s \in {"tv", "real", "mono"} : Known(s) \in Nat
  BY RwTypes, TimeAssumption DEF RwInv
<1>5. (Rw!TypeOK)'
  BY <1>3, <1>4 DEF RwInv, Rw!TypeOK, Rw!Slots
<1>6. /\ writing = {u} /\ Rw!Value(slots[u]) = updater.time
      /\ \A s \in {"tv", "real", "mono"} : Known(s) <= now
  BY <1>1, <1>3 DEF RwInv, RwUpdater
<1>7. \A s \in {"tv", "real", "mono"} : Known(s)' = Known(s)
  BY <1>3, <1>6 DEF Known, Rw!Value
<1>8. RwUpdater'
  BY <1>3, <1>4, <1>6, <1>7 DEF RwUpdater
<1>9. ASSUME NEW s \in {"tv", "real", "mono"}
      PROVE  /\ Known(s) <= Known(s)'
             /\ readers[s] # {} =>
                   s \notin writing' /\ Known(s)' = Known(s) /\ slots'[s].sec = slots[s].sec
  BY <1>3, <1>4, <1>7
<1> QED BY <1>3, <1>5, <1>8, <1>9, RwForward

\* A step of one reader leaves the structs and the other readers alone.
LEMMA RwOwn ==
    ASSUME RwInv, NEW r \in RwReaders, UNCHANGED <<now, slots, writing, updater, loop>>,
           reader' \in RwRecords, kept' \in [RwReaders -> Nat], floor' \in [RwReaders -> Nat],
           readers' \in [{"tv", "real", "mono"} -> SUBSET RwReaders],
           \A s \in {"tv", "real", "mono"} : s \in writing => readers'[s] = {},
           \A u \in RwReaders : u # r =>
              /\ reader'[u] = reader[u] /\ kept'[u] = kept[u] /\ floor'[u] = floor[u]
              /\ \A s \in {"tv", "real", "mono"} : u \in readers'[s] <=> u \in readers[s],
           RwReader(r)'
    PROVE  RwInv'
<1>1. (Rw!TypeOK)'
  BY DEF RwInv, Rw!TypeOK, Rw!Slots, RwRecords
<1>2. \A s : Known(s)' = Known(s)
  BY DEF Known, Rw!Value
<1>3. RwUpdater'
  BY <1>2 DEF RwInv, RwUpdater, Rw!Value
<1>4. ASSUME NEW u \in RwReaders, u # r PROVE RwReader(u)'
  <2>1. /\ reader'[u] = reader[u] /\ kept'[u] = kept[u] /\ floor'[u] = floor[u]
        /\ \A s \in {"tv", "real", "mono"} : u \in readers'[s] <=> u \in readers[s]
    BY <1>4
  <2>2. PICK s : Rw!SlotOf(u) = s
    OBVIOUS
  <2>3. Rw!SlotOf(u)' = s
    BY <2>2 DEF Rw!SlotOf
  <2>4. PICK k : k = Known(s)
    OBVIOUS
  <2>5. \A x : Precise(u, x)' = Precise(u, x)
    BY DEF Precise
  <2>6. Precise(u, floor[u])' = Precise(u, floor[u])
    BY <2>1 DEF Precise
  <2>7. RwReader(u)
    BY DEF RwInv
  <2> QED BY <1>2, <2>1, <2>2, <2>3, <2>4, <2>5, <2>6, <2>7 DEF RwReader
<1> QED BY <1>1, <1>3, <1>4 DEF RwInv

\* The invariant of a reader, told with its struct s and what that stands for.
RwAt(r, s, k) ==
    /\ \A u \in {"tv", "real", "mono"} :
          r \in readers[u] <=> u = s /\ reader[r].pc \in {"sec", "frac", "unlock"}
    /\ reader[r].pc # "idle" => floor[r] <= k
    /\ loop[r] # "compare" => kept[r] <= Precise(r, k)
    /\ reader[r].pc = "frac" => reader[r].sec = slots[s].sec /\ loop[r] # "time"
    /\ reader[r].pc = "unlock" => reader[r].result = Precise(r, k)
    /\ reader[r].pc = "returned" =>
          /\ Precise(r, floor[r]) <= reader[r].result
          /\ reader[r].result <= Precise(r, k)
          /\ loop[r] # "compare" => kept[r] <= reader[r].result

\* A reader's step sees one struct and what it stands for.
LEMMA RwReaderAt ==
    ASSUME RwInv, NEW r \in RwReaders, UNCHANGED <<slots, writing, updater, loop>>
    PROVE  \E s \in {"tv", "real", "mono"}, k \in Nat :
              /\ s = Rw!SlotOf(r) /\ k = Known(s) /\ RwAt(r, s, k)
              /\ RwAt(r, s, k)' => RwReader(r)'
              /\ s \notin writing => k = Rw!Value(slots[s])
              /\ \A x : Precise(r, x)' = Precise(r, x)
<1>1. PICK s \in {"tv", "real", "mono"} : s = Rw!SlotOf(r)
  BY RwTypes DEF RwInv
<1>2. PICK k \in Nat : k = Known(s)
  BY RwTypes DEF RwInv
<1>3. RwAt(r, s, k)
  BY <1>1, <1>2 DEF RwInv, RwReader, RwAt
<1>4. Rw!SlotOf(r)' = s
  BY <1>1 DEF Rw!SlotOf
<1>5. Known(s)' = k
  BY <1>2 DEF Known, Rw!Value
<1>6. RwAt(r, s, k)' => RwReader(r)'
  BY <1>4, <1>5 DEF RwReader, RwAt
<1>7. s \notin writing => k = Rw!Value(slots[s])
  BY <1>2 DEF Known
<1>8. \A x : Precise(r, x)' = Precise(r, x)
  BY DEF Precise
<1> QED BY <1>1, <1>2, <1>3, <1>6, <1>7, <1>8

\* A reader's lock: the struct is not being written.
LEMMA RwRdLock ==
    ASSUME RwInv, NEW r \in RwReaders, Rw!RdLock(r)
    PROVE  RwInv'
<1>1. UNCHANGED <<now, slots, writing, updater, loop, kept, floor>> /\ reader[r].pc = "rdlock"
  BY DEF Rw!RdLock
<1>2. PICK s \in {"tv", "real", "mono"}, k \in Nat :
         /\ s = Rw!SlotOf(r) /\ k = Known(s) /\ RwAt(r, s, k)
         /\ RwAt(r, s, k)' => RwReader(r)'
         /\ s \notin writing => k = Rw!Value(slots[s])
         /\ \A x : Precise(r, x)' = Precise(r, x)
  BY <1>1, RwReaderAt
<1>3. /\ s \notin writing /\ readers' = [readers EXCEPT ![s] = @ \cup {r}]
      /\ reader' = [reader EXCEPT ![r].pc = "sec"]
  BY <1>2 DEF Rw!RdLock
<1>4. /\ reader \in RwRecords /\ readers \in [{"tv", "real", "mono"} -> SUBSET RwReaders]
      /\ kept \in [RwReaders -> Nat] /\ floor \in [RwReaders -> Nat]
  BY RwTypes DEF RwInv
<1>5. reader' \in RwRecords
  BY <1>3, <1>4 DEF RwRecords
<1>6. /\ reader'[r].pc = "sec" /\ \A u \in RwReaders : u # r => reader'[u] = reader[u]
  BY <1>3, <1>4 DEF RwRecords
<1>7. /\ readers' \in [{"tv", "real", "mono"} -> SUBSET RwReaders]
      /\ \A u : u # r => \A x \in {"tv", "real", "mono"} : u \in readers'[x] <=> u \in readers[x]
      /\ \A x \in {"tv", "real", "mono"} : r \in readers'[x] <=> x = s \/ r \in readers[x]
      /\ \A x \in {"tv", "real", "mono"} : x # s => readers'[x] = readers[x]
  BY <1>3, <1>4
<1>8. \A x \in {"tv", "real", "mono"} : x \in writing => readers'[x] = {}
  BY <1>3, <1>7 DEF RwInv
<1>9. RwAt(r, s, k)'
  BY <1>1, <1>2, <1>6, <1>7 DEF RwAt
<1> QED BY <1>1, <1>2, <1>4, <1>5, <1>6, <1>7, <1>8, <1>9, RwOwn

\* A struct that is being read is not being written.
LEMMA RwReading ==
    ASSUME RwInv, NEW r \in RwReaders, NEW s \in {"tv", "real", "mono"}, NEW k,
           RwAt(r, s, k), reader[r].pc \in {"sec", "frac", "unlock"}
    PROVE  s \notin writing
BY DEF RwInv, RwAt

\* The first field, all that cached_time() needs.
LEMMA RwReadSec ==
    ASSUME RwInv, NEW r \in RwReaders, Rw!ReadSec(r)
    PROVE  RwInv'
<1>1. /\ UNCHANGED <<now, slots, writing, readers, updater, loop, kept, floor>>
      /\ reader[r].pc = "sec"
  BY DEF Rw!ReadSec
<1>2. PICK s \in {"tv", "real", "mono"}, k \in Nat :
         /\ s = Rw!SlotOf(r) /\ k = Known(s) /\ RwAt(r, s, k)
         /\ RwAt(r, s, k)' => RwReader(r)'
         /\ s \notin writing => k = Rw!Value(slots[s])
         /\ \A x : Precise(r, x)' = Precise(r, x)
  BY <1>1, RwReaderAt
<1>3. PICK c \in Nat : c = slots[s].sec
  BY RwTypes DEF RwInv
<1>4. PICK v \in Nat : v = c * NSEC
  BY TimesMono, TimeAssumption
<1>4a. PICK p \in {"idle", "rdlock", "sec", "frac", "unlock", "returned"} :
         p = IF loop[r] = "time" THEN "unlock" ELSE "frac"
  OBVIOUS
<1>5. reader' = [reader EXCEPT ![r].sec = c, ![r].result = v, ![r].pc = p]
  BY <1>4a, <1>2, <1>3, <1>4 DEF Rw!ReadSec
<1>6. /\ reader \in RwRecords /\ readers \in [{"tv", "real", "mono"} -> SUBSET RwReaders]
      /\ kept \in [RwReaders -> Nat] /\ floor \in [RwReaders -> Nat]
  BY RwTypes DEF RwInv
<1>7. reader' \in RwRecords
  <2> DEFINE g == [reader EXCEPT ![r].sec = c, ![r].result = v, ![r].pc = p]
  <2>1. reader' = g
    BY <1>5
  <2>2. reader \in [RwReaders -> [pc : {"idle", "rdlock", "sec", "frac", "unlock", "returned"},
                                  sys : 0 .. MaxRw, sec : Nat, result : Nat]]
    BY <1>6 DEF RwRecords
  <2>3. g = [reader EXCEPT ![r].sec = c, ![r].result = v, ![r].pc = p]
    OBVIOUS
  <2> HIDE DEF g
  <2>4. g \in [RwReaders -> [pc : {"idle", "rdlock", "sec", "frac", "unlock", "returned"},
                             sys : 0 .. MaxRw, sec : Nat, result : Nat]]
    BY ONLY <2>2, <2>3, r \in RwReaders, c \in Nat, v \in Nat,
            p \in {"idle", "rdlock", "sec", "frac", "unlock", "returned"}
  <2> QED BY <2>1, <2>4 DEF RwRecords
<1>8. /\ reader'[r].pc = p
      /\ reader'[r].sec = c /\ reader'[r].result = v
      /\ \A u \in RwReaders : u # r => reader'[u] = reader[u]
  BY <1>5, <1>6 DEF RwRecords
<1>9. loop[r] = "time" => v = Precise(r, k)
  <2>1. k = c * NSEC + slots[s].frac
    BY <1>1, <1>2, <1>3, RwReading DEF Rw!Value
  <2>2. k \div NSEC = c
    BY <2>1, RwTypes, RoundSplit, TimeAssumption DEF RwInv
  <2> QED BY <1>4, <2>2 DEF Precise
<1>10. RwAt(r, s, k)'
  BY <1>4a, <1>1, <1>2, <1>3, <1>8, <1>9 DEF RwAt
<1>11. \A x \in {"tv", "real", "mono"} : x \in writing => readers'[x] = {}
  BY <1>1 DEF RwInv
<1> QED BY <1>1, <1>2, <1>6, <1>7, <1>8, <1>10, <1>11, RwOwn

\* The second field belongs to the first: the lock is held since.
LEMMA RwReadFrac ==
    ASSUME RwInv, NEW r \in RwReaders, Rw!ReadFrac(r)
    PROVE  RwInv'
<1>1. /\ UNCHANGED <<now, slots, writing, readers, updater, loop, kept, floor>>
      /\ reader[r].pc = "frac"
  BY DEF Rw!ReadFrac
<1>2. PICK s \in {"tv", "real", "mono"}, k \in Nat :
         /\ s = Rw!SlotOf(r) /\ k = Known(s) /\ RwAt(r, s, k)
         /\ RwAt(r, s, k)' => RwReader(r)'
         /\ s \notin writing => k = Rw!Value(slots[s])
         /\ \A x : Precise(r, x)' = Precise(r, x)
  BY <1>1, RwReaderAt
<1>3. k = reader[r].sec * NSEC + slots[s].frac /\ loop[r] # "time"
  <2>1. reader[r].sec = slots[s].sec /\ loop[r] # "time"
    BY <1>1, <1>2 DEF RwAt
  <2>2. k = Rw!Value(slots[s])
    BY <1>1, <1>2, RwReading
  <2> QED BY <2>1, <2>2 DEF Rw!Value
<1>4. k = Precise(r, k)
  BY <1>3 DEF Precise
<1>5. reader' = [reader EXCEPT ![r].pc = "unlock", ![r].result = k]
  BY <1>2, <1>3 DEF Rw!ReadFrac
<1>6. /\ reader \in RwRecords /\ readers \in [{"tv", "real", "mono"} -> SUBSET RwReaders]
      /\ kept \in [RwReaders -> Nat] /\ floor \in [RwReaders -> Nat]
  BY RwTypes DEF RwInv
<1>7. reader' \in RwRecords
  BY <1>5, <1>6 DEF RwRecords
<1>8. /\ reader'[r].pc = "unlock" /\ reader'[r].result = k
      /\ \A u \in RwReaders : u # r => reader'[u] = reader[u]
  BY <1>5, <1>6 DEF RwRecords
<1>9. RwAt(r, s, k)'
  BY <1>1, <1>2, <1>4, <1>8 DEF RwAt
<1>10. \A x \in {"tv", "real", "mono"} : x \in writing => readers'[x] = {}
  BY <1>1 DEF RwInv
<1> QED BY <1>1, <1>2, <1>6, <1>7, <1>8, <1>9, <1>10, RwOwn

\* The unlock ends the call.
LEMMA RwRdUnlock ==
    ASSUME RwInv, NEW r \in RwReaders, Rw!RdUnlock(r)
    PROVE  RwInv'
<1>1. UNCHANGED <<now, slots, writing, updater, loop, kept, floor>> /\ reader[r].pc = "unlock"
  BY DEF Rw!RdUnlock
<1>2. PICK s \in {"tv", "real", "mono"}, k \in Nat :
         /\ s = Rw!SlotOf(r) /\ k = Known(s) /\ RwAt(r, s, k)
         /\ RwAt(r, s, k)' => RwReader(r)'
         /\ s \notin writing => k = Rw!Value(slots[s])
         /\ \A x : Precise(r, x)' = Precise(r, x)
  BY <1>1, RwReaderAt
<1>3. /\ readers' = [readers EXCEPT ![s] = @ \ {r}]
      /\ reader' = [reader EXCEPT ![r].pc = "returned", ![r].sec = 0]
  BY <1>2 DEF Rw!RdUnlock
<1>4. /\ reader \in RwRecords /\ readers \in [{"tv", "real", "mono"} -> SUBSET RwReaders]
      /\ kept \in [RwReaders -> Nat] /\ floor \in [RwReaders -> Nat]
  BY RwTypes DEF RwInv
<1>5. reader' \in RwRecords
  BY <1>3, <1>4 DEF RwRecords
<1>6. /\ reader'[r].pc = "returned" /\ reader'[r].result = reader[r].result
      /\ \A u \in RwReaders : u # r => reader'[u] = reader[u]
  BY <1>3, <1>4 DEF RwRecords
<1>7. /\ readers' \in [{"tv", "real", "mono"} -> SUBSET RwReaders]
      /\ \A u : u # r => \A x \in {"tv", "real", "mono"} : u \in readers'[x] <=> u \in readers[x]
      /\ \A x \in {"tv", "real", "mono"} : readers'[x] \subseteq readers[x]
      /\ \A x \in {"tv", "real", "mono"} : r \in readers'[x] <=> x # s /\ r \in readers[x]
  BY <1>3, <1>4
<1>8. \A x \in {"tv", "real", "mono"} : x \in writing => readers'[x] = {}
  BY <1>7 DEF RwInv
<1>9. /\ Precise(r, floor[r]) <= Precise(r, k) /\ Precise(r, k) \in Nat
      /\ floor[r] <= k /\ reader[r].result = Precise(r, k)
  <2>1. floor[r] \in Nat /\ floor[r] <= k /\ reader[r].result = Precise(r, k)
    BY <1>1, <1>2, <1>4 DEF RwAt
  <2> QED BY <2>1, PreciseOrder
<1>10. Precise(r, floor[r])' = Precise(r, floor[r])
  BY <1>1 DEF Precise
<1>11. RwAt(r, s, k)'
  BY <1>1, <1>2, <1>6, <1>7, <1>9, <1>10 DEF RwAt
<1> QED BY <1>1, <1>2, <1>4, <1>5, <1>6, <1>7, <1>8, <1>11, RwOwn

\* A call begins: its floor is what the struct holds.
LEMMA RwCall ==
    ASSUME RwInv, NEW r \in RwReaders, UNCHANGED <<now, slots, writing, readers, updater, loop>>,
           NEW y \in 0 .. MaxRw, Rw!Call(r, y)
    PROVE  RwInv'
<1>1. PICK s \in {"tv", "real", "mono"}, k \in Nat :
         /\ s = Rw!SlotOf(r) /\ k = Known(s) /\ RwAt(r, s, k)
         /\ RwAt(r, s, k)' => RwReader(r)'
         /\ s \notin writing => k = Rw!Value(slots[s])
         /\ \A x : Precise(r, x)' = Precise(r, x)
  BY RwReaderAt
<1>2. PICK f \in Nat : f = IF s \in writing THEN 0 ELSE Rw!Value(slots[s])
  BY RwTypes DEF RwInv
<1>3. /\ reader[r].pc = "idle" /\ floor' = [floor EXCEPT ![r] = f] /\ kept' = kept
      /\ reader' = [reader EXCEPT ![r] = [[pc |-> "idle", sys |-> 0, sec |-> 0, result |-> 0]
                                            EXCEPT !.pc = "rdlock", !.sys = y]]
  BY <1>1, <1>2 DEF Rw!Call, Rw!Idle
<1>4. /\ reader \in RwRecords /\ readers \in [{"tv", "real", "mono"} -> SUBSET RwReaders]
      /\ kept \in [RwReaders -> Nat] /\ floor \in [RwReaders -> Nat]
  BY RwTypes DEF RwInv
<1>5. reader' \in RwRecords
  BY <1>3, <1>4 DEF RwRecords
<1>6. /\ reader'[r].pc = "rdlock" /\ \A u \in RwReaders : u # r => reader'[u] = reader[u]
  BY <1>3, <1>4 DEF RwRecords
<1>7. /\ floor' \in [RwReaders -> Nat] /\ floor'[r] = f
      /\ \A u \in RwReaders : u # r => floor'[u] = floor[u]
  BY <1>3, <1>4
<1>8. f <= k
  BY <1>1, <1>2
<1>9. RwAt(r, s, k)'
  BY <1>1, <1>3, <1>6, <1>7, <1>8 DEF RwAt
<1>10. \A x \in {"tv", "real", "mono"} : x \in writing => readers'[x] = {}
  BY DEF RwInv
<1> QED BY <1>1, <1>3, <1>4, <1>5, <1>6, <1>7, <1>9, <1>10, RwOwn

\* A round ends: the loop keeps the time it got, or for compare_time_diff any number.
LEMMA RwKeep ==
    ASSUME RwInv, NEW r \in RwReaders, UNCHANGED <<now, slots, writing, readers, updater, loop>>,
           NEW v \in Nat, Rw!Keep(r, v), loop[r] # "compare" => v = reader[r].result
    PROVE  RwInv'
<1>1. PICK s \in {"tv", "real", "mono"}, k \in Nat :
         /\ s = Rw!SlotOf(r) /\ k = Known(s) /\ RwAt(r, s, k)
         /\ RwAt(r, s, k)' => RwReader(r)'
         /\ s \notin writing => k = Rw!Value(slots[s])
         /\ \A x : Precise(r, x)' = Precise(r, x)
  BY RwReaderAt
<1>2. /\ reader[r].pc = "returned" /\ kept' = [kept EXCEPT ![r] = v] /\ floor' = floor
      /\ reader' = [reader EXCEPT ![r] = [pc |-> "idle", sys |-> 0, sec |-> 0, result |-> 0]]
  BY DEF Rw!Keep, Rw!Idle
<1>3. /\ reader \in RwRecords /\ readers \in [{"tv", "real", "mono"} -> SUBSET RwReaders]
      /\ kept \in [RwReaders -> Nat] /\ floor \in [RwReaders -> Nat] /\ 0 \in 0 .. MaxRw
  BY RwTypes, TimeAssumption DEF RwInv
<1>4. reader' \in RwRecords
  BY <1>2, <1>3 DEF RwRecords
<1>5. /\ reader'[r].pc = "idle" /\ \A u \in RwReaders : u # r => reader'[u] = reader[u]
  BY <1>2, <1>3 DEF RwRecords
<1>6. /\ kept' \in [RwReaders -> Nat] /\ kept'[r] = v
      /\ \A u \in RwReaders : u # r => kept'[u] = kept[u]
  BY <1>2, <1>3
<1>7. RwAt(r, s, k)'
  BY <1>1, <1>2, <1>5, <1>6 DEF RwAt
<1>8. \A x \in {"tv", "real", "mono"} : x \in writing => readers'[x] = {}
  BY DEF RwInv
<1> QED BY <1>1, <1>2, <1>3, <1>4, <1>5, <1>6, <1>7, <1>8, RwOwn

\* The test loops.
LEMMA RwRound ==
    ASSUME RwInv, NEW r \in RwReaders, Rw!Round(r)
    PROVE  RwInv'
<1>1. UNCHANGED <<now, slots, writing, readers, updater, loop>>
  BY DEF Rw!Round
<1>2. now \in 0 .. MaxRw /\ 0 \in 0 .. MaxRw
  BY TimeAssumption DEF RwInv, Rw!TypeOK
<1>3. now \in Nat /\ reader[r].result \in Nat /\ kept[r] \in Nat
  BY RwTypes DEF RwInv
<1>4. \A y \in 0 .. MaxRw : Rw!Call(r, y) => RwInv'
  BY <1>1, RwCall
<1>5. \A v \in Nat : Rw!Keep(r, v) /\ (loop[r] # "compare" => v = reader[r].result) => RwInv'
  BY <1>1, RwKeep
<1>6. CASE Rw!test_cached_time(r)
  BY <1>2, <1>3, <1>4, <1>5, <1>6 DEF Rw!test_cached_time
<1>7. CASE Rw!test_cached_gettimeofday(r)
  BY <1>2, <1>3, <1>4, <1>5, <1>7 DEF Rw!test_cached_gettimeofday
<1>8. CASE Rw!test_cached_clock_gettime(r)
  BY <1>2, <1>3, <1>4, <1>5, <1>8 DEF Rw!test_cached_clock_gettime
<1>9. CASE Rw!compare_time_diff(r)
  <2>1. Rw!Distance(reader[r].result, now) \in Nat
    BY <1>3 DEF Rw!Distance
  <2>2. Rw!Distance(reader[r].result, now) % NSEC \in Nat
    BY <2>1, TimeAssumption
  <2> DEFINE usec == Rw!Distance(reader[r].result, now) % NSEC
             v == IF usec > kept[r] THEN usec ELSE kept[r]
  <2>3. v \in Nat
    BY <1>3, <2>2
  <2>4. loop[r] = "compare" /\ (Rw!Call(r, 0) \/ Rw!Keep(r, v))
    BY <1>9 DEF Rw!compare_time_diff
  <2> HIDE DEF v
  <2> QED BY <1>2, <1>4, <1>5, <2>3, <2>4
<1>10. CASE Rw!Monotonic(r)
  BY <1>2, <1>3, <1>4, <1>5, <1>10 DEF Rw!Monotonic
<1> QED BY <1>6, <1>7, <1>8, <1>9, <1>10 DEF Rw!Round

\* Every step.
LEMMA RwStep ==
    ASSUME RwInv, Rw!Next
    PROVE  RwInv'
BY RwTick, RwWrLock, RwWriteSec, RwWriteFrac, RwWrUnlock, RwRdLock, RwReadSec, RwReadFrac,
   RwRdUnlock, RwRound DEF Rw!Next

\* The constructor has run one update.
LEMMA RwInit ==
    ASSUME Rw!Init
    PROVE  RwInv
<1>1. MaxRw \in Nat /\ 0 \in 0 .. MaxRw /\ 1 \in 0 .. MaxRw /\ NSEC \in Nat \ {0}
  BY TimeAssumption
<1>2. PICK q, m : q = 1 \div NSEC /\ m = 1 % NSEC
  OBVIOUS
<1>3. q \in Nat /\ m \in 0 .. NSEC - 1 /\ q * NSEC + m = 1
  BY <1>1, <1>2, RoundDown
<1>4. slots = [s \in {"tv", "real", "mono"} |-> [sec |-> q, frac |-> m]]
  BY <1>2 DEF Rw!Init, Rw!Slots, Rw!Split
<1>5. Rw!TypeOK
  BY <1>1, <1>3, <1>4 DEF Rw!Init, Rw!TypeOK, Rw!Slots, Rw!Idle
<1>6. \A s \in {"tv", "real", "mono"} : Rw!Value(slots[s]) = 1 /\ Known(s) = 1
  BY <1>3, <1>4 DEF Known, Rw!Value, Rw!Init
<1>7. RwUpdater
  BY <1>6 DEF RwUpdater, Rw!Init
<1>8. ASSUME NEW r \in RwReaders PROVE RwReader(r)
  <2>1. reader[r].pc = "idle" /\ kept[r] = 0
    BY DEF Rw!Init, Rw!Idle
  <2>2. PICK s \in {"tv", "real", "mono"} : s = Rw!SlotOf(r)
    BY DEF Rw!SlotOf
  <2>3. Precise(r, 1) \in Nat
    BY PreciseOrder
  <2>4. \A u \in {"tv", "real", "mono"} : readers[u] = {}
    BY DEF Rw!Init, Rw!Slots
  <2> QED BY <1>6, <2>1, <2>2, <2>3, <2>4 DEF RwReader
<1>9. writing = {}
  BY DEF Rw!Init
<1> QED BY <1>5, <1>7, <1>8, <1>9 DEF RwInv

\* What the cache promises follows from the invariant.
LEMMA RwProperties ==
    ASSUME RwInv
    PROVE  Rw!TypeOK /\ Rw!TimeSound /\ Rw!WarningsJustified
<1>1. ASSUME NEW r \in RwReaders, reader[r].pc = "returned"
      PROVE  /\ Precise(r, floor[r]) <= reader[r].result /\ reader[r].result <= now
             /\ loop[r] # "compare" => kept[r] <= reader[r].result
  <2>1. PICK s \in {"tv", "real", "mono"} : s = Rw!SlotOf(r)
    BY RwTypes DEF RwInv
  <2>2. PICK k \in Nat : k = Known(s)
    BY RwTypes DEF RwInv
  <2>3. k <= now /\ now \in Nat
    BY <2>2, RwTypes DEF RwInv, RwUpdater
  <2>4. /\ Precise(r, floor[r]) <= reader[r].result /\ reader[r].result <= Precise(r, k)
        /\ loop[r] # "compare" => kept[r] <= reader[r].result
    BY <1>1, <2>1, <2>2 DEF RwInv, RwReader
  <2>5. Precise(r, k) \in Nat /\ Precise(r, k) <= k /\ reader[r].result \in Nat
    BY PreciseOrder, RwTypes DEF RwInv
  <2> QED BY <2>3, <2>4, <2>5
<1>2. Rw!TimeSound
  BY <1>1 DEF Rw!TimeSound, Precise
<1>3. ASSUME NEW r \in RwReaders,
             reader[r].pc = "returned", loop[r] \in {"gettimeofday", "clock_gettime"},
             Rw!Distance(reader[r].result, reader[r].sys) >= Tolerance
      PROVE  \/ reader[r].sys >= floor[r] + Tolerance
             \/ now >= reader[r].sys + Tolerance
  <2>1. floor[r] <= reader[r].result /\ reader[r].result <= now
    BY <1>1, <1>3 DEF Precise
  <2>2. /\ reader[r].result \in Nat /\ now \in Nat /\ floor[r] \in Nat /\ reader[r].sys \in Nat
        /\ Tolerance \in Nat
    BY RwTypes, TimeAssumption DEF RwInv
  <2> QED BY <1>3, <2>1, <2>2, Warned DEF Rw!Distance
<1>4. Rw!WarningsJustified
  BY <1>3 DEF Rw!WarningsJustified
<1> QED BY <1>2, <1>4 DEF RwInv

-----------------------------------------------------------------------------
(* The cache without synchronisation. *)

\* The seconds a call of main() would get now.
Due(call) == IF cacheOn THEN Plain!Cached(call) ELSE now \div NSEC

\* Seconds are stored in order and never ahead of the clock; the caller's are not ahead of
\* the cache's, and what it kept is not ahead of what it gets.
PlainInv ==
    /\ Plain!TypeOK
    /\ updater.time # Plain!None => updater.time <= now /\ updater.at # "seconds"
    /\ \A s \in {"tv", "real", "mono"} : structs[s].sec <= now \div NSEC
    /\ seconds <= structs["tv"].sec
    /\ \A c \in Plain!Calls : kept[c] <= Due(c)
    /\ caller.result # Plain!None => caller.sec # Plain!None
    /\ ~ cacheOn /\ caller.sec # Plain!None => caller.result # Plain!None
    /\ caller.sec # Plain!None =>
          caller.sec = floor /\ kept[caller.call] <= caller.sec /\ caller.sec <= Due(caller.call)
    /\ caller.result # Plain!None =>
          /\ caller.sec <= caller.result \div NSEC
          /\ caller.result \div NSEC <= Due(caller.call)

\* The structs of the cache.
PlainStructs == [{"tv", "mono", "real"} -> [sec : 0 .. MaxUnlocked \div NSEC, frac : 0 .. NSEC - 1]]

\* The marker of an absent value is no time.
LEMMA PlainConstants ==
    /\ NSEC \in Nat \ {0} /\ MaxUnlocked \in Nat /\ Plain!None \in Nat
    /\ MaxUnlocked < Plain!None /\ MaxUnlocked \div NSEC \in Nat
    /\ \A x \in 0 .. MaxUnlocked \div NSEC : x \in Nat
<1>1. NSEC \in Nat \ {0} /\ MaxUnlocked \in Nat
  BY TimeAssumption
<1>2. MaxUnlocked \div NSEC \in Nat
  BY <1>1, RoundDown
<1> QED BY <1>1, <1>2 DEF Plain!None

\* What the type invariant says of each variable.
LEMMA PlainTypes ==
    ASSUME Plain!TypeOK
    PROVE  /\ now \in Nat /\ now \in 0 .. MaxUnlocked /\ cacheOn \in BOOLEAN
           /\ structs \in PlainStructs
           /\ \A s \in {"tv", "real", "mono"} :
                 /\ structs[s].sec \in Nat /\ structs[s].sec \in 0 .. MaxUnlocked \div NSEC
                 /\ structs[s].frac \in 0 .. NSEC - 1
           /\ seconds \in Nat /\ seconds \in 0 .. MaxUnlocked \div NSEC
           /\ updater \in [at : {"tv", "mono", "real", "seconds"}, time : Nat]
           /\ updater.at \in {"tv", "mono", "real", "seconds"} /\ updater.time \in Nat
           /\ caller \in [call : Plain!Calls, sec : Nat, result : Nat]
           /\ caller.call \in Plain!Calls /\ caller.sec \in Nat /\ caller.result \in Nat
           /\ kept \in [Plain!Calls -> 0 .. MaxUnlocked \div NSEC]
           /\ \A c \in Plain!Calls :
                 kept[c] \in Nat /\ Plain!Cached(c) \in 0 .. MaxUnlocked \div NSEC /\ Due(c) \in Nat
           /\ floor \in 0 .. MaxUnlocked \div NSEC /\ floor \in Nat
           /\ now \div NSEC \in Nat /\ now \div NSEC \in 0 .. MaxUnlocked \div NSEC
           /\ now \div NSEC <= now /\ now < Plain!None
<1>1. /\ NSEC \in Nat \ {0} /\ MaxUnlocked \in Nat /\ Plain!None \in Nat
      /\ MaxUnlocked < Plain!None /\ MaxUnlocked \div NSEC \in Nat
      /\ \A x \in 0 .. MaxUnlocked \div NSEC : x \in Nat
  BY PlainConstants
<1>2. /\ now \in 0 .. MaxUnlocked /\ cacheOn \in BOOLEAN /\ structs \in PlainStructs
      /\ seconds \in 0 .. MaxUnlocked \div NSEC
      /\ updater \in [at : {"tv", "mono", "real", "seconds"}, time : Nat]
      /\ caller \in [call : Plain!Calls, sec : Nat, result : Nat]
      /\ kept \in [Plain!Calls -> 0 .. MaxUnlocked \div NSEC]
      /\ floor \in 0 .. MaxUnlocked \div NSEC
  BY DEF Plain!TypeOK, Plain!Structs, PlainStructs
<1>3. now \in Nat /\ now <= MaxUnlocked /\ now < Plain!None
  BY <1>1, <1>2
<1>4. now \div NSEC \in Nat /\ now \div NSEC \in 0 .. MaxUnlocked \div NSEC
  BY <1>1, <1>3, RoundDown, RoundMono
<1>5. now \div NSEC <= now
  <2>1. (now \div NSEC) * NSEC <= now /\ now \div NSEC \in Nat
    BY <1>1, <1>3, RoundDown
  <2>2. \A d \in Nat : d <= d * NSEC /\ d * NSEC \in Nat
    BY <1>1
  <2> QED BY <1>3, <2>1, <2>2
<1>6. ASSUME NEW s \in {"tv", "real", "mono"}
      PROVE  /\ structs[s].sec \in 0 .. MaxUnlocked \div NSEC
             /\ structs[s].frac \in 0 .. NSEC - 1
  BY <1>2 DEF PlainStructs
<1>7. /\ updater.at \in {"tv", "mono", "real", "seconds"} /\ updater.time \in Nat
      /\ caller.call \in Plain!Calls /\ caller.sec \in Nat /\ caller.result \in Nat
  BY <1>2
<1>8. ASSUME NEW c \in Plain!Calls
      PROVE  kept[c] \in Nat /\ Plain!Cached(c) \in 0 .. MaxUnlocked \div NSEC /\ Due(c) \in Nat
  <2>1. Plain!Cached(c) \in 0 .. MaxUnlocked \div NSEC
    BY <1>2, <1>6 DEF Plain!Calls, Plain!Cached
  <2> QED BY <1>1, <1>2, <1>4, <2>1 DEF Due
<1> QED BY <1>1, <1>2, <1>3, <1>4, <1>5, <1>6, <1>7, <1>8

\* The seconds that a call gets are not ahead of the clock.
LEMMA DueBound ==
    ASSUME PlainInv, NEW c \in Plain!Calls
    PROVE  Due(c) \in Nat /\ Due(c) <= now \div NSEC
<1>1. /\ \A s \in {"tv", "real", "mono"} :
            structs[s].sec \in Nat /\ structs[s].sec <= now \div NSEC
      /\ seconds \in Nat /\ seconds <= structs["tv"].sec /\ now \div NSEC \in Nat
      /\ Due(c) \in Nat
  BY PlainTypes DEF PlainInv
<1>2. seconds <= now \div NSEC
  BY <1>1
<1> QED BY <1>1, <1>2 DEF Due, Plain!Cached, Plain!Calls

\* A step of the clock or of the thread, which main() does not mind.
LEMMA PlainForward ==
    ASSUME PlainInv, (Plain!TypeOK)', UNCHANGED <<cacheOn, caller, kept, floor>>,
           updater'.time # Plain!None => updater'.time <= now' /\ updater'.at # "seconds",
           \A s \in {"tv", "real", "mono"} : structs'[s].sec <= now' \div NSEC,
           seconds' <= structs'["tv"].sec,
           \A c \in Plain!Calls : Due(c) <= Due(c)' /\ Due(c)' \in Nat
    PROVE  PlainInv'
<1>1. /\ caller.call \in Plain!Calls /\ caller.sec \in Nat /\ caller.result \in Nat
      /\ \A c \in Plain!Calls : kept[c] \in Nat /\ Due(c) \in Nat
      /\ caller.result \div NSEC \in Nat
  BY PlainTypes, RoundDown, TimeAssumption DEF PlainInv
<1>2. PICK c \in Plain!Calls : c = caller.call
  BY <1>1
<1>3. /\ \A x \in Plain!Calls : kept[x] <= Due(x)
      /\ caller.result # Plain!None => caller.sec # Plain!None
      /\ ~ cacheOn /\ caller.sec # Plain!None => caller.result # Plain!None
      /\ caller.sec # Plain!None =>
            caller.sec = floor /\ kept[c] <= caller.sec /\ caller.sec <= Due(c)
      /\ caller.result # Plain!None =>
            caller.sec <= caller.result \div NSEC /\ caller.result \div NSEC <= Due(c)
  BY <1>2 DEF PlainInv
<1>4. /\ \A x \in Plain!Calls : kept[x] <= Due(x)'
      /\ caller.sec # Plain!None => caller.sec <= Due(c)'
      /\ caller.result # Plain!None => caller.result \div NSEC <= Due(c)'
  BY <1>1, <1>2, <1>3
<1> QED BY <1>2, <1>3, <1>4 DEF PlainInv

\* The clock.
LEMMA PlainTick ==
    ASSUME PlainInv, Plain!Tick
    PROVE  PlainInv'
<1>1. /\ now < MaxUnlocked /\ now' = now + 1
      /\ UNCHANGED <<cacheOn, structs, seconds, updater, caller, kept, floor>>
  BY DEF Plain!Tick
<1>2. now \in Nat /\ MaxUnlocked \in Nat /\ NSEC \in Nat \ {0}
  BY PlainTypes, TimeAssumption DEF PlainInv
<1>3. now' \in 0 .. MaxUnlocked /\ now' \in Nat /\ now <= now'
  BY <1>1, <1>2
<1>4. now \div NSEC \in Nat /\ now' \div NSEC \in Nat /\ now \div NSEC <= now' \div NSEC
  BY <1>2, <1>3, RoundDown, RoundMono
<1>5. (Plain!TypeOK)'
  BY <1>1, <1>3 DEF PlainInv, Plain!TypeOK
<1>6. /\ updater'.time # Plain!None => updater'.time <= now' /\ updater'.at # "seconds"
      /\ \A s \in {"tv", "real", "mono"} : structs'[s].sec <= now' \div NSEC
      /\ seconds' <= structs'["tv"].sec
  <2>1. /\ updater.time \in Nat /\ \A s \in {"tv", "real", "mono"} : structs[s].sec \in Nat
    BY PlainTypes DEF PlainInv
  <2> QED BY <1>1, <1>2, <1>3, <1>4, <2>1 DEF PlainInv
<1>7. ASSUME NEW c \in Plain!Calls PROVE Due(c) <= Due(c)' /\ Due(c)' \in Nat
  <2>1. Due(c) \in Nat
    BY PlainTypes DEF PlainInv
  <2> QED BY <1>1, <1>4, <2>1 DEF Due, Plain!Cached
<1> QED BY <1>1, <1>5, <1>6, <1>7, PlainForward

\* The thread stores the seconds of a struct, which are never below the old ones.
LEMMA PlainStoreSec ==
    ASSUME PlainInv, Plain!StoreSec
    PROVE  PlainInv'
<1>1. PICK a \in {"tv", "mono", "real"} : updater.at = a
  BY DEF Plain!StoreSec, Plain!Structs
<1>2. PICK q \in 0 .. MaxUnlocked \div NSEC : q = now \div NSEC
  BY PlainTypes DEF PlainInv
<1>3. /\ structs' = [structs EXCEPT ![a].sec = q]
      /\ updater' = [updater EXCEPT !.time = now]
      /\ UNCHANGED <<now, cacheOn, seconds, caller, kept, floor>>
  BY <1>1, <1>2 DEF Plain!StoreSec, Plain!Split
<1>4. /\ structs \in PlainStructs /\ now \in Nat /\ q \in Nat /\ seconds \in Nat
      /\ updater \in [at : {"tv", "mono", "real", "seconds"}, time : Nat]
      /\ \A s \in {"tv", "real", "mono"} : structs[s].sec \in Nat
  BY <1>2, PlainTypes DEF PlainInv
<1>5. structs' \in PlainStructs
  BY <1>2, <1>3, <1>4 DEF PlainStructs
<1>6. structs'[a].sec = q /\ \A s \in {"tv", "mono", "real"} : s # a => structs'[s] = structs[s]
  BY <1>3, <1>4 DEF PlainStructs
<1>7. /\ updater' \in [at : {"tv", "mono", "real", "seconds"}, time : Nat]
      /\ updater'.at = a /\ updater'.time = now
  BY <1>1, <1>3, <1>4
<1>8. (Plain!TypeOK)'
  BY <1>3, <1>5, <1>7 DEF PlainInv, Plain!TypeOK, Plain!Structs, PlainStructs
<1>9. /\ \A s \in {"tv", "real", "mono"} : structs[s].sec <= q
      /\ seconds <= structs["tv"].sec
  BY <1>2 DEF PlainInv
<1>10. /\ \A s \in {"tv", "real", "mono"} : structs'[s].sec <= now' \div NSEC
       /\ \A s \in {"tv", "real", "mono"} :
             structs[s].sec <= structs'[s].sec /\ structs'[s].sec \in Nat
       /\ seconds' <= structs'["tv"].sec
  BY <1>2, <1>3, <1>4, <1>6, <1>9
<1>11. updater'.time <= now' /\ updater'.at # "seconds"
  BY <1>3, <1>4, <1>7
<1>12. ASSUME NEW c \in Plain!Calls PROVE Due(c) <= Due(c)' /\ Due(c)' \in Nat
  <2>1. Due(c) \in Nat
    BY PlainTypes DEF PlainInv
  <2> QED BY <1>2, <1>3, <1>4, <1>10, <2>1 DEF Due, Plain!Cached, Plain!Calls
<1> QED BY <1>3, <1>8, <1>10, <1>11, <1>12, PlainForward

\* The rest of a struct does not change its seconds.
LEMMA PlainStoreFrac ==
    ASSUME PlainInv, Plain!StoreFrac
    PROVE  PlainInv'
<1>1. PICK a \in {"tv", "mono", "real"} : updater.at = a
  BY DEF Plain!StoreFrac, Plain!Structs
<1>2. PICK m \in 0 .. NSEC - 1 : m = updater.time % NSEC
  BY PlainTypes, RoundDown, TimeAssumption DEF PlainInv
<1>3. PICK n \in {"tv", "mono", "real", "seconds"} : n = Plain!Stored[a]
  BY DEF Plain!Stored
<1>4. /\ structs' = [structs EXCEPT ![a].frac = m]
      /\ updater' = [at |-> n, time |-> Plain!None]
      /\ UNCHANGED <<now, cacheOn, seconds, caller, kept, floor>>
  BY <1>1, <1>2, <1>3 DEF Plain!StoreFrac, Plain!Split
<1>5. structs \in PlainStructs
  BY PlainTypes DEF PlainInv
<1>6. structs' \in PlainStructs
  BY <1>4, <1>5 DEF PlainStructs
<1>7. \A s \in {"tv", "mono", "real"} : structs'[s].sec = structs[s].sec
  BY <1>4, <1>5 DEF PlainStructs
<1>8. /\ updater' \in [at : {"tv", "mono", "real", "seconds"}, time : Nat]
      /\ updater'.time = Plain!None
  BY <1>4, PlainConstants
<1>9. (Plain!TypeOK)'
  BY <1>4, <1>6, <1>8 DEF PlainInv, Plain!TypeOK, Plain!Structs, PlainStructs
<1>10. /\ \A s \in {"tv", "real", "mono"} : structs'[s].sec <= now' \div NSEC
       /\ seconds' <= structs'["tv"].sec
  BY <1>4, <1>7 DEF PlainInv
<1>11. ASSUME NEW c \in Plain!Calls PROVE Due(c) <= Due(c)' /\ Due(c)' \in Nat
  <2>1. Due(c) \in Nat
    BY PlainTypes DEF PlainInv
  <2>2. Due(c)' = Due(c)
    BY <1>4, <1>7 DEF Due, Plain!Cached, Plain!Calls
  <2> QED BY <2>1, <2>2
<1> QED BY <1>4, <1>8, <1>9, <1>10, <1>11, PlainForward

\* _seconds follows the struct.
LEMMA PlainStoreSeconds ==
    ASSUME PlainInv, Plain!StoreSeconds
    PROVE  PlainInv'
<1>1. /\ updater.at = "seconds" /\ seconds' = structs["tv"].sec
      /\ updater' = [updater EXCEPT !.at = "tv"]
      /\ UNCHANGED <<now, cacheOn, structs, caller, kept, floor>>
  BY DEF Plain!StoreSeconds
<1>2. /\ updater \in [at : {"tv", "mono", "real", "seconds"}, time : Nat]
      /\ seconds \in Nat /\ structs["tv"].sec \in Nat
      /\ structs["tv"].sec \in 0 .. MaxUnlocked \div NSEC
  BY PlainTypes DEF PlainInv
<1>3. /\ updater' \in [at : {"tv", "mono", "real", "seconds"}, time : Nat]
      /\ updater'.time = updater.time
  BY <1>1, <1>2
<1>4. (Plain!TypeOK)'
  BY <1>1, <1>2, <1>3 DEF PlainInv, Plain!TypeOK, Plain!Structs
<1>5. updater'.time = Plain!None
  BY <1>1, <1>3 DEF PlainInv
<1>6. /\ \A s \in {"tv", "real", "mono"} : structs'[s].sec <= now' \div NSEC
      /\ seconds' <= structs'["tv"].sec /\ seconds <= seconds'
  BY <1>1, <1>2 DEF PlainInv
<1>7. ASSUME NEW c \in Plain!Calls PROVE Due(c) <= Due(c)' /\ Due(c)' \in Nat
  <2>1. Due(c) \in Nat
    BY PlainTypes DEF PlainInv
  <2> QED BY <1>1, <1>2, <1>6, <2>1 DEF Due, Plain!Cached
<1> QED BY <1>1, <1>4, <1>5, <1>6, <1>7, PlainForward

\* A step of main() leaves the cache alone.
LEMMA PlainOwn ==
    ASSUME PlainInv, UNCHANGED <<now, cacheOn, structs, seconds, updater>>,
           caller' \in [call : Plain!Calls, sec : Nat, result : Nat],
           kept' \in [Plain!Calls -> 0 .. MaxUnlocked \div NSEC],
           floor' \in 0 .. MaxUnlocked \div NSEC,
           \A c \in Plain!Calls : kept'[c] <= Due(c),
           caller'.result # Plain!None => caller'.sec # Plain!None,
           ~ cacheOn /\ caller'.sec # Plain!None => caller'.result # Plain!None,
           caller'.sec # Plain!None =>
              /\ caller'.sec = floor' /\ kept'[caller'.call] <= caller'.sec
              /\ caller'.sec <= Due(caller'.call),
           caller'.result # Plain!None =>
              /\ caller'.sec <= caller'.result \div NSEC
              /\ caller'.result \div NSEC <= Due(caller'.call)
    PROVE  PlainInv'
<1>1. (Plain!TypeOK)'
  BY DEF PlainInv, Plain!TypeOK
<1>2. \A c : Due(c)' = Due(c)
  BY DEF Due, Plain!Cached
<1>3. PICK c : c = caller'.call
  OBVIOUS
<1> QED BY <1>1, <1>2, <1>3 DEF PlainInv

\* A call passed to the system.
LEMMA PlainSystemCall ==
    ASSUME PlainInv, Plain!SystemCall
    PROVE  PlainInv'
<1>1. PICK q \in 0 .. MaxUnlocked \div NSEC : q = now \div NSEC /\ q \in Nat /\ q <= now
  BY PlainTypes DEF PlainInv
<1>2. PICK c \in Plain!Calls : c = caller.call
  BY PlainTypes DEF PlainInv
<1>3. NSEC \in Nat \ {0} /\ now \in Nat /\ now < Plain!None /\ Plain!None \in Nat
  BY PlainConstants, PlainTypes DEF PlainInv
<1>4. PICK v \in Nat : v = IF c = "time" THEN q * NSEC ELSE now
  BY <1>1, <1>3
<1>5. v <= now /\ v \div NSEC = q
  <2>1. q * NSEC \in Nat /\ q * NSEC <= now
    BY <1>1, <1>3, RoundDown
  <2>2. (q * NSEC + 0) \div NSEC = q
    BY <1>1, <1>3, RoundSplit
  <2>3. q * NSEC + 0 = q * NSEC
    BY <2>1
  <2> QED BY <1>1, <1>3, <1>4, <2>1, <2>2, <2>3
<1>6. /\ ~ cacheOn /\ caller' = [caller EXCEPT !.sec = q, !.result = v] /\ floor' = q
      /\ UNCHANGED <<now, cacheOn, structs, seconds, updater, kept>>
  BY <1>1, <1>2, <1>4 DEF Plain!SystemCall, Plain!Split
<1>7. /\ caller \in [call : Plain!Calls, sec : Nat, result : Nat]
      /\ kept \in [Plain!Calls -> 0 .. MaxUnlocked \div NSEC]
  BY PlainTypes DEF PlainInv
<1>8. /\ caller' \in [call : Plain!Calls, sec : Nat, result : Nat]
      /\ caller'.call = c /\ caller'.sec = q /\ caller'.result = v
  BY <1>1, <1>2, <1>4, <1>6, <1>7
<1>9. Due(c) = q /\ \A x \in Plain!Calls : kept[x] <= Due(x)
  BY <1>1, <1>6 DEF Due, PlainInv
<1>10. v # Plain!None /\ q # Plain!None
  BY <1>1, <1>3, <1>4, <1>5
<1> QED BY <1>1, <1>5, <1>6, <1>7, <1>8, <1>9, <1>10, PlainOwn

\* The first load of a cached call.
LEMMA PlainLoadSec ==
    ASSUME PlainInv, Plain!LoadSec
    PROVE  PlainInv'
<1>1. PICK c \in Plain!Calls : c = caller.call
  BY PlainTypes DEF PlainInv
<1>2. PICK q \in 0 .. MaxUnlocked \div NSEC : q = Plain!Cached(c) /\ q \in Nat
  BY PlainTypes, PlainConstants DEF PlainInv
<1>3. /\ cacheOn /\ caller.sec = Plain!None /\ caller' = [caller EXCEPT !.sec = q] /\ floor' = q
      /\ UNCHANGED <<now, cacheOn, structs, seconds, updater, kept>>
  BY <1>1, <1>2 DEF Plain!LoadSec
<1>4. /\ caller \in [call : Plain!Calls, sec : Nat, result : Nat]
      /\ kept \in [Plain!Calls -> 0 .. MaxUnlocked \div NSEC]
  BY PlainTypes DEF PlainInv
<1>5. /\ caller' \in [call : Plain!Calls, sec : Nat, result : Nat]
      /\ caller'.call = c /\ caller'.sec = q /\ caller'.result = caller.result
  BY <1>1, <1>2, <1>3, <1>4
<1>6. caller.result = Plain!None
  BY <1>3 DEF PlainInv
<1>7. Due(c) = q /\ \A x \in Plain!Calls : kept[x] <= Due(x)
  BY <1>2, <1>3 DEF Due, PlainInv
<1> QED BY <1>2, <1>3, <1>4, <1>5, <1>6, <1>7, PlainOwn

\* The second load: the seconds are those of the first, or for time() later ones.
LEMMA PlainLoadRest ==
    ASSUME PlainInv, Plain!LoadRest
    PROVE  PlainInv'
<1>1. PICK c \in Plain!Calls : c = caller.call
  BY PlainTypes DEF PlainInv
<1>2. PICK d \in Nat : d = caller.sec
  BY PlainTypes DEF PlainInv
<1>3. /\ d # Plain!None /\ caller.result = Plain!None /\ cacheOn
      /\ UNCHANGED <<now, cacheOn, structs, seconds, updater, kept, floor>>
  BY <1>2 DEF Plain!LoadRest, PlainInv
<1>4. d = floor /\ kept[c] <= d /\ d <= Due(c) /\ \A x \in Plain!Calls : kept[x] <= Due(x)
  BY <1>1, <1>2, <1>3 DEF PlainInv
<1>5. PICK v \in Nat : /\ v = IF c = "time" THEN seconds * NSEC
                              ELSE d * NSEC + structs[c].frac
                       /\ d <= v \div NSEC /\ v \div NSEC <= Due(c)
  <2>1. NSEC \in Nat \ {0} /\ seconds \in Nat /\ 0 \in 0 .. NSEC - 1
    BY PlainTypes, PlainConstants DEF PlainInv
  <2>2. CASE c = "time"
    <3>1. seconds * NSEC + 0 \in Nat /\ (seconds * NSEC + 0) \div NSEC = seconds
      BY <2>1, RoundSplit
    <3>2. seconds * NSEC + 0 = seconds * NSEC
      BY <2>1
    <3>3. Due(c) = seconds
      BY <1>3, <2>2 DEF Due, Plain!Cached
    <3> QED BY <1>4, <2>1, <2>2, <3>1, <3>2, <3>3
  <2>3. CASE c # "time"
    <3>1. structs[c].frac \in 0 .. NSEC - 1
      BY <2>3, PlainTypes DEF PlainInv, Plain!Calls
    <3>2. /\ d * NSEC + structs[c].frac \in Nat
          /\ (d * NSEC + structs[c].frac) \div NSEC = d
      BY <2>1, <3>1, RoundSplit
    <3> QED BY <1>4, <2>3, <3>2
  <2> QED BY <2>2, <2>3
<1>6. caller' = [caller EXCEPT !.result = v]
  BY <1>1, <1>2, <1>5 DEF Plain!LoadRest
<1>7. /\ caller \in [call : Plain!Calls, sec : Nat, result : Nat]
      /\ kept \in [Plain!Calls -> 0 .. MaxUnlocked \div NSEC]
      /\ floor \in 0 .. MaxUnlocked \div NSEC
  BY PlainTypes DEF PlainInv
<1>8. /\ caller' \in [call : Plain!Calls, sec : Nat, result : Nat]
      /\ caller'.call = c /\ caller'.sec = d /\ caller'.result = v
  BY <1>1, <1>2, <1>5, <1>6, <1>7
<1> QED BY <1>3, <1>4, <1>5, <1>7, <1>8, PlainOwn

\* main() keeps what it got.
LEMMA PlainMain ==
    ASSUME PlainInv, Plain!main
    PROVE  PlainInv'
<1>1. PICK c \in Plain!Calls : c = caller.call
  BY PlainTypes DEF PlainInv
<1>2. PICK n \in Plain!Calls : n = Plain!Called[c]
  BY DEF Plain!Called, Plain!Calls
<1>3. PICK q \in Nat : q = caller.result \div NSEC
  BY PlainTypes, RoundDown, TimeAssumption DEF PlainInv
<1>4. /\ caller.result # Plain!None /\ kept' = [kept EXCEPT ![c] = q]
      /\ caller' = [call |-> n, sec |-> Plain!None, result |-> Plain!None]
      /\ UNCHANGED <<now, cacheOn, structs, seconds, updater, floor>>
  BY <1>1, <1>2, <1>3 DEF Plain!main
<1>5. q <= Due(c) /\ \A x \in Plain!Calls : kept[x] <= Due(x)
  BY <1>1, <1>3, <1>4 DEF PlainInv
<1>6. q \in 0 .. MaxUnlocked \div NSEC
  <2>1. Due(c) \in Nat /\ Due(c) <= now \div NSEC
    BY DueBound
  <2>2. /\ now \div NSEC \in 0 .. MaxUnlocked \div NSEC /\ now \div NSEC \in Nat
        /\ MaxUnlocked \div NSEC \in Nat
    BY PlainTypes, PlainConstants DEF PlainInv
  <2> QED BY <1>5, <2>1, <2>2
<1>7. /\ kept \in [Plain!Calls -> 0 .. MaxUnlocked \div NSEC]
      /\ floor \in 0 .. MaxUnlocked \div NSEC /\ Plain!None \in Nat
  BY PlainTypes, PlainConstants DEF PlainInv
<1>8. /\ kept' \in [Plain!Calls -> 0 .. MaxUnlocked \div NSEC]
      /\ \A x \in Plain!Calls : kept'[x] <= Due(x)
  BY <1>4, <1>5, <1>6, <1>7
<1>9. /\ caller' \in [call : Plain!Calls, sec : Nat, result : Nat]
      /\ caller'.sec = Plain!None /\ caller'.result = Plain!None
  BY <1>4, <1>7
<1> QED BY <1>4, <1>7, <1>8, <1>9, PlainOwn

\* Every step.
LEMMA PlainStep ==
    ASSUME PlainInv, Plain!Next
    PROVE  PlainInv'
BY PlainTick, PlainStoreSec, PlainStoreFrac, PlainStoreSeconds, PlainSystemCall, PlainLoadSec,
   PlainLoadRest, PlainMain DEF Plain!Next

\* The constructor has read every clock.
LEMMA PlainInit ==
    ASSUME Plain!Init
    PROVE  PlainInv
<1>1. /\ NSEC \in Nat \ {0} /\ MaxUnlocked \in Nat /\ 1 \in 0 .. MaxUnlocked
      /\ Plain!None \in Nat /\ MaxUnlocked \div NSEC \in Nat
  BY PlainConstants, TimeAssumption
<1>2. PICK q, m : q = 1 \div NSEC /\ m = 1 % NSEC
  OBVIOUS
<1>3. q \in Nat /\ m \in 0 .. NSEC - 1
  BY <1>1, <1>2, RoundDown
<1>4. q \in 0 .. MaxUnlocked \div NSEC /\ 0 \in 0 .. MaxUnlocked \div NSEC
  BY <1>1, <1>2, <1>3, RoundMono
<1>5. /\ now = 1 /\ cacheOn \in BOOLEAN /\ seconds = q
      /\ structs = [s \in {"tv", "mono", "real"} |-> [sec |-> q, frac |-> m]]
      /\ updater = [at |-> "tv", time |-> Plain!None]
      /\ caller = [call |-> "time", sec |-> Plain!None, result |-> Plain!None]
      /\ kept = [c \in Plain!Calls |-> 0] /\ floor = 0
  BY <1>2 DEF Plain!Init, Plain!Structs, Plain!Split
<1>6. Plain!TypeOK
  BY <1>1, <1>3, <1>4, <1>5 DEF Plain!TypeOK, Plain!Structs, Plain!Calls
<1>7. \A s \in {"tv", "real", "mono"} : structs[s].sec = q
  BY <1>5
<1>8. \A c \in Plain!Calls : Due(c) = q
  BY <1>2, <1>5, <1>7 DEF Due, Plain!Cached, Plain!Calls
<1>9. \A c \in Plain!Calls : kept[c] <= Due(c)
  BY <1>3, <1>5, <1>8
<1>10. /\ updater.time = Plain!None /\ caller.sec = Plain!None /\ caller.result = Plain!None
  BY <1>5
<1>11. /\ seconds <= structs["tv"].sec
       /\ \A s \in {"tv", "real", "mono"} : structs[s].sec <= now \div NSEC
  BY <1>2, <1>3, <1>5, <1>7
<1> QED BY <1>6, <1>9, <1>10, <1>11 DEF PlainInv

\* What the cache promises follows from the invariant.
LEMMA PlainProperties ==
    ASSUME PlainInv
    PROVE  Plain!TypeOK /\ Plain!TimeSound
<1>1. ASSUME caller.result # Plain!None
      PROVE  LET sec == caller.result \div NSEC IN
             /\ kept[caller.call] <= sec /\ floor <= sec /\ caller.sec <= sec
             /\ sec * NSEC <= now
             /\ caller.result < now + NSEC /\ caller.result + NSEC > floor * NSEC
  <2>1. PICK v \in Nat : v = caller.result
    BY PlainTypes DEF PlainInv
  <2>2. NSEC \in Nat \ {0} /\ now \in Nat
    BY PlainTypes, TimeAssumption DEF PlainInv
  <2>3. PICK q \in Nat : q = v \div NSEC
    BY <2>2, RoundDown
  <2>4. q * NSEC \in Nat /\ q * NSEC <= v /\ v < q * NSEC + NSEC
    BY <2>2, <2>3, RoundDown
  <2>5. PICK c \in Plain!Calls : c = caller.call
    BY PlainTypes DEF PlainInv
  <2>6. PICK d \in Nat : d = caller.sec
    BY PlainTypes DEF PlainInv
  <2>7. d = floor /\ kept[c] <= d /\ d <= q /\ q <= Due(c) /\ kept[c] \in Nat
    BY <1>1, <2>1, <2>3, <2>5, <2>6, PlainTypes DEF PlainInv
  <2>8. q * NSEC <= now
    <3>1. Due(c) \in Nat /\ Due(c) <= now \div NSEC /\ now \div NSEC \in Nat
      BY <2>2, DueBound, RoundDown
    <3>2. q <= now \div NSEC
      BY <2>7, <3>1
    <3> QED BY <2>2, <3>2, RoundsTo
  <2>9. d * NSEC \in Int /\ d * NSEC <= q * NSEC
    BY <2>2, <2>7, TimesMono
  <2>10. v < now + NSEC /\ v + NSEC > d * NSEC
    BY <2>2, <2>4, <2>8, <2>9
  <2>11. kept[c] <= q
    BY <2>7
  <2> QED BY <2>1, <2>3, <2>5, <2>6, <2>7, <2>8, <2>10, <2>11
<1> QED BY <1>1 DEF PlainInv, Plain!TimeSound

-----------------------------------------------------------------------------
(* The suite. *)

CachesInv ==
    /\ which \in {"i386", "x86_64", "rwlock", "plain"}
    /\ which = "i386" => AtomicInv(TRUE)
    /\ which = "x86_64" => AtomicInv(FALSE)
    /\ which = "rwlock" => RwInv
    /\ which = "plain" => PlainInv

\* Every program of the suite starts in its invariant.
LEMMA CachesInit == Init => CachesInv
<1>1. CASE which = "i386" /\ I386!Init
  BY <1>1, AtomicInit DEF CachesInv
<1>2. CASE which = "x86_64" /\ X86_64!CTimeThread
  <2>1. I386!Init
    BY <1>2 DEF X86_64!CTimeThread, X86_64!Init, I386!Init, X86_64!Clocks, I386!Clocks,
                X86_64!Loops, I386!Loops, X86_64!Idle, I386!Idle
  <2> QED BY <1>2, <2>1, AtomicInit DEF CachesInv
<1>3. CASE which = "rwlock" /\ Rw!Init
  BY <1>3, RwInit DEF CachesInv
<1>4. CASE which = "plain" /\ Plain!Init
  BY <1>4, PlainInit DEF CachesInv
<1> QED BY <1>1, <1>2, <1>3, <1>4 DEF Init

\* Nothing that CachesInv speaks of changes in a stuttering step.
LEMMA CachesStutter ==
    ASSUME CachesInv, UNCHANGED allVars
    PROVE  CachesInv'
<1> USE DEF allVars, atomicVars, rwVars, plainVars
<1>1. ASSUME NEW split \in BOOLEAN, AtomicInv(split) PROVE AtomicInv(split)'
  <2>1. (I386!TypeOK)'
    BY <1>1 DEF AtomicInv, I386!TypeOK
  <2>2. TimesOrdered'
    BY <1>1 DEF AtomicInv, TimesOrdered
  <2>3. \A c \in {"mono", "real"} : cached[c] <= cached'[c]
    <3>1. \A c \in {"mono", "real"} : cached[c] \in Nat
      BY <1>1, AtomicTypes, TimeAssumption DEF AtomicInv
    <3> QED BY <3>1
  <2>4. \A r \in AtomicReaders : AtomicReader(r, split)'
    BY <1>1, <2>1, <2>3, AtomicForward
  <2> QED BY <2>1, <2>2, <2>4 DEF AtomicInv
<1>2. ASSUME RwInv PROVE RwInv'
  <2>1. (Rw!TypeOK)'
    BY <1>2 DEF RwInv, Rw!TypeOK
  <2>2. \A s : Known(s)' = Known(s)
    BY DEF Known, Rw!Value
  <2>3. RwUpdater'
    BY <1>2, <2>2 DEF RwInv, RwUpdater, Rw!Value
  <2>4. ASSUME NEW s \in {"tv", "real", "mono"}
        PROVE  /\ Known(s) <= Known(s)'
               /\ readers[s] # {} =>
                     s \notin writing' /\ Known(s)' = Known(s) /\ slots'[s].sec = slots[s].sec
    <3>1. Known(s) \in Nat
      BY <1>2, RwTypes DEF RwInv
    <3> QED BY <1>2, <2>2, <3>1 DEF RwInv
  <2> QED BY <1>2, <2>1, <2>3, <2>4, RwForward
<1>3. ASSUME PlainInv PROVE PlainInv'
  BY <1>3 DEF PlainInv, Plain!TypeOK, Due, Plain!Cached
<1> QED BY <1>1, <1>2, <1>3 DEF CachesInv

\* A step of the suite is a step of the program that runs.
LEMMA CachesStep == CachesInv /\ [Next]_allVars => CachesInv'
<1> SUFFICES ASSUME CachesInv, [Next]_allVars PROVE CachesInv'
  OBVIOUS
<1>1. CASE which = "i386" /\ I386!Next /\ which' = which
  BY <1>1, I386Step DEF CachesInv
<1>2. CASE which = "x86_64" /\ X86_64!CasNext /\ which' = which
  BY <1>2, X86Step DEF CachesInv
<1>3. CASE which = "rwlock" /\ Rw!Next /\ which' = which
  BY <1>3, RwStep DEF CachesInv
<1>4. CASE which = "plain" /\ Plain!Next /\ which' = which
  BY <1>4, PlainStep DEF CachesInv
<1>5. CASE UNCHANGED allVars
  BY <1>5, CachesStutter
<1> QED BY <1>1, <1>2, <1>3, <1>4, <1>5 DEF Next

\* No reader of any of the clock caches is given a time that is ahead of the clock, behind
\* the last completed update, or behind what it got before, and the test loops warn only
\* with reason: for any number of readers and any length of a second.
THEOREM CachedTimeSoundHolds == Spec => []CachedTimeSound
<1>1. CachesInv => CachedTimeSound
  BY AtomicProperties, RwProperties, PlainProperties DEF CachesInv, CachedTimeSound
<1> QED BY <1>1, CachesInit, CachesStep, PTL DEF Spec

=============================================================================
