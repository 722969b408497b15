SPECIFICATION Spec
CONSTANTS
    AtomicReaders = {r1}
    RwReaders = {r1, r2}
    NSEC = 2
    WORD = 2
    Tolerance = 1
    MaxAtomic = 6
    MaxRw = 2
    MaxUnlocked = 6
INVARIANT CachedTimeSound
