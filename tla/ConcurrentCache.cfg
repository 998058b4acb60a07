\* Three threads on two keys: with limit 1 placeholders are evicted while they
\* are pending, with limit 0 at once.
SPECIFICATION FairSpec
CONSTANTS
    Threads = {t1, t2, t3}
    Keys = {k1, k2}
    Sizes <- MCSizes
    MaxCalls = 4
INVARIANTS
    TypeOK
    CacheCoherent
    OwnPlaceholder
    PendingHasComputer
    NoBrokenPlaceholder
    ComputedOnce
PROPERTIES
    CallsReturn
