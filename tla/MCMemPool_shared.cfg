\* Two threads share a locked pool of two units that grows by one unit, twice.
\* No symmetry: two of the properties are liveness.
SPECIFICATION FairSpec
CONSTANTS
    Threads = {t1, t2}
    Blocks = {b1, b2, b3}
    UnitSize = 16
    InitUnitCount = 2
    GrowUnitCount = 1
    UseLock = TRUE
    None = None
INVARIANTS TypeOK FreeListIntegrity HeldUnitsLive NothingLost
PROPERTIES ImplementsUnitPool EmptyIsReported LockIsReleased
