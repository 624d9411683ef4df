\* Three timers in a paced program; the system stops after Destroy.
SPECIFICATION Spec
CONSTANTS
    Objects = {o1, o2, o3}
    NULL = NULL
    MaxTimeout = 2
    Uses <- PacedUses
CHECK_DEADLOCK FALSE
SYMMETRY ObjectSymmetry
INVARIANTS TypeOK ListIntact DelEndsWithTwo
PROPERTY ImplementsTimers
