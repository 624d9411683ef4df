\* The same with two timers under fairness, for liveness.
SPECIFICATION FairSpec
CONSTANTS
    Objects = {o1, o2}
    NULL = NULL
    MaxTimeout = 2
    Uses <- PacedUses
CHECK_DEADLOCK FALSE
INVARIANT DestroyedIsQuiet
PROPERTIES TimersFire StopReturns DestroyReturns
