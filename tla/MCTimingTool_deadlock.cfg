\* Destroy while the routine wakes.
SPECIFICATION FairSpec
CONSTANTS
    Objects = {o1}
    NULL = NULL
    MaxTimeout = 2
    Uses <- UnpacedUse
CHECK_DEADLOCK FALSE
PROPERTY DestroyReturns
