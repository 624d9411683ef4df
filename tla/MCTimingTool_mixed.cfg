\* Repeated and one-shot timers in one tool.
SPECIFICATION Spec
CONSTANTS
    Objects = {o1, o2}
    NULL = NULL
    MaxTimeout = 2
    Uses <- MixedUse
CHECK_DEADLOCK FALSE
SYMMETRY ObjectSymmetry
INVARIANT ListIntact
