\* Two processes find the file of one that has ended.
SPECIFICATION Spec
CONSTANTS
    Procs = {p1, p2, p3}
    NoFile = NoFile
    Ends = {"running"}
    StaleRace = TRUE
CHECK_DEADLOCK FALSE
SYMMETRY ProcSymmetry
INVARIANT AtMostOneRunning
