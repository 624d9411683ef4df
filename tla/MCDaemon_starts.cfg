\* Processes start at once, and one by one after another was ended by a signal.  The system stops when every
\* process has had its turn.
SPECIFICATION DaemonSpec
CONSTANTS
    Procs = {p1, p2, p3}
    NoFile = NoFile
    Ends = {"stat", "read", "kill", "unlink", "open", "write", "running", "refused"}
    StaleRace = FALSE
    validSignal <- Registered2
    SIGALRM = "SIGALRM"
    NoSignal = "0"
    MaxSent = 2
CHECK_DEADLOCK FALSE
INVARIANTS DaemonTypeOK AtMostOneRunning NeverRefusedAlone NeverUnknown StuckNeedsTwo
PROPERTIES TakenOrReplaced EndingSignalEnds
