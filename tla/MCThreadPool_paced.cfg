\* A paced program under fairness, more tasks than workers.  The system stops
\* after Destroy.  No symmetry: two of the properties are liveness.
SPECIFICATION FairSpec
CONSTANTS
    Workers = {w1, w2, w3}
    Program = {p1, p2}
    MaxTasks = 3
    Paced = TRUE
CHECK_DEADLOCK FALSE
INVARIANTS TypeOK EachOnceInOrder FreeCountCoversIdle
PROPERTIES DestroyIsFinal AddedTasksRun DestroyEndsWorkers
