\* One worker and one caller without pacing, under fairness.
SPECIFICATION FairSpec
CONSTANTS
    Workers = {w1}
    Program = {p1}
    MaxTasks = 1
    Paced = FALSE
CHECK_DEADLOCK FALSE
PROPERTY AddedTasksRun
