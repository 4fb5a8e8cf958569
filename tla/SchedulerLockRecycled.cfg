SPECIFICATION FairSpec
CONSTANTS
    Processes = {p1}
    NoProcess = noProcess
    Sweepers = {}
    Twins = {}
    Starters = 1
    Slow = FALSE
    Recycles = TRUE
    Reacquires = FALSE
PROPERTIES JobsRun
CHECK_DEADLOCK FALSE
