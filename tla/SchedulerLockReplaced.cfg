SPECIFICATION FairSpec
CONSTANTS
    Processes = {p1, p2, p3}
    NoProcess = noProcess
    Sweepers = {s1}
    Twins = {}
    Starters = 2
    Slow = TRUE
    Recycles = TRUE
    Reacquires = FALSE
PROPERTIES TakesOver StaleStops
CHECK_DEADLOCK FALSE
