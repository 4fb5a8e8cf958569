SPECIFICATION Spec
CONSTANTS
    Processes = {p1, p2, p3, p4, p5}
    NoProcess = noProcess
    Sweepers = {s1, s2}
    Twins = {}
    Starters = 1
    Slow = FALSE
    Recycles = FALSE
    Reacquires = TRUE
SYMMETRY Symmetry
INVARIANTS TypeOK OneRunner
PROPERTIES LastRunnerStays
CHECK_DEADLOCK FALSE
