SPECIFICATION FairSpec
CONSTANTS
    Commands = {c1, c2}
    Users = {u1, u2, u3}
    Edges = {e1, e2}
    Policies = {"none", "dual"}
    Worlds <- SmallWorlds
    Rollbacks = TRUE
INVARIANTS TypeOK RunsApproved HandedOnce
PROPERTIES  ApprovedIsServed
CHECK_DEADLOCK FALSE
