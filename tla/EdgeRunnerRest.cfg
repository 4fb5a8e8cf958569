SPECIFICATION EdgeFairSpec
CONSTANTS
    d1 = d1
    d2 = d2
    Commands = {1, 2}
    Devices = {d1, d2}
    Collectors = {}
    Operator = operator
    NoOwner = noOwner
    MaxRetries = 1
    PollLimit = 2
    Workers = 1
    AckStatuses = {"completed", "failed", "deferred"}
    MaxDispatch = 3
    Worlds <- AllWorlds
INVARIANTS EdgeTypeOK CalmFailsNone
PROPERTIES LeaseFairSpec ComesToRest Served
CHECK_DEADLOCK FALSE
