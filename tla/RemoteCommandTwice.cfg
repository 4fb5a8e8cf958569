SPECIFICATION Spec
CONSTANTS
    d1 = d1
    d2 = d2
    k1 = k1
    u1 = u1
    u2 = u2
    Miners = {m1, m2, m3}
    Foreign = {m3}
    Devices = {d1, d2}
    Collectors = {k1}
    Operators = {u1, u2}
    Copies = {1, 2}
    Worlds <- AllWorlds
    NoOwner = noOwner
    MaxRetries = 1
    AckStatuses = {"completed", "failed"}
    MaxDispatch = 0
INVARIANTS RunsOnce
CHECK_DEADLOCK FALSE
