SPECIFICATION Spec
CONSTANTS
    Commands = {1, 2}
    Devices = {d1}
    Collectors = {k1}
    Operator = operator
    NoOwner = noOwner
    MaxRetries = 1
    PollLimit = 2
    Workers = 1
    AckStatuses = {"completed", "failed"}
    MaxDispatch = 2

PROPERTIES HandedOutWhenPending RevivedByRaceOnly
CHECK_DEADLOCK FALSE
