SPECIFICATION Spec
CONSTANTS
    Commands = {1, 2}
    Devices = {d1, d2}
    Collectors = {}
    Operator = operator
    NoOwner = noOwner
    MaxRetries = 1
    PollLimit = 2
    Workers = 1
    AckStatuses = {"completed", "failed"}
    MaxDispatch = 3
SYMMETRY Symmetry
INVARIANTS TypeOK HandOutBound SerialInv
PROPERTIES BackoffRespected LeaseSpec
CHECK_DEADLOCK FALSE
