SPECIFICATION Spec
CONSTANTS
    Devices = {d1}
    Miners = {m1, m2}
    Users = {u1, u2}
    None = none
    MaxKeys = 2
    MaxVersion = 3
    MaxTexts = 3
SYMMETRY Alike
INVARIANTS TypeOK CurrentOpens CounterTells
PROPERTIES GoesBackByRaceOnly UploadsOpen
CHECK_DEADLOCK FALSE
