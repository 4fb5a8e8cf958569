SPECIFICATION Spec
CONSTANTS
    Plans = {1, 2}
    Miners = {m1, m2, m3}
    ZeroPower = {m3}
    Web = {w1}
    Kinds <- SmallKinds
    Worlds <- SmallWorlds
SYMMETRY MinerSymmetry
INVARIANTS TypeOK HoldsItsMiners
PROPERTIES StrandedOnlyBy FinishedStays
CHECK_DEADLOCK FALSE
