SPECIFICATION FairSpec
CONSTANTS
    Plans = {1, 2}
    Miners = {m1}
    ZeroPower = {}
    Web = {w1}
    Kinds <- SmallKinds
    Worlds <- SmallWorlds
PROPERTIES ComesBack
CHECK_DEADLOCK FALSE
