CONSTANTS
    Devices = {d1}
    Keys = {k1,k2}
    Vals = {v1}
    Nil = Nil
    Kinds = {"value"}
    Lists = {}
    MaxListeners = 3
    MaxWrites = 1
    MaxRefusals = 1
    MaxDrops = 1
    MaxKills = 1
SPECIFICATION FairSpec
CHECK_DEADLOCK FALSE
INVARIANT Delivered
PROPERTY Convergence
