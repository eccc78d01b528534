CONSTANTS
    Devices = {d1, d2}
    Keys = {k1}
    Vals = {v1, v2}
    Nil = Nil
    Kinds = {"value", "list"}
    Lists = {"list"}
    MaxListeners = 1
    MaxWrites = 2
    MaxRefusals = 1
    MaxDrops = 1
    MaxKills = 1
SPECIFICATION HSpec
SYMMETRY Symmetry
CHECK_DEADLOCK FALSE
INVARIANTS TypeOK Delivered IdleAgrees AckFindsData
PROPERTY KeepsPromise
