CONSTANTS
    d1 = d1
    d2 = d2
    ann = ann
    bob = bob
    cat = cat
    Devices = {d1, d2}
    Keys = {ann, bob}
    Vals = {"entry"}
    Nil = Nil
    Kinds = {"count", "join", "leave"}
    Lists = {}
    Owner = bob
    Registered = {bob}
    Earlier = {}
    uid <- SignedIn
    MaxOpens = 1
    MaxTaps = 1
    MaxRefusals = 0
    MaxDrops = 0
    MaxKills = 1
SPECIFICATION FairSpec
CHECK_DEADLOCK FALSE
PROPERTY SuccessIsLasting
