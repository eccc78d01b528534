CONSTANTS
    d1 = d1
    d2 = d2
    ann = ann
    bob = bob
    cat = cat
    Devices = {d1, d2}
    Keys = {ann, bob, cat}
    Vals = {"entry"}
    Nil = Nil
    Kinds = {"count", "join", "leave"}
    Lists = {}
    Owner = bob
    Registered = {bob, cat}
    Earlier = {cat}
    uid <- SignedIn
    MaxOpens = 2
    MaxTaps = 2
    MaxRefusals = 1
    MaxDrops = 1
    MaxKills = 1
SPECIFICATION Spec
CHECK_DEADLOCK FALSE
INVARIANTS TypeOK OnlyGuestsListed BoundedWrites CountRight
PROPERTY MembershipKept
