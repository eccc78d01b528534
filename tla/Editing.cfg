CONSTANTS
    d1 = d1
    d2 = d2
    ann = ann
    bob = bob
    event1 = event1
    Devices = {d1}
    Ids = {event1}
    Texts = {"blank", "new"}
    Keys <- Parts
    Vals = {"blank", "new", "made"}
    Nil = Nil
    Kinds = {"home", "mine", "detail"}
    Lists = {"home", "mine"}
    Blank = "blank"
    Users = {ann, bob}
    uid <- OnOne
    MaxTaps = 2
    MaxEdits = 1
    MaxRefusals = 1
    MaxDrops = 1
    MaxKills = 1
SPECIFICATION Spec
CHECK_DEADLOCK FALSE
INVARIANTS NoDuplicateRows ListsRight
