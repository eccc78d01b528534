CONSTANTS
    d1 = d1
    d2 = d2
    ann = ann
    bob = bob
    event1 = event1
    Devices = {d1, d2}
    Ids = {event1}
    Texts = {"new"}
    Keys <- Parts
    Vals = {"new", "made"}
    Nil = Nil
    Kinds = {"home", "mine", "detail"}
    Lists = {"home", "mine"}
    Blank = "new"
    Users = {ann, bob}
    uid <- SignedIn
    MaxTaps = 1
    MaxEdits = 0
    MaxRefusals = 0
    MaxDrops = 1
    MaxKills = 1
SPECIFICATION FairSpec
CHECK_DEADLOCK FALSE
INVARIANTS TypeOK WholePosts OnlyAuthorWrites ListsRight
PROPERTY ListsSettle
