CONSTANTS
    Devices = {d1}
    Users = {ann, bob}
    Nil = Nil
    Earlier = {bob}
    MaxLinks = 1
    MaxCalls = 2
    MaxFailures = 1
    MaxRefusals = 1
    MaxKills = 0
    MaxTexts = 1
    Pictures = {p1}
    MaxShares = 2
SPECIFICATION SSpec
VIEW WithoutTold
CHECK_DEADLOCK FALSE
INVARIANTS SharingTypeOK PostsComplete PostedOnce
