CONSTANTS
    Devices = {d1}
    Users = {ann, bob}
    Nil = Nil
    Earlier = {bob}
    MaxLinks = 1
    MaxCalls = 2
    MaxFailures = 0
    MaxRefusals = 1
    MaxKills = 0
    MaxTexts = 1
    Pictures = {p1}
    MaxShares = 2
SPECIFICATION SSpec
CHECK_DEADLOCK FALSE
INVARIANT SharesWhatIsShown
