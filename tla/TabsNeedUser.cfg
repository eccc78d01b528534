CONSTANTS
    Devices = {d1}
    Users = {ann, bob}
    Nil = Nil
    Earlier = {}
    MaxLinks = 2
    MaxCalls = 3
    MaxFailures = 1
    MaxRefusals = 1
    MaxKills = 1
SPECIFICATION Spec
CHECK_DEADLOCK FALSE
INVARIANT TabsNeedUser
