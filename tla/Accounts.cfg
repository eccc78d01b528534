CONSTANTS
    Devices = {d1, d2}
    Users = {ann, bob}
    Nil = Nil
    Earlier = {}
    MaxLinks = 2
    MaxCalls = 3
    MaxFailures = 1
    MaxRefusals = 1
    MaxKills = 1
SPECIFICATION Spec
SYMMETRY Symmetry
CHECK_DEADLOCK FALSE
INVARIANTS TypeOK RecordsComplete OneWriter
