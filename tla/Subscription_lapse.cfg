SPECIFICATION FairSpec
CONSTANTS
    Users = {u1}
    Orders = {o1}
    Keys = {k1}
    Requests = {r1, r2}
    None = None
    Window = 1
    Grace = 1
    Patience = 1
    MaxTime = 3
    Events = {"CANCELED", "FAILED"}
    MockMode = FALSE
PROPERTY LapseEnds
CHECK_DEADLOCK FALSE
