SPECIFICATION Spec
CONSTANTS
    Users = {u1}
    Orders = {o1, o2}
    Keys = {k1, k2}
    Requests = {r1, r2}
    None = None
    Window = 2
    Grace = 2
    Patience = 1
    MaxTime = 5
    Events = {"CANCELED", "FAILED"}
    MockMode = FALSE
SYMMETRY Symmetry
INVARIANT PaidPeriodGrantsAccess
CHECK_DEADLOCK FALSE
