SPECIFICATION Spec
CONSTANTS
    Users = {u1}
    Orders = {o1, o2}
    Keys = {k1, k2}
    Requests = {r1, r2}
    None = None
    Window = 2
    Grace = 2
    Patience = 1
    MaxTime = 8
    Events = {"CANCELED", "FAILED"}
    MockMode = FALSE
SYMMETRY Symmetry
INVARIANTS LifecycleShape PaidTimeBounded AccessWasCharged
PROPERTY GraceOnce
CONSTRAINT WebhooksEarly
CHECK_DEADLOCK FALSE
