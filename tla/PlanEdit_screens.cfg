SPECIFICATION Spec
CONSTANTS
    Users = {u1, u2}
    Owner = u1
    Labellers = {u1}
    Ops = {"update", "share", "delete", "add", "edit", "remove", "memo", "unmemo"}
    Items = {i1, i2}
    Values = {v1}
    Requests = {r1, r2}
    None = None
    Undefined = Undefined
    MaxVersion = 3
SYMMETRY Symmetry
INVARIANTS VersionIdentifiesRow OneEditPerVersion
PROPERTIES UpdateKeepsOthers 
CONSTRAINTS OpsApart MemosApart LoadedFirst AccessLostOnce OneBehind
CHECK_DEADLOCK FALSE
