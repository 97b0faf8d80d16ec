SPECIFICATION Spec
CONSTANTS
    Calls = {c1, c2}
    Tabs = {t1, t2}
    Jars = {j1}
    None = None
    MaxPairs = 2
    MaxRevs = 1
SYMMETRY Symmetry
INVARIANTS RevokedSessionsEnd StoredTokenWorks
PROPERTY Rotates
CHECK_DEADLOCK FALSE
