SPECIFICATION SettingsSpec
CONSTANTS
    d1 = d1
    d2 = d2
    Devices = {d1, d2}
    MaxSessions = 4
    MaxCalls = 2
    Scenes <- SectionsAtOnce
    MaxNotices = 2
    Limit = 2
    Creators = {c1}
    Clicks = {k1, k2}
INVARIANTS ShownIsStored PageTokenWorks
PROPERTY BellSettles
CHECK_DEADLOCK FALSE
