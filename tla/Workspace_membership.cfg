SPECIFICATION Spec
CONSTANTS
    Users = {u1, u2}
    Workspaces = {w1, w2}
    Invites = {i1, i2}
    Plans = {p1}
    Requests = {r1, r2}
    None = None
    Limit = 2
SYMMETRY Symmetry
INVARIANTS OwnersAreMembers InvitesMatchMembers OwnerReachesPlan CopiedOnce
PROPERTY Couples
CHECK_DEADLOCK FALSE
