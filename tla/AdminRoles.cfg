SPECIFICATION Spec
CONSTANTS
    u1 = u1  u2 = u2  r1 = r1  r2 = r2  r3 = r3  master = master  null = null
    User <- TwoUsers
    Request <- TwoRequests
    Listings <- TwoListings
    MaxRestarts = 1
    Master = master
    Null = null
SYMMETRY Symmetry
INVARIANTS RolesHold
PROPERTIES SuperAdminRemains
CHECK_DEADLOCK FALSE
