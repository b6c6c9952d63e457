SPECIFICATION Spec
CONSTANTS
    o1 = o1  o2 = o2  o3 = o3  u1 = u1  u2 = u2  t1 = t1  t2 = t2  a1 = a1  a2 = a2
    None = none  none = none  Blank = Blank
    Option <- ThreeOptions
    Taker <- OneTaker
    Tab <- TwoTabs
    Admin <- TwoAdmins
    Trusted = FALSE
    MaxOptions = 3
    MaxEdits = 6
    MaxDecisions = 3
    MaxAttempts = 3
SYMMETRY Symmetry
INVARIANT KeyIsMarked
CHECK_DEADLOCK FALSE
