SPECIFICATION Spec
CONSTANTS
    c1 = c1  c2 = c2  u1 = u1  u2 = u2  s1 = s1  t1 = t1  t2 = t2  null = null
    Chat <- TwoChats
    Account <- TwoAccounts
    Session <- OneSession
    Task <- TwoTasks
    MaxCodes = 2
    MaxLinks = 1
    MaxFaults = 1
    Null = null
SYMMETRY Symmetry
INVARIANTS LoginsExplained ProfilesHold
CHECK_DEADLOCK FALSE
