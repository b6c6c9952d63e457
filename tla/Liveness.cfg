SPECIFICATION LiveSpec
CONSTANTS
    q1 = q1  r1 = r1  r2 = r2  noStamp = noStamp  posted = posted  c1 = c1  wifi = wifi  mobile = mobile
    p1 = p1  t1 = t1  t2 = t2
    Process <- OneProcess
    Task <- TwoTasks
    MaxWrites = 1
    MaxRestarts = 1
    Null = null
INVARIANTS CopiesExplained
PROPERTIES SideEffectsComplete CallSettles EventuallyFresh
CHECK_DEADLOCK FALSE
