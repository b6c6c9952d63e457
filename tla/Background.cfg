SPECIFICATION BackgroundSpec
CONSTANTS
    None = None
    Page = {p1}  Hook = {h1}  Token = {k1, k2}  EnvToken = k1  MaxEvents = 2
    Visitor = {v1, v2}  Report = {d1, d2}  MaxBeacons = 2  MaxFaults = 1  MaxStops = 1
    Address = {ip1}  Limit <- SmallLimits  Window <- SmallWindows  MaxTime = 4  MaxRequests = 5
INVARIANTS BotsCorrect ViewsCorrect LimitsCorrect
CHECK_DEADLOCK FALSE
