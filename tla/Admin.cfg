SPECIFICATION AdminSpec
CONSTANTS
    None = None  d1 = d1  d2 = d2  e1 = e1  e2 = e2  x2 = x2  k2 = k2  k3 = k3  MaxFaults = 1
    Socket = {d1, d2}  MenuLoad = {e1, e2}  MaxChanges = 2  MaxLogs = 1  MaxBans = 1  MaxMoves = 1
    Row = {x1, x2}  Filter = {f1, f2}  Call = {d1, d2}  MaxIssues = 3  MaxFilters = 1
    SubAdmin = {x1, x2}  Feature = {f1, f2}  ByDefault = {f1}  MaxToggles = 3  ElsewhereChanges = 1
    Person = {x1}  Handler = {d1, d2}  Mail = {x2}  Hook = {e1, e2}  MaxGrants = 2  MaxAgain = 1
    Editor = {e1, e2}  Key = {k1, k2, k3}  Value = {x1, x2}  Tabs = {{k1, k2}, {k3}}
    Unfit <- Unkept  Fit = x1  Numeric = {k3}
    Important = {k1, k3}  Kinds = {"settings", "content", "banners"}  MaxEdits = 2  MaxSaves = 2
SYMMETRY Symmetry
INVARIANTS RealtimeCorrect PanelsCorrect ApprovalsCorrect 
CHECK_DEADLOCK FALSE
