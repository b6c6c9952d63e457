SPECIFICATION Spec
CONSTANTS
    c1 = c1  c2 = c2  wifi = wifi  mobile = mobile
    Call <- TwoCalls
    Ip <- TwoIps
    MaxRetries = 1
    MaxEntries = 2
    MaxTokens = 1
    MaxFaults = 1
SYMMETRY Symmetry
INVARIANTS OnceUnlessExcused SuccessMeansExecuted CacheSound
CHECK_DEADLOCK FALSE
