SPECIFICATION SpecInUse
CONSTANTS
    a1 = a1  a2 = a2  b1 = b1  b2 = b2
    r1 = r1  r2 = r2  r3 = r3  r4 = r4  no = no
    Account <- TwoAccounts
    Browser <- TwoBrowsers
    Request <- FourRequests
    No = no
SYMMETRY Symmetry
INVARIANTS BlockedOnlyAdmitted ErasedHoldsNothing SoloKeepsSession
PROPERTIES SpentNeverRedeemed
CHECK_DEADLOCK FALSE
