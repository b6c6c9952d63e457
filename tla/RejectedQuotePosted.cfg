SPECIFICATION Spec
CONSTANTS
    q1 = q1  q2 = q2  r1 = r1  r2 = r2  r3 = r3  r4 = r4
    noStamp = noStamp  posted = posted
    Quote <- OneQuote
    Request <- TwoRequests
    CasAttempts = 2
    MaxFaults = 0
    NoStamp = noStamp
    Posted = posted
SYMMETRY Symmetry
PROPERTIES RejectedNeverPosted
CHECK_DEADLOCK FALSE
