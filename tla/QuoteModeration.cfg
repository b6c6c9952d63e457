SPECIFICATION Spec
CONSTANTS
    q1 = q1  q2 = q2  r1 = r1  r2 = r2  r3 = r3  r4 = r4
    noStamp = noStamp  posted = posted
    Quote <- OneQuote
    Request <- ThreeRequests
    CasAttempts = 2
    MaxFaults = 1
    NoStamp = noStamp
    Posted = posted
SYMMETRY Symmetry
INVARIANTS IInv OnePublisher DuplicatesExplained DecisionsAlternate OneNoticePerFlip
PROPERTIES ReleaseUndoesOwnClaim LedgerSpec
CHECK_DEADLOCK FALSE
