SPECIFICATION Spec
CONSTANTS
    d1 = d1  d2 = d2  d3 = d3  d4 = d4  r1 = r1  r2 = r2  r3 = r3  r4 = r4  r5 = r5  u1 = u1
    template = template  revised = revised  noDoc = noDoc  noVersion = noVersion
    Doc <- FourDocs
    Request <- FourRequests
    User <- OneUser
    Text <- TwoTexts
    Template = template
    MaxFaults = 1
    NoDoc = noDoc
    NoVersion = noVersion
SYMMETRY Symmetry
INVARIANTS DraftsSound ServedIsCurrent SettingNamesAPublication ConsentWasPublished
PROPERTIES NeverUnpublished
CHECK_DEADLOCK FALSE
