SPECIFICATION Spec
CONSTANTS
    None = None  Blank = Blank  d1 = d1  d2 = d2  every = every  some = some
    x1 = x1  x2 = x2  h1 = h1  h2 = h2  uz = uz  ru = ru
    MaxQuote = 3  Matches <- TwoFilters  Popular = {some}  EntryPage = {1, 2}  Limit = 1
    Approvable <- OneStart  Links = {1}
    Request = {d1, d2}  MaxFetches = 2  MaxMoves = 2  MaxTrouble = 1
    Option = {e1, e2, e3}  Taker = {u1}  Window = {d1, d2}  Admin = {a1, a2}
    Trusted = FALSE  MaxOptions = 3  MaxEdits = 5  MaxDecisions = 2  MaxAttempts = 2
    Card = {d1, d2}  CardCol = {c1}  CardQuote = q1  OtherQuote = q2  Preview = 1  CardList = {e1}
    Topics = {"likes", "collections"}  MaxOthers = 1  CardFaults = 1
    Page = {e1, e2, e3}  Content = {x1, x2, x3}
    Account = {u1, u2}  SameOrigin = TRUE  MaxChanges = 5  TabFaults = 2
    Text = {x1, x2}  Tag = {h1, h2}  Language = {uz, ru}  Default = uz
    TagsOf <- TwoTags  LanguageOf <- TwoLanguages  MaxTags = 2  ProfileCol = {c1, c2}
    MaxClicks = 6  ProfileFaults = 1
SYMMETRY Symmetry
INVARIANTS FeedCorrect QuizzesCorrect CardsCorrect BannerCorrect SignInCorrect ProfileCorrect
CHECK_DEADLOCK FALSE
