----------------------------- MODULE Browser -------------------------------
(***************************************************************************)
(* The browser of a visitor or member, one module at a time: the home      *)
(* page, quizzes, cards and collections, banners, signing in, the profile. *)
(* The modules share no state, so a behaviour is of one of them: `part'    *)
(* says which.  Variables of the same name are one variable here; those    *)
(* the part does not have are None.                                        *)
(***************************************************************************)
EXTENDS Naturals, FiniteSets, Sequences

CONSTANTS None, Blank,
  \* the home page
  MaxQuote, Matches, Popular, EntryPage, Limit, Approvable, Links, Request, MaxFetches, MaxMoves,
  MaxTrouble,
  \* quizzes
  Option, Taker, Window, Admin, Trusted, MaxOptions, MaxEdits, MaxDecisions, MaxAttempts,
  \* cards and collections
  Card, CardCol, CardQuote, OtherQuote, Preview, CardList, Topics, MaxOthers, CardFaults,
  \* banners
  Page, Content,
  \* signing in
  Account, SameOrigin, MaxChanges, TabFaults,
  \* the profile
  Text, Tag, Language, Default, TagsOf, LanguageOf, MaxTags, ProfileCol, MaxClicks,
  ProfileFaults

VARIABLES part,  \* the module this behaviour is of
          approved, trashed, version, url, past, clearing, starting, req, newest, list,
          total, loading, error, game, link, linked, made, odd, landed, moves, faults,
          draft, marked, shifted, quiz, decision, result, page, overwritten, attempted,
          edits, decisions, attempts, topic, liked, others, public, col, shown, picker,
          overrides, job, astray, drifted, excused, path, content, dismissed, visible,
          checking, closing, observed, inView, owed, visibleRef, timer, viewedPath,
          reports, cut, lapsed, token, user, flow, renewal, cookie, stored, leaving,
          visiting, latch, shownBusy, out, why, fromOther, changes, tab, text, tags,
          locale, touched, analyzing, submitting, drafts, chosen, crossed, rows, jobs,
          clicks

Feed == INSTANCE HomeFeed WITH Collections <- Approvable, score <- liked, turns <- changes
Quiz == INSTANCE Quizzes WITH Tab <- Window
Library == INSTANCE Collections WITH
             Col <- CardCol, Quote <- CardQuote, Other <- OtherQuote, Listing <- CardList,
             MaxFaults <- CardFaults, lists <- list, late <- leaving, outdated <- trashed
Banner == INSTANCE BannerViews
Tab == INSTANCE SignIn WITH MaxFaults <- TabFaults
Profile == INSTANCE ProfilePage WITH Col <- ProfileCol, MaxFaults <- ProfileFaults

ASSUME FeedAssumption == Feed!LimitAssumption
ASSUME LibraryAssumption == Library!BoundsAssumption
ASSUME ProfileAssumption == Profile!AnalysisAssumption

\* None is the null of every part: nothing that a part keeps is equal to it.
ASSUME NullsAssumption ==
  None \notin Account \cup Tab!Renewal \cup Quiz!StoredQuiz \cup Library!StoredCollection
             \cup {"approve", "reject", "delete"} \cup {"private", "public"}

\* The variables a part does not have.
notFeed == <<draft, marked, shifted, quiz, decision, result, page, overwritten, attempted,
             edits, decisions, attempts, topic, others, public, col, shown, picker,
             overrides, job, astray, drifted, excused, path, content, dismissed, visible,
             checking, closing, observed, inView, owed, visibleRef, timer, viewedPath,
             reports, cut, lapsed, token, user, flow, renewal, cookie, stored, leaving,
             visiting, latch, shownBusy, out, why, fromOther, tab, text, tags,
             locale, touched, analyzing, submitting, drafts, chosen, crossed, rows, jobs,
             clicks>>
notQuizzes == <<approved, trashed, version, url, past, clearing, starting, req, newest,
                list, total, loading, error, game, link, linked, made, odd, landed, moves,
                faults, topic, liked, others, public, col, shown, picker, overrides, job,
                astray, drifted, excused, path, content, dismissed, visible, checking,
                closing, observed, inView, owed, visibleRef, timer, viewedPath, reports,
                cut, lapsed, token, user, flow, renewal, cookie, stored, leaving,
                visiting, latch, shownBusy, out, why, fromOther, changes, tab, text, tags,
                locale, touched, analyzing, submitting, drafts, chosen, crossed, rows,
                jobs, clicks>>
notLibrary == <<approved, version, url, past, clearing, starting, req, newest,
                total, loading, error, game, link, linked, made, odd, landed, moves,
                draft, marked, shifted, quiz, decision, result, page, overwritten,
                attempted, edits, decisions, attempts, path, content, dismissed, visible,
                checking, closing, observed, inView, owed, visibleRef, timer, viewedPath,
                reports, cut, lapsed, token, user, flow, renewal, cookie, stored, visiting,
                latch, shownBusy, out, why, fromOther, changes, tab, text, tags,
                locale, touched, analyzing, submitting, drafts, chosen, crossed, rows,
                jobs, clicks>>
notBanner == <<approved, trashed, version, url, past, clearing, starting, req, newest,
               list, total, loading, error, game, link, linked, made, odd, landed, moves,
               faults, draft, marked, shifted, quiz, decision, result, page, overwritten,
               attempted, edits, decisions, attempts, topic, liked, others, public, col,
               shown, picker, overrides, job, astray, drifted, excused, token, user, flow,
               renewal, cookie, stored, leaving, visiting, latch, shownBusy, out, why,
               fromOther, changes, tab, text, tags, locale, touched, analyzing,
               submitting, drafts, chosen, crossed, rows, jobs, clicks>>
notSignin == <<approved, trashed, version, url, past, clearing, starting, req, newest,
               list, total, error, game, link, linked, made, odd, landed, moves, draft,
               marked, shifted, quiz, decision, result, page, overwritten, attempted,
               edits, decisions, attempts, topic, liked, others, public, col, shown,
               picker, overrides, job, astray, drifted, excused, path, content, dismissed,
               visible, checking, closing, observed, inView, owed, visibleRef, timer,
               viewedPath, reports, cut, lapsed, tab, text, tags, locale, touched,
               analyzing, submitting, drafts, chosen, crossed, rows, jobs, clicks>>
notProfile == <<approved, trashed, version, url, past, clearing, starting, req, newest,
                list, total, loading, error, game, link, linked, made, odd, landed, moves,
                draft, marked, shifted, quiz, decision, page, overwritten, attempted,
                edits, decisions, attempts, topic, liked, others, public, col, picker,
                overrides, job, astray, drifted, path, content, dismissed, visible,
                checking, closing, observed, inView, owed, visibleRef, timer, viewedPath,
                reports, cut, lapsed, token, user, flow, renewal, cookie, stored, leaving,
                visiting, latch, shownBusy, out, why, fromOther, changes>>
all == <<part, approved, trashed, version, url, past, clearing, starting, req, newest,
               list, total, loading, error, game, link, linked, made, odd, landed, moves,
               faults, draft, marked, shifted, quiz, decision, result, page, overwritten,
               attempted, edits, decisions, attempts, topic, liked, others, public, col,
               shown, picker, overrides, job, astray, drifted, excused, path, content,
               dismissed, visible, checking, closing, observed, inView, owed, visibleRef,
               timer, viewedPath, reports, cut, lapsed, token, user, flow, renewal,
               cookie, stored, leaving, visiting, latch, shownBusy, out, why, fromOther,
               changes, tab, text, tags, locale, touched, analyzing, submitting, drafts,
               chosen, crossed, rows, jobs, clicks>>

\* They stay None: TLC needs an equation for each.
Init ==
    \/ /\ part = "feed" /\ Feed!Init
       /\ draft = None /\ marked = None /\ shifted = None /\ quiz = None /\ decision = None
          /\ result = None /\ page = None /\ overwritten = None /\ attempted = None /\ edits = None
          /\ decisions = None /\ attempts = None /\ topic = None /\ others = None
          /\ public = None /\ col = None /\ shown = None /\ picker = None /\ overrides = None
          /\ job = None /\ astray = None /\ drifted = None /\ excused = None /\ path = None
          /\ content = None /\ dismissed = None /\ visible = None /\ checking = None /\ closing = None
          /\ observed = None /\ inView = None /\ owed = None /\ visibleRef = None /\ timer = None
          /\ viewedPath = None /\ reports = None /\ cut = None /\ lapsed = None /\ token = None
          /\ user = None /\ flow = None /\ renewal = None /\ cookie = None /\ stored = None
          /\ leaving = None /\ visiting = None /\ latch = None /\ shownBusy = None /\ out = None
          /\ why = None /\ fromOther = None /\ tab = None /\ text = None /\ tags = None
          /\ locale = None /\ touched = None /\ analyzing = None /\ submitting = None
          /\ drafts = None /\ chosen = None /\ crossed = None /\ rows = None /\ jobs = None
          /\ clicks = None
    \/ /\ part = "quizzes" /\ Quiz!Init
       /\ approved = None /\ trashed = None /\ version = None /\ url = None /\ past = None
          /\ clearing = None /\ starting = None /\ req = None /\ newest = None /\ list = None
          /\ total = None /\ loading = None /\ error = None /\ game = None /\ link = None
          /\ linked = None /\ made = None /\ odd = None /\ landed = None /\ moves = None /\ faults = None
          /\ topic = None /\ liked = None /\ others = None /\ public = None /\ col = None
          /\ shown = None /\ picker = None /\ overrides = None /\ job = None /\ astray = None
          /\ drifted = None /\ excused = None /\ path = None /\ content = None /\ dismissed = None
          /\ visible = None /\ checking = None /\ closing = None /\ observed = None /\ inView = None
          /\ owed = None /\ visibleRef = None /\ timer = None /\ viewedPath = None /\ reports = None
          /\ cut = None /\ lapsed = None /\ token = None /\ user = None /\ flow = None /\ renewal = None
          /\ cookie = None /\ stored = None /\ leaving = None /\ visiting = None /\ latch = None
          /\ shownBusy = None /\ out = None /\ why = None /\ fromOther = None /\ changes = None
          /\ tab = None /\ text = None /\ tags = None /\ locale = None /\ touched = None
          /\ analyzing = None /\ submitting = None /\ drafts = None /\ chosen = None /\ crossed = None
          /\ rows = None /\ jobs = None /\ clicks = None
    \/ /\ part = "library" /\ Library!Init
       /\ approved = None /\ version = None /\ url = None /\ past = None
          /\ clearing = None /\ starting = None /\ req = None /\ newest = None
          /\ total = None /\ loading = None /\ error = None /\ game = None /\ link = None
          /\ linked = None /\ made = None /\ odd = None /\ landed = None /\ moves = None /\ draft = None
          /\ marked = None /\ shifted = None /\ quiz = None /\ decision = None /\ result = None
          /\ page = None /\ overwritten = None /\ attempted = None /\ edits = None /\ decisions = None
          /\ attempts = None /\ path = None /\ content = None /\ dismissed = None /\ visible = None
          /\ checking = None /\ closing = None /\ observed = None /\ inView = None /\ owed = None
          /\ visibleRef = None /\ timer = None /\ viewedPath = None /\ reports = None /\ cut = None
          /\ lapsed = None /\ token = None /\ user = None /\ flow = None /\ renewal = None
          /\ cookie = None /\ stored = None /\ visiting = None /\ latch = None
          /\ shownBusy = None /\ out = None /\ why = None /\ fromOther = None /\ changes = None
          /\ tab = None /\ text = None /\ tags = None /\ locale = None /\ touched = None
          /\ analyzing = None /\ submitting = None /\ drafts = None /\ chosen = None /\ crossed = None
          /\ rows = None /\ jobs = None /\ clicks = None
    \/ /\ part = "banner" /\ Banner!Init
       /\ approved = None /\ trashed = None /\ version = None /\ url = None /\ past = None
          /\ clearing = None /\ starting = None /\ req = None /\ newest = None /\ list = None
          /\ total = None /\ loading = None /\ error = None /\ game = None /\ link = None
          /\ linked = None /\ made = None /\ odd = None /\ landed = None /\ moves = None /\ faults = None
          /\ draft = None /\ marked = None /\ shifted = None /\ quiz = None /\ decision = None
          /\ result = None /\ page = None /\ overwritten = None /\ attempted = None /\ edits = None
          /\ decisions = None /\ attempts = None /\ topic = None /\ liked = None /\ others = None
          /\ public = None /\ col = None /\ shown = None /\ picker = None /\ overrides = None
          /\ job = None /\ astray = None /\ drifted = None /\ excused = None /\ token = None
          /\ user = None /\ flow = None /\ renewal = None /\ cookie = None /\ stored = None
          /\ leaving = None /\ visiting = None /\ latch = None /\ shownBusy = None /\ out = None
          /\ why = None /\ fromOther = None /\ changes = None /\ tab = None /\ text = None /\ tags = None
          /\ locale = None /\ touched = None /\ analyzing = None /\ submitting = None
          /\ drafts = None /\ chosen = None /\ crossed = None /\ rows = None /\ jobs = None
          /\ clicks = None
    \/ /\ part = "signin" /\ Tab!Init
       /\ approved = None /\ trashed = None /\ version = None /\ url = None /\ past = None
          /\ clearing = None /\ starting = None /\ req = None /\ newest = None /\ list = None
          /\ total = None /\ error = None /\ game = None /\ link = None /\ linked = None /\ made = None
          /\ odd = None /\ landed = None /\ moves = None /\ draft = None /\ marked = None
          /\ shifted = None /\ quiz = None /\ decision = None /\ result = None /\ page = None
          /\ overwritten = None /\ attempted = None /\ edits = None /\ decisions = None
          /\ attempts = None /\ topic = None /\ liked = None /\ others = None /\ public = None
          /\ col = None /\ shown = None /\ picker = None /\ overrides = None /\ job = None
          /\ astray = None /\ drifted = None /\ excused = None /\ path = None /\ content = None
          /\ dismissed = None /\ visible = None /\ checking = None /\ closing = None /\ observed = None
          /\ inView = None /\ owed = None /\ visibleRef = None /\ timer = None /\ viewedPath = None
          /\ reports = None /\ cut = None /\ lapsed = None /\ tab = None /\ text = None /\ tags = None
          /\ locale = None /\ touched = None /\ analyzing = None /\ submitting = None
          /\ drafts = None /\ chosen = None /\ crossed = None /\ rows = None /\ jobs = None
          /\ clicks = None
    \/ /\ part = "profile" /\ Profile!Init
       /\ approved = None /\ trashed = None /\ version = None /\ url = None /\ past = None
          /\ clearing = None /\ starting = None /\ req = None /\ newest = None /\ list = None
          /\ total = None /\ loading = None /\ error = None /\ game = None /\ link = None
          /\ linked = None /\ made = None /\ odd = None /\ landed = None /\ moves = None /\ draft = None
          /\ marked = None /\ shifted = None /\ quiz = None /\ decision = None /\ page = None
          /\ overwritten = None /\ attempted = None /\ edits = None /\ decisions = None
          /\ attempts = None /\ topic = None /\ liked = None /\ others = None /\ public = None
          /\ col = None /\ picker = None /\ overrides = None /\ job = None /\ astray = None
          /\ drifted = None /\ path = None /\ content = None /\ dismissed = None /\ visible = None
          /\ checking = None /\ closing = None /\ observed = None /\ inView = None /\ owed = None
          /\ visibleRef = None /\ timer = None /\ viewedPath = None /\ reports = None /\ cut = None
          /\ lapsed = None /\ token = None /\ user = None /\ flow = None /\ renewal = None
          /\ cookie = None /\ stored = None /\ leaving = None /\ visiting = None /\ latch = None
          /\ shownBusy = None /\ out = None /\ why = None /\ fromOther = None /\ changes = None

Next ==
    \/ part = "feed" /\ Feed!Next /\ UNCHANGED <<part, notFeed>>
    \/ part = "quizzes" /\ Quiz!Next /\ UNCHANGED <<part, notQuizzes>>
    \/ part = "library" /\ Library!Next /\ UNCHANGED <<part, notLibrary>>
    \/ part = "banner" /\ Banner!Next /\ UNCHANGED <<part, notBanner>>
    \/ part = "signin" /\ Tab!Next /\ UNCHANGED <<part, notSignin>>
    \/ part = "profile" /\ Profile!Next /\ UNCHANGED <<part, notProfile>>

Spec == Init /\ [][Next]_all

-----------------------------------------------------------------------------
(* The list the visitor scrolls is what the answers in force say, in order *)
(* and without gaps, and a spinner is never left alone; HomeFeed states    *)
(* each part (client/src/app/HomeFeed.tsx).                                *)
FeedCorrect ==
    part = "feed" => Feed!TypeOK /\ Feed!FeedIsPrefix /\ Feed!LoadingWatched

(* The stored key is the option the author marked unless an earlier option *)
(* was removed, a review shown is the stored attempt's unless another tab  *)
(* overtook it, and nobody sees the key before being graded; Quizzes       *)
(* states each part (tests/create/page.tsx, quizzes.ts).                   *)
QuizzesCorrect ==
    part = "quizzes" => /\ Quiz!TypeOK
                        /\ Quiz!KeyExplained
                        /\ Quiz!ReviewExplained
                        /\ Quiz!KeyIsEarned

(* Once its requests are answered a card shows the stored like, and a      *)
(* picker the stored membership, unless another card, a lost answer or an  *)
(* old preview explains it; Collections states each part (QuoteCard.tsx,   *)
(* collections.ts).                                                        *)
CardsCorrect ==
    part = "library" => Library!TypeOK /\ Library!LikeShown /\ Library!MemberExplained

(* A page reports at most one view of a banner, only after a second in     *)
(* view, and a banner is hidden only if this content was dismissed;        *)
(* BannerViews states each part (BannerWrapper.tsx).                       *)
BannerCorrect ==
    part = "banner" => /\ Banner!TypeOK
                       /\ Banner!ViewExplained
                       /\ Banner!OnceAPage
                       /\ Banner!HiddenExplained

(* The tab shows the account its token belongs to, stays signed out after  *)
(* signing out, and runs one quick login per visit, but for the late       *)
(* answers SignIn names (auth.tsx, api.ts, login/page.tsx).                *)
SignInCorrect ==
    part = "signin" => /\ Tab!TypeOK
                       /\ Tab!SessionExplained
                       /\ Tab!LogoutHolds
                       /\ Tab!OneLoopAVisit

(* No hashtag of an earlier quote, no language other than the chosen one,  *)
(* and no collection listed twice or missing, but for the overtaking       *)
(* answers ProfilePage names (QuoteForm.tsx, profile/page.tsx).            *)
ProfileCorrect ==
    part = "profile" => /\ Profile!TypeOK
                        /\ Profile!TagsOfDraft
                        /\ Profile!ChosenLanguageKept
                        /\ Profile!ListExplained
=============================================================================
