------------------------------- MODULE SignIn -------------------------------
(***************************************************************************)
(* Who one browser tab believes is signed in: AuthProvider                 *)
(* (client/src/lib/auth.tsx), the token store and the renewal of access    *)
(* tokens (client/src/lib/api.ts), the login page with its Telegram quick  *)
(* login, and the pages that post something and then refresh the user.     *)
(*                                                                         *)
(* The tab keeps the token in sessionStorage and the user in React state;  *)
(* several asynchronous flows write both.  The refresh cookie is shared    *)
(* with the other tabs of the browser.  A token is represented by the      *)
(* account it was issued to.                                               *)
(***************************************************************************)
EXTENDS Naturals, FiniteSets, TLC

CONSTANTS Account, None,
          SameOrigin,  \* do page and API share an origin?  Only then is the cookie of an answer kept
          MaxChanges,  \* bound on sign-ins, sign-outs, reloads and page visits
          MaxFaults    \* bound on refused and lost requests

VARIABLES token,       \* tokenStore
          user, loading,
          flow,        \* the asynchronous calls of the tab
          renewal,     \* refreshPromise, or None
          cookie,      \* the refresh cookie of the browser
          stored,      \* accounts whose refresh digest the server keeps
          leaving,     \* the account a POST /logout under way will revoke
          visiting,    \* the login page is mounted
          latch,       \* quickInFlight of the mounted login page (and quickBusy)
          shownBusy,   \* quickBusy as last rendered
          out,         \* the visitor has signed out and not signed in since
          why,         \* what may have torn user and token apart
          fromOther,   \* the cookie was last set by another tab
          changes, faults

session == <<token, user, loading>>
server == <<cookie, stored, leaving, fromOther>>
loginPage == <<visiting, latch, shownBusy>>
ghost == <<out, why>>
bounds == <<changes, faults>>
vars == <<session, flow, renewal, server, loginPage, ghost, bounds>>

Quick == {"quick1", "quick2"}
Flows == {"boot", "login", "me", "act"} \cup Quick
Idle == [phase |-> "idle", kind |-> None, sent |-> None, again |-> FALSE, late |-> FALSE]
Renewal == [account : Account \cup {None}, foreign : BOOLEAN, late : BOOLEAN]
Sent(kind, tok) == [Idle EXCEPT !.phase = "sent", !.kind = kind, !.sent = tok]

Init == /\ token = None /\ user = None /\ loading = FALSE
        /\ flow = [f \in Flows |-> Idle] /\ renewal = None
        /\ cookie = None /\ stored = {} /\ leaving = None /\ fromOther = FALSE
        /\ visiting = FALSE /\ latch = FALSE /\ shownBusy = FALSE
        /\ out = FALSE /\ why = {}
        /\ changes = 0 /\ faults = 0

Change == changes < MaxChanges /\ changes' = changes + 1 /\ UNCHANGED faults
Fault == faults < MaxFaults /\ faults' = faults + 1 /\ UNCHANGED changes

\* Calls under way when the session changes will be answered late.
Overtaken(fl) == [f \in Flows |-> IF fl[f].phase = "idle" THEN Idle ELSE [fl[f] EXCEPT !.late = TRUE]]
OvertakenRenewal == IF renewal = None THEN None ELSE [renewal EXCEPT !.late = TRUE]
Lateness(f) == IF flow[f].late THEN {"late"} ELSE {}

-----------------------------------------------------------------------------
(* Calls: api() reads the token when it sends, and again when it retries.  *)
Begin(f, kind) == flow[f].phase = "idle" /\ flow' = [flow EXCEPT ![f] = Sent(kind, token)]

\* A network failure: another attempt, or the last one and the call throws.
Lost(f) == /\ flow[f].phase = "sent" /\ Fault
           /\ flow' \in {[flow EXCEPT ![f].sent = token], [flow EXCEPT ![f].phase = "failed"]}
           /\ UNCHANGED <<session, renewal, server, loginPage, ghost>>

\* 401: the first one of a call that carried a token waits for a renewal, shared by all of them.
RenewsAlways(f) == ~flow[f].again
Renews(f) == flow[f].sent # None /\ ~flow[f].again
Refused(f) ==
    /\ flow[f].phase = "sent" /\ f \notin Quick /\ Fault
    /\ IF Renews(f)
       THEN /\ flow' = [flow EXCEPT ![f].phase = "renewing", ![f].again = TRUE]
            /\ renewal' = IF renewal # None THEN renewal
                          ELSE [account |-> cookie, foreign |-> fromOther, late |-> flow[f].late]
       ELSE flow' = [flow EXCEPT ![f].phase = "failed"] /\ UNCHANGED renewal
    /\ UNCHANGED <<session, server, loginPage, ghost>>

Waiting == {f \in Flows : flow[f].phase = "renewing"}

\* tryRefreshToken: the answer is stored whatever has happened meanwhile.
Renewed ==
    /\ renewal # None /\ renewal.account \in stored
    /\ token' = renewal.account
    /\ flow' = [f \in Flows |-> IF f \in Waiting
                                THEN [flow[f] EXCEPT !.phase = "sent", !.sent = renewal.account]
                                ELSE flow[f]]
    /\ why' = why \cup (IF renewal.late THEN {"late"} ELSE {})
                  \cup (IF renewal.foreign THEN {"foreign"} ELSE {})
    /\ renewal' = None
    /\ UNCHANGED <<user, loading, server, loginPage, out, bounds>>

NotRenewed ==
    /\ renewal # None
    /\ renewal.account \in stored => faults < MaxFaults
    /\ faults' = IF renewal.account \in stored THEN faults + 1 ELSE faults
    /\ flow' = [f \in Flows |-> IF f \in Waiting THEN [flow[f] EXCEPT !.phase = "failed"] ELSE flow[f]]
    /\ renewal' = None
    /\ UNCHANGED <<session, server, loginPage, ghost, changes>>

-----------------------------------------------------------------------------
(* Signing in and out.                                                     *)
SignedIn(f, a) ==
    /\ flow[f].phase = "sent"
    /\ token' = a /\ user' = a /\ UNCHANGED loading
    /\ stored' = stored \cup {a} /\ UNCHANGED leaving
    /\ IF SameOrigin THEN cookie' = a /\ fromOther' = FALSE ELSE UNCHANGED <<cookie, fromOther>>
    /\ flow' = Overtaken([flow EXCEPT ![f] = Idle])
    /\ renewal' = OvertakenRenewal
    /\ out' = (out /\ flow[f].late)
    /\ why' = IF flow[f].late THEN why \cup {"late"} ELSE {}
    /\ UNCHANGED bounds

Released(f) == /\ latch' = (latch /\ flow[f].kind = "left") /\ UNCHANGED <<visiting, shownBusy>>

Login == visiting /\ Begin("login", "form") /\ Change
         /\ UNCHANGED <<session, renewal, server, loginPage, ghost>>
LoggedIn(a) == SignedIn("login", a) /\ UNCHANGED loginPage

\* logout: the tab first, then POST /logout, whose outcome nobody waits for.
KeepsToken(fl) == token' = token /\ user' = None /\ flow' = Overtaken(fl)
Cleared(fl) == token' = None /\ user' = None /\ flow' = Overtaken(fl)
LogsOut(fl) == /\ Cleared(fl) /\ UNCHANGED loading
               /\ renewal' = OvertakenRenewal
               /\ leaving' = IF SameOrigin THEN cookie ELSE None
               /\ out' = TRUE /\ why' = {}
Logout == /\ user # None /\ LogsOut(flow) /\ Change
          /\ UNCHANGED <<cookie, stored, fromOther, loginPage>>
RevokedCookie == /\ leaving # None
                 /\ stored' = stored \ {leaving} /\ leaving' = None
                 /\ cookie' = None /\ fromOther' = FALSE
                 /\ UNCHANGED <<session, flow, renewal, loginPage, ghost, bounds>>

\* The login page; leaving it stops none of its calls.
Visit == /\ ~visiting /\ Change /\ visiting' = TRUE
         /\ UNCHANGED <<session, flow, renewal, server, latch, shownBusy, ghost>>
Leave == /\ visiting
         /\ visiting' = FALSE /\ latch' = FALSE /\ shownBusy' = FALSE
         /\ flow' = [f \in Flows |-> IF f \in Quick /\ flow[f].phase # "idle"
                                     THEN [flow[f] EXCEPT !.kind = "left"] ELSE flow[f]]
         /\ UNCHANGED <<session, renewal, server, ghost, bounds>>

\* Two clicks may come before the button is rendered disabled; the latch is read at once.
LatchedByButton == shownBusy
Latched == latch
QuickLogin(q) == /\ visiting /\ ~shownBusy /\ ~Latched /\ Begin(q, "here") /\ Change
                 /\ latch' = TRUE
                 /\ UNCHANGED <<session, renewal, server, visiting, shownBusy, ghost>>
Render == /\ shownBusy # latch /\ shownBusy' = latch
          /\ UNCHANGED <<session, flow, renewal, server, visiting, latch, ghost, bounds>>

\* The poll says COMPLETE; or EXPIRED, ERROR, or the two minutes are over.
QuickCompletes(q, a) == SignedIn(q, a) /\ Released(q)
QuickEnds(q) == /\ flow[q].phase = "sent" /\ Fault
                /\ flow' = [flow EXCEPT ![q] = Idle] /\ Released(q)
                /\ UNCHANGED <<session, renewal, server, ghost>>

-----------------------------------------------------------------------------
(* Reading who is signed in.                                               *)
\* A reload keeps the token and starts bootstrap.
Reload == /\ Change
          /\ flow' = [f \in Flows |-> IF f = "boot" /\ token # None THEN Sent("read", token) ELSE Idle]
          /\ user' = None /\ loading' = (token # None) /\ UNCHANGED token
          /\ renewal' = None
          /\ visiting' = FALSE /\ latch' = FALSE /\ shownBusy' = FALSE
          /\ why' = (IF out \/ cookie \notin {None, token} THEN why ELSE {}) /\ UNCHANGED out
          /\ UNCHANGED server

\* refresh() of the profile page.
Refresh == /\ token # None /\ (user # None \/ loading) /\ Begin("me", "read") /\ Change
           /\ UNCHANGED <<session, renewal, server, loginPage, ghost>>

\* Verifying an address or phone, accepting terms, saving the profile; deleting the account.
Act(kind) == /\ user # None /\ Begin("act", kind) /\ Change
             /\ UNCHANGED <<session, renewal, server, loginPage, ghost>>
Acted == /\ flow["act"].phase = "sent" /\ flow["act"].kind = "post"
         /\ flow' = [flow EXCEPT !["act"] = IF token = None THEN Idle ELSE Sent("read", token)]
         /\ UNCHANGED <<session, renewal, server, loginPage, ghost, bounds>>
Deleted == /\ flow["act"].phase = "sent" /\ flow["act"].kind = "delete"
           /\ LogsOut([flow EXCEPT !["act"] = Idle])
           /\ stored' = stored \ {flow["act"].sent}
           /\ UNCHANGED <<cookie, fromOther, loginPage, bounds>>

Read(f) == /\ flow[f].phase = "sent" /\ flow[f].kind = "read" /\ flow[f].sent # None
           /\ user' = flow[f].sent
           /\ loading' = (loading /\ f # "boot") /\ UNCHANGED token
           /\ flow' = [flow EXCEPT ![f] = Idle]
           /\ why' = why \cup Lateness(f)
           /\ UNCHANGED <<renewal, server, loginPage, out, bounds>>

\* bootstrap clears the token only, refresh() the user with it.
BootFails == /\ flow["boot"].phase = "failed"
             /\ token' = None /\ loading' = FALSE /\ UNCHANGED user
             /\ flow' = Overtaken([flow EXCEPT !["boot"] = Idle])
             /\ renewal' = OvertakenRenewal
             /\ why' = why \cup Lateness("boot") \cup (IF user # None THEN {"bootstrap"} ELSE {})
             /\ UNCHANGED <<server, loginPage, out, bounds>>
ClearsTokenOnly(fl) == token' = None /\ user' = user /\ flow' = Overtaken(fl)
RefreshClears(fl) == Cleared(fl)
RefreshFails(f) == /\ flow[f].phase = "failed" /\ flow[f].kind = "read" /\ f # "boot"
                   /\ RefreshClears([flow EXCEPT ![f] = Idle]) /\ UNCHANGED loading
                   /\ renewal' = OvertakenRenewal
                   /\ why' = why \cup Lateness(f)
                   /\ UNCHANGED <<server, loginPage, out, bounds>>

\* Any other call that throws shows a message.
CallFails(f) == /\ flow[f].phase = "failed" /\ flow[f].kind # "read"
                /\ flow' = [flow EXCEPT ![f] = Idle]
                /\ IF f \in Quick THEN Released(f) ELSE UNCHANGED loginPage
                /\ UNCHANGED <<session, renewal, server, ghost, bounds>>

\* Another tab of the browser signs in, perhaps with another account.
OtherTabSignsIn(a) == /\ SameOrigin /\ Change
                      /\ cookie' = a /\ stored' = stored \cup {a} /\ fromOther' = TRUE
                      /\ UNCHANGED <<session, flow, renewal, leaving, loginPage, ghost>>

Next == \/ Login \/ Logout \/ RevokedCookie \/ Visit \/ Leave \/ Render \/ Reload \/ Refresh
        \/ Renewed \/ NotRenewed \/ Acted \/ Deleted \/ BootFails
        \/ \E a \in Account : LoggedIn(a) \/ OtherTabSignsIn(a)
        \/ \E q \in Quick : QuickLogin(q) \/ QuickEnds(q) \/ (\E a \in Account : QuickCompletes(q, a))
        \/ \E kind \in {"post", "delete"} : Act(kind)
        \/ \E f \in Flows : Lost(f) \/ Refused(f) \/ Read(f) \/ RefreshFails(f) \/ CallFails(f)

Spec == Init /\ [][Next]_vars

-----------------------------------------------------------------------------
TypeOK == /\ {token, user, cookie, leaving} \subseteq Account \cup {None}
          /\ renewal \in Renewal \cup {None}
          /\ loading \in BOOLEAN /\ visiting \in BOOLEAN
          /\ \A f \in Flows : flow[f].phase \in {"idle", "sent", "renewing", "failed"}
          /\ Waiting # {} => renewal # None

(* The tab shows the account its token belongs to.  It may differ only while   *)
(* the bootstrap is reading it, or after an answer that came when the session  *)
(* had changed, a renewal with the cookie of another tab, or a bootstrap that  *)
(* failed beside a refresh() that did not.  Nothing else tears them apart, and *)
(* signing in or out always joins them again (auth.tsx).                       *)
SessionExplained == user = token \/ (user = None /\ flow["boot"].phase # "idle") \/ why # {}

(* After signing out the tab stays signed out, whatever the unanswered POST    *)
(* /logout leaves in the cookie, unless a call begun before is answered late:  *)
(* a quick login still polling, or a renewal (auth.tsx:73-78, api.ts:96-117).  *)
LogoutHolds == out => (user = None /\ token = None) \/ "late" \in why

(* One visit to the login page never runs two quick logins, even if it is  *)
(* clicked twice before it is rendered again (login/page.tsx:51-57).       *)
OneLoopAVisit == Cardinality({q \in Quick : flow[q].phase # "idle" /\ flow[q].kind = "here"}) <= 1
=============================================================================
