----------------------------- MODULE RateLimits -----------------------------
(***************************************************************************)
(* The limiters a request passes on its way to a handler: the fixed-window *)
(* counters configured in server/src/lib/rateLimit.ts and stacked by       *)
(* server/src/app.ts and the routers (the whole of /api, /api/auth, the    *)
(* public and the credential endpoints, the creation of quotes), and the   *)
(* limiter of the socket's admin:auth event (lib/socketRateLimit.ts).      *)
(*                                                                         *)
(* All of them count by client address; an address may be shared by an     *)
(* administrator and others.  Limits and windows are scaled down.          *)
(***************************************************************************)
EXTENDS Integers, Sequences, FiniteSets

CONSTANTS Address, None,
          Limit,      \* of each limiter: requests for a window
          Window,     \* of each limiter: length of its window in ticks
          MaxTime, MaxRequests

Layer == {"api", "auth", "authPublic", "authBrute", "quoteCreate", "adminAuth"}

LimitsAssumption ==
    /\ Limit \in [Layer -> Nat \ {0}] /\ Window \in [Layer -> Nat \ {0}]
    /\ MaxTime \in Nat \ {0} /\ MaxRequests \in Nat
    /\ None \notin Nat /\ None \notin [count : Nat, windowStart : Nat]

\* The limiters in front of a route, outermost first.
Chain == [login |-> <<"api", "auth", "authPublic", "authBrute">>,
          verify |-> <<"api", "auth", "authPublic">>,
          quote |-> <<"api", "quoteCreate">>,
          socket |-> <<"adminAuth">>]
Route == DOMAIN Chain

VARIABLES now,
          entry,      \* what a limiter remembers of an address: count and windowStart
          reached,    \* requests that a limiter counted and a handler got, up to each tick
          seen,       \* when an address last took a route behind a limiter, or None
          refused,    \* refusals: whether the address had been silent, the route, trusted
          requests

history == <<reached, seen, refused>>
vars == <<now, entry, history, requests>>

PerAddress(x) == [l \in Layer |-> [a \in Address |-> x]]

Init == /\ now = 1
        /\ entry = PerAddress(None)
        /\ reached = PerAddress([t \in 0..MaxTime |-> 0])
        /\ seen = PerAddress(None)
        /\ refused = {}
        /\ requests = 0

\* quoteSkip: administrators are not counted where they create quotes.
Exempt(l, trusted) == l = "quoteCreate" /\ trusted

\* allow: a new window starts with the first request after the old one has run out.
ExpiredLate(e, l) == e = None \/ now - e.windowStart > Window[l]
Expired(e, l) == e = None \/ now - e.windowStart >= Window[l]
FreshFromZero(e, l) == [count |-> 0, windowStart |-> now]
Opened(e, l) == [count |-> 1, windowStart |-> now]
Hit(e, l) == IF Expired(e, l) THEN Opened(e, l) ELSE [e EXCEPT !.count = @ + 1]
Allows(l, a) == Hit(entry[l][a], l).count <= Limit[l]

\* The limiters that count a request: those up to the first that turns it down.
Counting(a, r, trusted) ==
    {i \in DOMAIN Chain[r] : /\ ~Exempt(Chain[r][i], trusted)
                             /\ \A j \in 1..(i - 1) : Exempt(Chain[r][j], trusted) \/ Allows(Chain[r][j], a)}
Served(a, r, trusted) == \A i \in DOMAIN Chain[r] : Exempt(Chain[r][i], trusted) \/ Allows(Chain[r][i], a)

\* No request of the address in the windows of the limiters on the way.
Silent(a, r) == \A i \in DOMAIN Chain[r] :
                   LET l == Chain[r][i] IN seen[l][a] = None \/ now - seen[l][a] >= Window[l]

\* A request that gets through now is one more from now on.
OneMore(f) == [t \in 0..MaxTime |-> IF t < now THEN f[t] ELSE f[t] + 1]

Request(a, r, trusted) ==
    LET on == {Chain[r][i] : i \in DOMAIN Chain[r]}
        counting == {Chain[r][i] : i \in Counting(a, r, trusted)}
        served == Served(a, r, trusted) IN
    /\ requests < MaxRequests
    /\ entry' = [l \in Layer |-> IF l \in counting THEN [entry[l] EXCEPT ![a] = Hit(@, l)] ELSE entry[l]]
    /\ reached' = [l \in Layer |-> IF served /\ l \in counting
                                   THEN [reached[l] EXCEPT ![a] = OneMore(@)] ELSE reached[l]]
    /\ seen' = [l \in Layer |-> IF l \in on THEN [seen[l] EXCEPT ![a] = now] ELSE seen[l]]
    /\ refused' = IF served THEN refused
                  ELSE refused \cup {[silent |-> Silent(a, r), route |-> r, trusted |-> trusted]}
    /\ requests' = requests + 1
    /\ UNCHANGED now

Tick == /\ now < MaxTime
        /\ now' = now + 1
        /\ UNCHANGED <<entry, history, requests>>

\* Only the creation of quotes asks who is calling.
Next == \/ Tick
        \/ \E a \in Address, r \in Route : Request(a, r, FALSE)
        \/ \E a \in Address : Request(a, "quote", TRUE)

Spec == Init /\ [][Next]_vars

-----------------------------------------------------------------------------
Entry == [count : Nat \ {0}, windowStart : 1..now]

TypeOK == /\ now \in 1..MaxTime /\ requests \in 0..MaxRequests
          /\ entry \in [Layer -> [Address -> Entry \cup {None}]]
          /\ seen \in [Layer -> [Address -> 1..now \cup {None}]]
          /\ reached \in [Layer -> [Address -> [0..MaxTime -> Nat]]]

\* Requests behind a limiter that reached a handler in a span of its window.
InSpan(l, a, from) ==
    LET past == from + Window[l] - 1
        to == IF past < now THEN past ELSE now IN
    reached[l][a][to] - reached[l][a][from - 1]

\* Whatever route they take, the requests of an address that reach a handler
\* behind a limiter are at most twice its limit in any span as long as its
\* window: fixed windows let the end of one and the start of the next add up.
AtMostTwice == \A l \in Layer, a \in Address, from \in 1..now : InSpan(l, a, from) <= 2 * Limit[l]

\* An address is served when it has been silent for the windows of all limiters
\* on the way, however many of its requests were turned down before (and the
\* limits are not zero): refusals do not extend a window.
SilenceHeals == \A r \in refused : ~r.silent

\* "Minimal in-memory sliding-window rate limiter": no span as long as the window
\* sees more than the limit.  The code keeps fixed windows.
\* A claim the code does not keep (README, Disagreements).
SlidingWindow == \A a \in Address, from \in 1..now : InSpan("adminAuth", a, from) <= Limit.adminAuth

\* "quote creation is never throttled for them": the limiter of the whole of /api
\* counts administrators too.
\* A claim the code does not keep (README, Disagreements).
TrustedNeverThrottled == \A r \in refused : ~(r.trusted /\ r.route = "quote")
=============================================================================
