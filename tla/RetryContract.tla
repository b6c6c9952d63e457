---------------------------- MODULE RetryContract ----------------------------
(***************************************************************************)
(* The retry contract between a browser tab and the server: api() of       *)
(* src/client/src/lib/api.ts, which repeats a POST or PATCH under one      *)
(* X-Idempotency-Key, and idempotencyGuard of                              *)
(* src/server/src/middleware/idempotency.ts, which replays what it         *)
(* remembers.  Several calls of one tab run at once and share its token.   *)
(*                                                                         *)
(* An attempt that the client has given up stays on the wire or in its     *)
(* handler: the server does not notice.  A handler is abstracted to one    *)
(* effect (its commit) and its answer, which another await separates.      *)
(***************************************************************************)
EXTENDS Naturals, Sequences, FiniteSets

CONSTANTS
    Call,        \* api() calls with a key, each made once
    Ip,          \* addresses the device may have, as clientIp reports them
    MaxRetries,  \* MAX_RETRIES of the client
    MaxEntries,  \* MAX_ENTRIES of the server
    MaxTokens,   \* bound: refreshes of the access token
    MaxFaults    \* bound: crashes, changed addresses, failed handlers, old entries

ASSUME RetryAssumption == MaxRetries \in Nat
ASSUME EntriesAssumption == MaxEntries \in Nat \ {0, 1}
ASSUME RetryBoundsAssumption == MaxTokens \in Nat /\ MaxFaults \in Nat
ASSUME IpAssumption == Ip # {}

VARIABLES
    phase,      \* phase[c]: what api() is waiting for
    cookie,     \* calls of a route whose success sets or clears a cookie: /login, /register,
                \*   /telegram/quick/status, /upgrade, /logout, /me/delete
    attempt,    \* attempt[c]: the loop variable
    head,       \* head[c]: the status that has arrived, while its body has not
    refreshed,  \* refreshed[c]: the 401 retry was used
    token,      \* tokenStore, as the number of the token
    expired,    \* tokens past their 15 minutes
    ip,         \* the device's address
    wire,       \* attempts sent and not yet at the server
    running,    \* attempts whose handler is executing, with its progress
    answers,    \* answers on their way back
    cache,      \* the server's Map, oldest key first
    old,        \* keys of the cache past their 24 hours
    effects,    \* history: commits per call
    excuses,    \* history: per call, events after which a repeat may execute
    faults

client == <<phase, cookie, attempt, head, refreshed, token, expired, ip>>
server == <<running, cache, old>>
vars   == <<client, wire, server, answers, effects, excuses, faults>>

Phase == {"idle", "ready", "waiting", "reading", "stalled", "refresh", "ok", "error"}
Status == {200, 401, 500}

Key == Call \X (0 .. MaxRetries)
Scope == [ip : Ip, token : 0 .. MaxTokens, key : Key]
Attempt == [call : Call, n : 0 .. MaxRetries, scope : Scope]
Answer == [call : Call, n : 0 .. MaxRetries, status : Status]

TypeOK ==
    /\ phase \in [Call -> Phase]
    /\ cookie \subseteq Call /\ attempt \in [Call -> 0 .. MaxRetries]
    /\ head \in [Call -> Status \cup {0}]
    /\ refreshed \in [Call -> BOOLEAN]
    /\ token \in 0 .. MaxTokens /\ expired \subseteq 0 .. MaxTokens /\ ip \in Ip
    /\ wire \subseteq Attempt
    /\ running \subseteq [at : Attempt, committed : BOOLEAN]
    /\ answers \subseteq Answer
    /\ cache \in Seq(Scope) /\ Len(cache) <= MaxEntries
    /\ old \subseteq Scope
    /\ effects \in [Call -> Nat] /\ excuses \in [Call -> Nat] /\ faults \in 0 .. MaxFaults

Init ==
    /\ phase = [c \in Call |-> "idle"]
    /\ cookie = {} /\ attempt = [c \in Call |-> 0]
    /\ head = [c \in Call |-> 0]
    /\ refreshed = [c \in Call |-> FALSE]
    /\ token = 0 /\ expired = {} /\ ip \in Ip
    /\ wire = {} /\ running = {} /\ answers = {}
    /\ cache = <<>> /\ old = {}
    /\ effects = [c \in Call |-> 0] /\ excuses = [c \in Call |-> 0] /\ faults = 0

Fault == faults < MaxFaults /\ faults' = faults + 1

-----------------------------------------------------------------------------
\* The client

Start(c) ==
    /\ phase[c] = "idle"
    /\ phase' = [phase EXCEPT ![c] = "ready"]
    /\ cookie' \in {cookie, cookie \cup {c}}
    /\ UNCHANGED <<attempt, head, refreshed, token, expired, ip, wire, server, answers, effects,
                   excuses, faults>>

\* Mutant of KeyOf: the key is generated inside the loop.
KeyPerAttempt(c, n) == <<c, n>>

\* newIdempotencyKey(), once per call.
KeyOf(c, n) == <<c, 0>>

\* Mutant of ScopeOf: the cache is keyed by the caller alone.
ScopeOfCaller(c, n) == [ip |-> ip, token |-> token, key |-> <<CHOOSE x \in Call : TRUE, 0>>]

\* scopeFor: the address, the Authorization header and the key.
ScopeOf(c, n) == [ip |-> ip, token |-> token, key |-> KeyOf(c, n)]

\* fetch.
Send(c) ==
    /\ phase[c] = "ready"
    /\ wire' = wire \cup
          {[call |-> c, n |-> attempt[c], scope |-> ScopeOf(c, attempt[c])]}
    /\ phase' = [phase EXCEPT ![c] = "waiting"]
    /\ UNCHANGED <<cookie, attempt, head, refreshed, token, expired, ip, server, answers, effects,
                   excuses, faults>>

\* Mutant of HasMore: one attempt more than the loop has.
HasOneTooMany(c) == attempt[c] <= MaxRetries

\* attempt <= MAX_RETRIES, after the increment.
HasMore(c) == attempt[c] < MaxRetries

\* Mutant of Continue: the retries do not count as attempts.
ContinueForFree(calls) ==
    /\ phase' = [c \in Call |-> IF c \in calls THEN "ready" ELSE phase[c]]
    /\ UNCHANGED attempt

\* `continue`: the next attempt, or the end of the loop.
Continue(calls) ==
    /\ phase' = [c \in Call |->
          IF c \notin calls THEN phase[c] ELSE IF HasMore(c) THEN "ready" ELSE "error"]
    /\ attempt' = [c \in Call |-> attempt[c] + IF c \in calls /\ HasMore(c) THEN 1 ELSE 0]

\* The fetch is aborted after 15 seconds, or the network fails it, before the headers.
GiveUp(c) ==
    /\ phase[c] = "waiting"
    /\ Continue({c})
    /\ UNCHANGED <<cookie, head, refreshed, token, expired, ip, wire, server, answers, effects,
                   excuses, faults>>

\* The headers of the attempt the call is waiting for; others have no listener.  The timer
\* is cleared.
Receive(c) == \E a \in answers :
    /\ a.call = c /\ a.n = attempt[c] /\ phase[c] = "waiting"
    /\ answers' = answers \ {a}
    /\ phase' = [phase EXCEPT ![c] = "reading"]
    /\ head' = [head EXCEPT ![c] = a.status]
    /\ UNCHANGED <<cookie, attempt, refreshed, token, expired, ip, wire, server, effects,
                   excuses, faults>>

\* res.json() resolves, or fails and is caught.  The first 401 leads to a refresh.
Read(c) ==
    /\ phase[c] = "reading"
    /\ LET again == head[c] = 401 /\ ~refreshed[c]
       IN  /\ phase' = [phase EXCEPT ![c] =
                 IF again THEN "refresh" ELSE IF head[c] = 200 THEN "ok" ELSE "error"]
           /\ refreshed' = [refreshed EXCEPT ![c] = @ \/ again]
    /\ head' = [head EXCEPT ![c] = 0]
    /\ UNCHANGED <<cookie, attempt, token, expired, ip, wire, server, answers, effects, excuses,
                   faults>>

\* The body stops arriving, and may go on later.
Stall(c) ==
    /\ \/ phase[c] = "reading" /\ phase' = [phase EXCEPT ![c] = "stalled"]
       \/ phase[c] = "stalled" /\ phase' = [phase EXCEPT ![c] = "reading"]
    /\ UNCHANGED <<cookie, attempt, head, refreshed, token, expired, ip, wire, server, answers,
                   effects, excuses, faults>>

\* tryRefreshToken: the calls waiting for it share one promise, and a token in the
\* store that is still good is replaced all the same.
Refresh ==
    LET waiting == {c \in Call : phase[c] = "refresh"}
    IN  /\ waiting # {}
        /\ \/ token < MaxTokens /\ token' = token + 1 /\ Continue(waiting)
           \/ /\ phase' = [c \in Call |-> IF c \in waiting THEN "error" ELSE phase[c]]
              /\ UNCHANGED <<token, attempt>>
        /\ UNCHANGED <<cookie, head, refreshed, expired, ip, wire, server, answers, effects,
                       excuses, faults>>

-----------------------------------------------------------------------------
\* The server

SeqSet(seq) == {seq[i] : i \in 1 .. Len(seq)}

Known == SeqSet(cache)

\* Attempts of one call that are in a handler.
InHandler(c) == {x \in running : x.at.call = c}

\* A remembered outcome that is not past its time.
Hit(s) == s \in Known \ old

\* The same call is in a handler, or remembered, under another token or address.
Moved(m) == \E t \in 0 .. token, i \in Ip :
    /\ t # m.scope.token \/ i # m.scope.ip
    /\ \/ \E x \in running : x.at.call = m.call /\ x.at.scope.token = t /\ x.at.scope.ip = i
       \/ [ip |-> i, token |-> t, key |-> m.scope.key] \in Known

\* idempotencyGuard, which runs before authentication: replay, or let through.
Replay == \E m \in wire :
    /\ Hit(m.scope)
    /\ wire' = wire \ {m}
    /\ answers' = answers \cup {[call |-> m.call, n |-> m.n, status |-> 200]}
    /\ UNCHANGED <<client, server, effects, excuses, faults>>

\* What is left of a Map's keys, in their order: Map.delete of those outside kept.  (The
\* selection of Sequences, written with the rank of each position.)
Kept(keys, kept) ==
    LET at == {i \in DOMAIN keys : keys[i] \in kept}
        upTo(i) == {j \in at : j <= i}
    IN  [k \in 1 .. Cardinality(at) |-> keys[CHOOSE i \in at : Cardinality(upTo(i)) = k]]

Forget(s) == /\ cache' = Kept(cache, Known \ {s})
             /\ old' = old \ {s}

\* The token is verified in the same turn of the event loop.
Unauthorised == \E m \in wire :
    /\ ~Hit(m.scope)
    /\ m.scope.token \in expired
    /\ wire' = wire \ {m}
    /\ Forget(m.scope)
    /\ answers' = answers \cup {[call |-> m.call, n |-> m.n, status |-> 401]}
    /\ UNCHANGED <<client, running, effects, excuses, faults>>

Handle == \E m \in wire :
    /\ ~Hit(m.scope)
    /\ m.scope.token \notin expired
    /\ wire' = wire \ {m}
    /\ Forget(m.scope)
    /\ running' = running \cup {[at |-> m, committed |-> FALSE]}
    /\ excuses' = [excuses EXCEPT ![m.call] =
          @ + IF InHandler(m.call) # {} \/ Moved(m) THEN 1 ELSE 0]
    /\ UNCHANGED <<client, answers, effects, faults>>

Commit == \E x \in running :
    /\ ~x.committed
    /\ running' = (running \ {x}) \cup {[x EXCEPT !.committed = TRUE]}
    /\ effects' = [effects EXCEPT ![x.at.call] = @ + 1]
    /\ UNCHANGED <<client, wire, cache, old, answers, excuses, faults>>

\* Mutant of Room: `cache.size > MAX_ENTRIES`.
RoomForOneMore == MaxEntries

\* sweep deletes from the oldest key while size >= MAX_ENTRIES.
Room == MaxEntries - 1

\* cache.set and sweep: a key that is there keeps its place in the Map.
Remembered(s) ==
    LET written == IF s \in Known THEN cache ELSE Append(cache, s)
        young   == Kept(written, (SeqSet(written) \ old) \cup {s})
        surplus == IF Len(young) > Room THEN Len(young) - Room ELSE 0
    IN  SubSeq(young, surplus + 1, Len(young))

\* Calls that lose their last remembered outcome when the cache shrinks.
Forgotten(before, after) ==
    {c \in Call : \E s \in before \ after : s.key[1] = c}

\* res.json with a 2xx and no Set-Cookie.
Succeed == \E x \in running :
    /\ x.committed /\ x.at.call \notin cookie
    /\ running' = running \ {x}
    /\ cache' = Remembered(x.at.scope)
    /\ old' = (old \cap SeqSet(Remembered(x.at.scope))) \ {x.at.scope}
    /\ excuses' = [c \in Call |-> excuses[c] +
          IF c \in Forgotten(Known \cup {x.at.scope}, SeqSet(Remembered(x.at.scope)))
          THEN 1 ELSE 0]
    /\ answers' = answers \cup {[call |-> x.at.call, n |-> x.at.n, status |-> 200]}
    /\ UNCHANGED <<client, wire, effects, faults>>

\* res.json with a 2xx and a Set-Cookie, which is not remembered.
SucceedWithCookie == \E x \in running :
    /\ x.committed /\ x.at.call \in cookie
    /\ running' = running \ {x}
    /\ excuses' = [excuses EXCEPT ![x.at.call] = @ + 1]
    /\ answers' = answers \cup {[call |-> x.at.call, n |-> x.at.n, status |-> 200]}
    /\ UNCHANGED <<client, wire, cache, old, effects, faults>>

\* The handler answers with an error, before its commit or after it.
Fail == \E x \in running :
    /\ Fault
    /\ running' = running \ {x}
    /\ excuses' = [excuses EXCEPT ![x.at.call] = @ + IF x.committed THEN 1 ELSE 0]
    /\ answers' = answers \cup {[call |-> x.at.call, n |-> x.at.n, status |-> 500]}
    /\ UNCHANGED <<client, wire, cache, old, effects>>

-----------------------------------------------------------------------------
\* The world

\* A request never arrives, or an answer is lost or comes too late.
Lose ==
    \/ \E m \in wire : wire' = wire \ {m} /\ UNCHANGED answers
    \/ \E a \in answers : answers' = answers \ {a} /\ UNCHANGED wire

Lost == Lose /\ UNCHANGED <<client, server, effects, excuses, faults>>

TokenExpires ==
    /\ \E t \in (0 .. token) \ expired : expired' = expired \cup {t}
    /\ UNCHANGED <<phase, cookie, attempt, head, refreshed, token, ip, wire, server, answers,
                   effects, excuses, faults>>

AddressChanges ==
    /\ Fault
    /\ ip' \in Ip \ {ip}
    /\ UNCHANGED <<phase, cookie, attempt, head, refreshed, token, expired, wire, server,
                   answers, effects, excuses>>

\* 24 hours pass for an entry (a laptop asleep between two attempts).
EntryAges == \E s \in Known \ old :
    /\ Fault
    /\ old' = old \cup {s}
    /\ excuses' = [excuses EXCEPT ![s.key[1]] = @ + 1]
    /\ UNCHANGED <<client, wire, running, cache, answers, effects>>

\* The process restarts: handlers and the cache are gone.
Crash ==
    /\ Fault
    /\ excuses' = [c \in Call |-> excuses[c] +
          Cardinality({x \in InHandler(c) : x.committed})
          + IF \E s \in Known : s.key[1] = c THEN 1 ELSE 0]
    /\ running' = {} /\ cache' = <<>> /\ old' = {}
    /\ UNCHANGED <<client, wire, answers, effects>>

-----------------------------------------------------------------------------
Client(c) == Send(c) \/ GiveUp(c) \/ Receive(c) \/ Read(c)

Next ==
    \/ \E c \in Call : Start(c) \/ Client(c) \/ Stall(c)
    \/ Refresh
    \/ Replay \/ Unauthorised \/ Handle \/ Commit \/ Succeed \/ SucceedWithCookie \/ Fail
    \/ Lost \/ TokenExpires \/ AddressChanges \/ EntryAges \/ Crash

Spec == Init /\ [][Next]_vars

\* A call moves on: fetch is aborted after 15 seconds, refreshing too, and a body that does
\* not stall is read.
Fairness == WF_vars(Refresh) /\ \A c \in Call : WF_vars(Client(c))

FairSpec == Spec /\ Fairness

-----------------------------------------------------------------------------
\* Properties

\* The handler of a keyed call executes once, plus once for every event that makes the
\* guard forget or not recognise the first execution: an attempt that arrives while
\* another is in its handler or under another token or address, an error answered
\* after the commit, a success with a cookie (which is not remembered), an evicted or
\* expired entry, a restart.
OnceUnlessExcused == \A c \in Call : effects[c] <= 1 + excuses[c]

\* When api() resolves, this call's own handler has committed: an answer replayed from
\* the cache never belongs to another call, whatever is lost or repeated.
SuccessMeansExecuted == \A c \in Call : phase[c] = "ok" => effects[c] >= 1

\* "a burst of one-shot keys cannot grow the heap without limit", and the outcome just
\* stored is not the one swept.
CacheBounded == Len(cache) < MaxEntries

\* The cache is bounded, and what it and the wire hold are outcomes and attempts of calls.
CacheSound == TypeOK /\ CacheBounded

\* Every api() call settles, whatever the network, the token and the server do, or comes to
\* the one wait that nothing bounds: a body that stops arriving after its headers.
CallSettles == \A c \in Call : phase[c] = "ready" ~> phase[c] \in {"ok", "error", "stalled"}

\* "this middleware replays the first successful outcome for any repeat of that key."
\* A claim the code does not keep (README, Disagreements).
OneExecution == \A c \in Call : effects[c] <= 1

=============================================================================
