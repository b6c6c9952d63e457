----------------------------- MODULE MCLiveness ------------------------------
(***************************************************************************)
(* What must happen in the end: the side effects of a decision, the answer *)
(* of a call, the freshness of a cached read (whose module this one        *)
(* extends).  The three modules share no state; `part' says which one      *)
(* moves, the other two stay as they started, where their fair actions are *)
(* not enabled.                                                            *)
(***************************************************************************)
EXTENDS ReadCache, Sequences

CONSTANTS q1, r1, r2, noStamp, posted, c1, wifi, mobile, p1, t1, t2

VARIABLES part,
          \* QuoteModeration
          status, awaiting, archived, stamp, mode, goal, pc, seen, tries, posts, notices, flips,
          slips, faults,
          \* RetryContract
          phase, cookie, attempt, head, refreshed, token, expired, ip, wire, running, answers,
          cache, old, effects, excuses, failures

\* One quote, two deciders.
Moderation == INSTANCE QuoteModeration WITH
                Quote <- {q1}, Request <- {r1, r2}, CasAttempts <- 2, MaxFaults <- 1,
                NoStamp <- noStamp, Posted <- posted
\* One call, two networks, two retries, one fault.
Call == INSTANCE RetryContract WITH
          Call <- {c1}, Ip <- {wifi, mobile}, MaxRetries <- 2, MaxEntries <- 2, MaxTokens <- 1,
          MaxFaults <- 1, faults <- failures
\* One process, two requests at a time, a change, a restart.
OneProcess == {p1}
TwoTasks == {t1, t2}

moderation == <<status, awaiting, archived, stamp, mode, goal, pc, seen, tries, posts, notices,
                flips, slips, faults>>
call == <<phase, cookie, attempt, head, refreshed, token, expired, ip, wire, running, answers,
          cache, old, effects, excuses, failures>>
all == <<part, moderation, call, vars>>

LiveInit ==
    /\ part \in {"moderation", "call", "reads"}
    /\ Moderation!Init /\ Call!Init /\ Init
    /\ part # "call" => ip = wifi
    /\ part # "reads" => up[p1]

LiveNext ==
    \/ part = "moderation" /\ Moderation!Next /\ UNCHANGED <<part, call, vars>>
    \/ part = "call" /\ Call!Next /\ UNCHANGED <<part, moderation, vars>>
    \/ part = "reads" /\ Next /\ UNCHANGED <<part, moderation, call>>

\* The fairness of each module, for the part that moves.
LiveFairness ==
    /\ \A r \in {r1, r2} : WF_moderation(part = "moderation" /\ Moderation!Step(r, q1))
    /\ \A r \in {r1, r2} : WF_moderation(part = "moderation" /\ Moderation!BulkStep(r))
    /\ WF_call(part = "call" /\ Call!Refresh) /\ WF_call(part = "call" /\ Call!Client(c1))
    /\ \A t \in Task : WF_vars(part = "reads" /\ Steps(t))
    /\ \A k \in Key : /\ WF_vars(part = "reads" /\ RedisExpires(k))
                     /\ WF_vars(part = "reads" /\ MemExpires(p1, k))

LiveSpec == LiveInit /\ [][LiveNext]_all /\ LiveFairness

-----------------------------------------------------------------------------
\* Without faults whoever moved a quote finishes: the author is told, and a claim
\* ends stamped as posted or given back, never held for ever (quoteModeration.ts).
SideEffectsComplete == Moderation!SideEffectsComplete

\* Every api() call settles or waits for a body that stalls, whatever the network, the token
\* and the server do (api.ts).
CallSettles == Call!CallSettles
=============================================================================
