----------------------------- MODULE BotSettings -----------------------------
(***************************************************************************)
(* The settings row of the two Telegram bots (lib/telegramSettings.ts,     *)
(* routes/adminTelegram.ts, the panel's page admin/telegram): a copy of    *)
(* the row kept for five seconds, saves that compare a new token with that *)
(* copy, checks of a token (getMe) that write the status they found, the   *)
(* channel id learnt from the webhook, and the values of the environment   *)
(* put into empty columns when the server starts.  Everything is           *)
(* asynchronous: a handler reads the row, or its copy, some time before it *)
(* writes.                                                                 *)
(***************************************************************************)
EXTENDS FiniteSets, Naturals

CONSTANTS
    Page,         \* open pages of super admins
    Hook,         \* webhook calls and other senders being handled
    Token,        \* bot tokens
    EnvToken,     \* TELEGRAM_BOT_TOKEN
    MaxEvents,    \* bound: saves and restarts of the server
    Null

BotSettingsAssumption ==
    /\ EnvToken \in Token /\ Null \notin Token /\ MaxEvents \in Nat
    /\ Page \cap Hook = {} /\ (Page \cup Hook) \cap {"main", "approval"} = {}
    /\ Null \notin [token : [{"main", "approval"} -> Token \cup {Null}], channel : BOOLEAN]

VARIABLES
    seen,     \* the columns handlers act on: token[b] of each bot, channel (it has been captured)
    of,       \* of[b]: the token that the status, name and id of bot b were found for
    cache,    \* the copy, Null for none or expired
    late,     \* history: the copy was read before the latest change of the row
    job,      \* job[t]: what each page, webhook call and check at startup is doing
    events

vars == <<seen, of, cache, late, job, events>>

Bot == {"main", "approval"}

Tokens == [Bot -> Token \cup {Null}]
Copy   == [token : Tokens, channel : BOOLEAN]

Task  == Page \cup Hook \cup Bot       \* a check at startup runs for each bot
Idle  == [pc |-> "idle", kind |-> "other", then |-> "end", snap |-> Null,
          patch |-> [b \in Bot |-> Null], wrote |-> {}, todo |-> {}, quiet |-> FALSE]

TypeOK ==
    /\ seen \in Copy /\ of \in Tokens /\ cache \in Copy \cup {Null} /\ late \in BOOLEAN
    /\ events \in 0..MaxEvents
    /\ \A t \in Task :
         /\ job[t].pc \in {"idle", "get", "store", "save", "saved", "check", "marked", "capture",
                           "done"}
         /\ job[t].snap \in Copy \cup {Null}
         /\ job[t].todo \subseteq Bot /\ job[t].wrote \subseteq Bot

Init ==
    /\ seen = [token |-> [b \in Bot |-> IF b = "main" THEN EnvToken ELSE Null], channel |-> FALSE]
    /\ of = [b \in Bot |-> Null]
    /\ cache = Null /\ late = FALSE /\ job = [t \in Task |-> Idle]
    /\ events = 0

End(t)      == job' = [job EXCEPT ![t] = Idle]
Working(t)  == job[t].pc # "idle"

-----------------------------------------------------------------------------
\* getTelegramSettings

\* A handler goes on with the copy, or with the row once it has come.
Get(t) ==
    /\ job[t].pc = "get"
    /\ IF cache # Null
       THEN job' = [job EXCEPT ![t].pc = job[t].then,
                               ![t].snap = IF job[t].then = "done" THEN Null ELSE cache]
       ELSE job' = [job EXCEPT ![t].pc = "store", ![t].snap = seen]
    /\ UNCHANGED <<seen, of, cache, late, events>>

\* A save that has not invalidated yet will drop what is stored now.
Unsettled(t) == job[t].pc \in {"save", "saved"}

Store(t) ==
    /\ job[t].pc = "store"
    /\ cache' = job[t].snap /\ late' = (job[t].snap # seen)
    /\ LET next == IF job[t].then = "end" THEN Idle
                   ELSE [job[t] EXCEPT !.pc = job[t].then, !.snap = IF job[t].then = "done" THEN Null ELSE @]
           now  == [job EXCEPT ![t] = next]
       IN job' = IF job[t].snap.token = seen.token THEN now
                 ELSE [x \in Task |-> [now[x] EXCEPT !.quiet = @ /\ Unsettled(x)]]
    /\ UNCHANGED <<seen, of, events>>

Expire ==
    /\ cache # Null
    /\ cache' = Null /\ late' = FALSE
    /\ UNCHANGED <<seen, of, job, events>>

\* isAdminChat, a message that is sent, GET /settings: a read for its own sake.
Read(t) ==
    /\ cache = Null /\ ~Working(t)
    /\ job' = [job EXCEPT ![t] = [Idle EXCEPT !.pc = "store", !.snap = seen]]
    /\ UNCHANGED <<seen, of, cache, late, events>>

-----------------------------------------------------------------------------
\* PUT /settings

\* No other request of the panel, no check at startup, and a copy that is not older.
Alone(t) == /\ \A x \in (Page \cup Bot) \ {t} : ~Working(x)
            /\ cache # Null => cache.token = seen.token

Loud(jobs) == [x \in Task |-> [jobs[x] EXCEPT !.quiet = FALSE]]

Put(t, patch) ==
    /\ ~Working(t) /\ events < MaxEvents /\ events' = events + 1
    /\ job' = [Loud(job) EXCEPT ![t] =
                 [Idle EXCEPT !.pc = "get", !.kind = "put", !.then = "save", !.patch = patch,
                              !.quiet = Alone(t)]]
    /\ UNCHANGED <<seen, of, cache, late>>

\* Plausible bug: the approval bot's token is saved but does not count as a change.
ChangedMain(patch, old) == {b \in {"main"} : patch[b] # Null /\ patch[b] # old.token[b]}

\* A token that is given and differs from the one read; an empty one is left alone.
Changed(patch, old) == {b \in Bot : patch[b] # Null /\ patch[b] # old.token[b]}

Save(t) ==
    /\ job[t].pc = "save"
    /\ LET j == job[t]  set == {b \in Bot : j.patch[b] # Null /\ j.patch[b] # j.snap.token[b]} IN
       /\ seen' = [seen EXCEPT !.token = [b \in Bot |-> IF b \in set THEN j.patch[b] ELSE @[b]]]
       /\ job' = [job EXCEPT ![t].pc = "saved", ![t].snap = Null, ![t].wrote = set,
                                ![t].todo = Changed(j.patch, j.snap)]
    /\ UNCHANGED <<of, cache, late, events>>

\* The bots to check, one after the other, and then the answer.
Onward(j, todo) ==
    IF todo # {} THEN [j EXCEPT !.pc = "get", !.then = "check", !.todo = todo, !.snap = Null]
    ELSE [j EXCEPT !.pc = "get", !.then = "done", !.todo = {}, !.snap = Null]

\* Plausible bug: only saves drop the copy.
InvalidatedBySave(t) == IF job[t].pc = "saved" THEN Null ELSE cache

\* invalidateTelegramSettingsCache.
Invalidated(t) == Null

Saved(t) ==
    /\ job[t].pc = "saved"
    /\ cache' = Invalidated(t) /\ late' = (late /\ cache' # Null)
    /\ job' = [job EXCEPT ![t] = Onward(@, @.todo)]
    /\ UNCHANGED <<seen, of, events>>

-----------------------------------------------------------------------------
\* reinitBot and reinitApprovalBot

Current(t) == IF "main" \in job[t].todo THEN "main" ELSE "approval"

\* getMe with the token that was read, and setWebhook; good or bad, the status found is then
\* written whatever the token is by then.
Check(t) ==
    /\ job[t].pc = "check"
    /\ of' = [of EXCEPT ![Current(t)] = job[t].snap.token[Current(t)]]
    /\ job' = [job EXCEPT ![t].pc = "marked", ![t].snap = Null]
    /\ UNCHANGED <<seen, cache, late, events>>

Marked(t) ==
    /\ job[t].pc = "marked"
    /\ cache' = Invalidated(t) /\ late' = (late /\ cache' # Null)
    /\ IF t \in Page THEN job' = [job EXCEPT ![t] = Onward(@, @.todo \ {Current(t)})] ELSE End(t)
    /\ UNCHANGED <<seen, of, events>>

\* The page asks for the live status after every save (status?refresh=1), and on demand.
Refreshing(quiet) == [Idle EXCEPT !.pc = "get", !.kind = "refresh", !.then = "check",
                                  !.todo = Bot, !.quiet = quiet]

Refresh(t) ==
    /\ ~Working(t)
    /\ job' = [Loud(job) EXCEPT ![t] = Refreshing(Alone(t))]
    /\ UNCHANGED <<seen, of, cache, late, events>>

Answer(t) ==
    /\ job[t].pc = "done"
    /\ job' = IF job[t].kind = "put" THEN [Loud(job) EXCEPT ![t] = Refreshing(Alone(t))]
              ELSE [job EXCEPT ![t] = Idle]
    /\ UNCHANGED <<seen, of, cache, late, events>>

\* A failed statement ends a request with 500, what was written stays.
Fail(t) ==
    /\ job[t].pc \in {"save", "check"}
    /\ End(t)
    /\ UNCHANGED <<seen, of, cache, late, events>>

-----------------------------------------------------------------------------
\* captureChannelChatId and the start of the server

Learn(t) ==
    /\ ~Working(t)
    /\ job' = [job EXCEPT ![t] = [Idle EXCEPT !.pc = "get", !.then = "capture"]]
    /\ UNCHANGED <<seen, of, cache, late, events>>

Capture(t) ==
    /\ job[t].pc = "capture"
    /\ IF job[t].snap.channel THEN End(t) /\ UNCHANGED seen
       ELSE /\ seen' = [seen EXCEPT !.channel = TRUE]
            /\ job' = [job EXCEPT ![t].pc = "marked", ![t].snap = Null]
    /\ UNCHANGED <<of, cache, late, events>>

\* ensureTelegramSettings fills what is empty; the two checks start together.
Restart ==
    /\ events < MaxEvents /\ events' = events + 1
    /\ seen' = [seen EXCEPT !.token["main"] = IF @ = Null THEN EnvToken ELSE @]
    /\ cache' = Null /\ late' = FALSE
    /\ job' = [t \in Task |->
                 IF t \in Bot THEN [Idle EXCEPT !.pc = "get", !.then = "check", !.todo = {t}]
                 ELSE Idle]
    /\ UNCHANGED of

-----------------------------------------------------------------------------
Steps(t) == Get(t) \/ Store(t) \/ Save(t) \/ Saved(t) \/ Check(t) \/ Marked(t)
            \/ Answer(t) \/ Fail(t) \/ Capture(t)

Next ==
    \/ \E t \in Page : Refresh(t) \/ \E b \in Bot, k \in Token :
                                       Put(t, [x \in Bot |-> IF x = b THEN k ELSE Null])
    \/ \E t \in Hook : Read(t) \/ Learn(t)
    \/ \E t \in Task : Steps(t)
    \/ Expire
    \/ Restart

Spec == Init /\ [][Next]_vars

-----------------------------------------------------------------------------
(* What the settings promise *)

\* A save that no other request of the panel overlaps, and that no copy older than it
\* spoils, has taken effect when it answers: the row holds the token, and the status the
\* page shows was found for it.
QuietSaveTakes ==
    \A t \in Page : job[t].pc = "done" /\ job[t].kind = "put" /\ job[t].quiet =>
        \A b \in Bot : job[t].patch[b] # Null =>
            /\ seen.token[b] = job[t].patch[b]
            /\ b \in job[t].wrote => of[b] = job[t].patch[b]

\* The copy differs from the row only while a change is about to drop it, or because it was
\* read before a change and stored after it; five seconds later it is gone.
CopyExplained ==
    cache # Null /\ cache # seen => late \/ \E t \in Task : job[t].pc \in {"saved", "marked"}

=============================================================================
