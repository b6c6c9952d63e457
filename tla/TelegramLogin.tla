---------------------------- MODULE TelegramLogin ----------------------------
(***************************************************************************)
(* What the bot does to accounts (routes/telegram.ts) and what the browser *)
(* does meanwhile (routes/auth.ts): the one-tap login, in which a message  *)
(* /start quick_<id> confirms a session that the login page polls, and the *)
(* verification of a phone, in which a link, a shared contact and a code   *)
(* tie a Telegram chat to a profile.  Every statement is an action:        *)
(* updates of the bot, which Telegram may deliver twice, and requests of   *)
(* the browser, which the client may repeat, run between one another's     *)
(* statements.  A chat stands for the Telegram account and the phone       *)
(* number behind it.                                                       *)
(***************************************************************************)
EXTENDS FiniteSets, Naturals, Sequences

CONSTANTS
    Chat,        \* Telegram accounts
    Account,     \* rows of User
    Session,     \* rows of TelegramQuickSession
    Task,        \* updates of the bot and requests of browsers being handled at a time
    MaxCodes,    \* bound: codes sent
    MaxLinks,    \* bound: verification links issued
    MaxFaults,   \* bound: handlers that die half way
    Null

ASSUME TelegramAssumption ==
    /\ MaxCodes \in Nat /\ MaxLinks \in Nat /\ MaxFaults \in Nat
    /\ Null \notin Chat \cup Account \cup Session

VARIABLES
    row,       \* row[u]: the columns of User this is about
    session,   \* session[s]: status, userId
    late,      \* sessions whose expiresAt has passed
    task,      \* task[t]: the handler of an update or of a request
    codeOf,    \* the chat each code was sent to
    links, faults,
    logins,    \* history: how often each session paid out a token
    lost,      \* history: sessions won by a handler that failed afterwards
    proved,    \* history: the chat whose code each profile typed
    overtaken  \* history: rows written by a handler that had read an older verification

history == <<logins, lost, proved, overtaken>>
vars    == <<row, session, late, task, codeOf, links, faults, history>>

Row == [there  : BOOLEAN,               \* the row exists
        tg     : Chat \cup {Null},      \* telegramId, with phoneNumber
        quick  : BOOLEAN,               \* quickLogin
        phone  : BOOLEAN,               \* phoneVerified
        live   : BOOLEAN,               \* telegramVerifyToken, not expired
        chat   : Chat \cup {Null},      \* telegramVerifyChatId
        code   : 0..MaxCodes,           \* telegramVerifyCode, 0 for none or expired
        blocked: BOOLEAN]

NoRow == [there |-> FALSE, tg |-> Null, quick |-> FALSE, phone |-> FALSE, live |-> FALSE,
          chat |-> Null, code |-> 0, blocked |-> FALSE]

\* What a handler has read of a profile's verification.
Seen == [code : 0..MaxCodes, phone : BOOLEAN, blocked : BOOLEAN]
SeenOf(u) == [code |-> row[u].code, phone |-> row[u].phone, blocked |-> row[u].blocked]
Unseen == [code |-> 0, phone |-> FALSE, blocked |-> FALSE]

Bot  == {"claim", "find", "create", "attach", "note", "check", "link"}
Web  == {"user", "consume", "pay", "issue", "redeem", "erase"}
Job  == [pc : {"idle", "expire"} \cup Bot \cup Web, chat : Chat \cup {Null},
         on : Session \cup {Null}, user : Account \cup {Null}, saw : Seen]
Idle == [pc |-> "idle", chat |-> Null, on |-> Null, user |-> Null, saw |-> Unseen]

Codes == DOMAIN codeOf

TypeOK ==
    /\ row \in [Account -> Row]
    /\ session \in [Session -> [status : {"unused", "PENDING", "COMPLETE", "EXPIRED", "gone"},
                                user : Account \cup {Null}]]
    /\ late \subseteq Session
    /\ task \in [Task -> Job]
    /\ Codes \in {1..n : n \in 0..MaxCodes} /\ codeOf \in [Codes -> Chat]
    /\ links \in 0..MaxLinks /\ faults \in 0..MaxFaults
    /\ logins \in [Session -> 0..2]
    /\ lost \subseteq Session /\ overtaken \subseteq Account
    /\ proved \in [Account -> Chat \cup {Null}]

\* Some profiles have registered with an address; nobody has used the bot.
Init ==
    /\ \E made \in SUBSET Account : row = [u \in Account |-> [NoRow EXCEPT !.there = u \in made]]
    /\ session = [s \in Session |-> [status |-> "unused", user |-> Null]]
    /\ late = {}
    /\ task = [t \in Task |-> Idle]
    /\ codeOf = << >> /\ links = 0 /\ faults = 0
    /\ logins = [s \in Session |-> 0]
    /\ lost = {} /\ overtaken = {} /\ proved = [u \in Account |-> Null]

-----------------------------------------------------------------------------
\* The browser opens a session and time passes

\* POST /telegram/quick/session.
OpenSession(s) ==
    /\ session[s].status = "unused"
    /\ session' = [session EXCEPT ![s].status = "PENDING"]
    /\ UNCHANGED <<row, late, task, codeOf, links, faults, history>>

\* Ten minutes for a session.
SessionLapses(s) ==
    /\ session[s].status \in {"PENDING", "COMPLETE"} /\ s \notin late
    /\ late' = late \cup {s}
    /\ UNCHANGED <<row, session, task, codeOf, links, faults, history>>

\* Fifteen minutes for a link, five for a code.
LinkLapses(u) ==
    /\ row[u].live
    /\ row' = [row EXCEPT ![u].live = FALSE]
    /\ UNCHANGED <<session, late, task, codeOf, links, faults, history>>

CodeLapses(u) ==
    /\ row[u].code # 0
    /\ row' = [row EXCEPT ![u].code = 0]
    /\ UNCHANGED <<session, late, task, codeOf, links, faults, history>>

-----------------------------------------------------------------------------
\* The bot: /start quick_<id>

Start(t, job) == task[t].pc = "idle" /\ task' = [task EXCEPT ![t] = job]
Goto(t, pc)   == task' = [task EXCEPT ![t].pc = pc]
End(t)        == task' = [task EXCEPT ![t] = Idle]

\* handleQuickStart reads the session; a used, expired or unknown one is only answered.
QuickStart(t, s, c) ==
    /\ session[s].status = "PENDING"
    /\ Start(t, [Idle EXCEPT !.pc = IF s \in late THEN "expire" ELSE "claim",
                                  !.chat = c, !.on = s])
    /\ UNCHANGED <<row, session, late, codeOf, links, faults, history>>

\* The expiry is written unconditionally, by the bot or by a poll.
Expire(s) ==
    session' = IF session[s].status = "gone" THEN session
               ELSE [session EXCEPT ![s].status = "EXPIRED"]

Expires(t) ==
    /\ task[t].pc = "expire"
    /\ Expire(task[t].on) /\ End(t)
    /\ UNCHANGED <<row, late, codeOf, links, faults, history>>

\* Plausible bug: the claim is an unconditional update.
ClaimableAlways(s) == session[s].status # "gone"

\* updateMany where status PENDING.
Claimable(s) == session[s].status = "PENDING"

Claim(t) ==
    /\ task[t].pc = "claim"
    /\ LET s == task[t].on IN
       IF Claimable(s)
       THEN /\ session' = [session EXCEPT ![s].status = "COMPLETE"]
            /\ Goto(t, "find")
       ELSE UNCHANGED session /\ End(t)
    /\ UNCHANGED <<row, late, codeOf, links, faults, history>>

\* findUnique by telegramId.
Holders(c) == {u \in Account : row[u].there /\ row[u].tg = c}

FindUser(t) ==
    /\ task[t].pc = "find"
    /\ \/ \E u \in Holders(task[t].chat) :
             task' = [task EXCEPT ![t].pc = "attach", ![t].user = u]
       \/ Holders(task[t].chat) = {} /\ Goto(t, "create")
    /\ UNCHANGED <<row, session, late, codeOf, links, faults, history>>

\* A first contact creates a profile that may only like; the unique index on telegramId
\* refuses a second one, and the handler ends there, the session already COMPLETE.
CreateUser(t) ==
    /\ task[t].pc = "create"
    /\ IF Holders(task[t].chat) = {}
       THEN /\ \E u \in Account :
                 /\ ~row[u].there
                 /\ row' = [row EXCEPT ![u] = [NoRow EXCEPT !.there = TRUE, !.quick = TRUE,
                                                            !.tg = task[t].chat]]
                 /\ task' = [task EXCEPT ![t].pc = "attach", ![t].user = u]
            /\ UNCHANGED lost
       ELSE /\ lost' = lost \cup {task[t].on}
            /\ End(t) /\ UNCHANGED row
    /\ UNCHANGED <<session, late, codeOf, links, faults, logins, proved, overtaken>>

\* Plausible bug: the account is only attached to a session that is still pending.
AttachedIfPending(s, u) == IF session[s].status = "PENDING" THEN u ELSE session[s].user

\* Plausible bug: the session is given the id of Telegram, not that of the profile.
AttachedChat(s, u) == row[u].tg

\* The second update names the account, whatever became of the session's status.
Attached(s, u) == IF session[s].status = "gone" THEN Null ELSE u

Attach(t) ==
    /\ task[t].pc = "attach"
    /\ LET s == task[t].on IN session' = [session EXCEPT ![s].user = Attached(s, task[t].user)]
    /\ End(t)
    /\ UNCHANGED <<row, late, codeOf, links, faults, history>>

-----------------------------------------------------------------------------
\* The bot: /start verify_<token> and the shared contact

\* The handler wrote to a profile that was verified, erased or given another code in between.
Overtake(u, saw) ==
    overtaken' = IF row[u].there /\ saw # SeenOf(u) THEN overtaken \cup {u} ELSE overtaken

\* handleStart finds the profile of the link.
VerifyStart(t, u, c) ==
    /\ row[u].live
    /\ Start(t, [Idle EXCEPT !.pc = "note", !.chat = c, !.user = u, !.saw = SeenOf(u)])
    /\ UNCHANGED <<row, session, late, codeOf, links, faults, history>>

\* ... and remembers the chat that opened it.
NoteChat(t) ==
    /\ task[t].pc = "note"
    /\ LET u == task[t].user IN
       /\ row' = [row EXCEPT ![u].chat = task[t].chat]
       /\ Overtake(u, task[t].saw)
    /\ End(t)
    /\ UNCHANGED <<session, late, codeOf, links, faults, logins, lost, proved>>

\* handleContact finds a profile that waits for this chat.
Contact(t, u, c) ==
    /\ row[u].chat = c /\ row[u].live
    /\ Start(t, [Idle EXCEPT !.pc = "check", !.chat = c, !.user = u, !.saw = SeenOf(u)])
    /\ UNCHANGED <<row, session, late, codeOf, links, faults, history>>

\* One Telegram account is linked to one profile only.
CheckLinked(t) ==
    /\ task[t].pc = "check"
    /\ IF Holders(task[t].chat) \subseteq {task[t].user} THEN Goto(t, "link") ELSE End(t)
    /\ UNCHANGED <<row, session, late, codeOf, links, faults, history>>

\* Link and code are one update (refused when another profile took the chat meanwhile);
\* the code goes to the chat.
LinkChat(t) ==
    /\ task[t].pc = "link"
    /\ LET u == task[t].user  c == task[t].chat  k == Len(codeOf) + 1 IN
       IF Holders(c) \subseteq {u}
       THEN /\ k <= MaxCodes
            /\ row' = [row EXCEPT ![u].tg = c, ![u].code = k, ![u].chat = Null]
            /\ codeOf' = Append(codeOf, c)
            /\ Overtake(u, task[t].saw)
       ELSE UNCHANGED <<row, codeOf, overtaken>>
    /\ End(t)
    /\ UNCHANGED <<session, late, links, faults, logins, lost, proved>>

-----------------------------------------------------------------------------
\* The browser

MayAsk(u) == row[u].there /\ ~row[u].blocked

\* POST /telegram/quick/status: a session that waits, or has no account yet, is PENDING.
Poll(t, s) ==
    /\ session[s].status \in {"PENDING", "COMPLETE"}
    /\ \/ s \in late /\ Start(t, [Idle EXCEPT !.pc = "expire", !.on = s])
       \/ /\ s \notin late /\ session[s].status = "COMPLETE" /\ session[s].user # Null
          /\ Start(t, [Idle EXCEPT !.pc = "user", !.on = s, !.user = session[s].user])
    /\ UNCHANGED <<row, session, late, codeOf, links, faults, history>>

ReadUser(t) ==
    /\ task[t].pc = "user"
    /\ IF MayAsk(task[t].user) THEN Goto(t, "consume") ELSE End(t)
    /\ UNCHANGED <<row, session, late, codeOf, links, faults, history>>

\* Plausible bug: the count of the delete is not looked at.
ConsumedAnyway(s) == TRUE

\* deleteMany and its count.
Consumed(s) == session[s].status # "gone"

Consume(t) ==
    /\ task[t].pc = "consume"
    /\ LET s == task[t].on IN
       /\ session' = [session EXCEPT ![s].status = "gone", ![s].user = Null]
       /\ IF Consumed(s) THEN Goto(t, "pay") ELSE End(t)
    /\ UNCHANGED <<row, late, codeOf, links, faults, history>>

\* Cookie, token and the profile as it was read.
Pay(t) ==
    /\ task[t].pc = "pay" /\ logins[task[t].on] < 2
    /\ logins' = [logins EXCEPT ![task[t].on] = @ + 1]
    /\ End(t)
    /\ UNCHANGED <<row, session, late, codeOf, links, faults, lost, proved, overtaken>>

\* POST /telegram/session, for a profile whose phone is not verified.
AskLink(t, u) ==
    /\ MayAsk(u) /\ ~row[u].phone
    /\ Start(t, [Idle EXCEPT !.pc = "issue", !.user = u, !.saw = SeenOf(u)])
    /\ UNCHANGED <<row, session, late, codeOf, links, faults, history>>

\* A new link takes the place of the old one, its chat and its code.
IssueLink(t) ==
    /\ task[t].pc = "issue" /\ links < MaxLinks
    /\ LET u == task[t].user IN
       /\ row' = [row EXCEPT ![u].live = TRUE, ![u].chat = Null, ![u].code = 0]
       /\ Overtake(u, task[t].saw)
    /\ links' = links + 1 /\ End(t)
    /\ UNCHANGED <<session, late, codeOf, faults, logins, lost, proved>>

\* The digest of the code typed is the one stored, and in time.
CodeMatches(u, k) == row[u].code = k

\* POST /telegram/verify compares with the row that requireAuth has read ...
TypeCode(t, u, k) ==
    /\ MayAsk(u) /\ CodeMatches(u, k)
    /\ Start(t, [Idle EXCEPT !.pc = "redeem", !.user = u,
                              !.saw = [SeenOf(u) EXCEPT !.code = k]])
    /\ UNCHANGED <<row, session, late, codeOf, links, faults, history>>

\* Plausible bug: the link of a verified profile stays open.
RedeemedLinkOpen(r) == [r EXCEPT !.phone = TRUE, !.code = 0]

\* What verification makes of a profile.
Redeemed(r) == [r EXCEPT !.phone = TRUE, !.live = FALSE, !.chat = Null, !.code = 0]

\* ... and verifies the profile as it is by then.
Redeem(t) ==
    /\ task[t].pc = "redeem"
    /\ LET u == task[t].user  k == task[t].saw.code IN
       /\ row' = [row EXCEPT ![u] = Redeemed(@)]
       /\ proved' = [proved EXCEPT ![u] = codeOf[k]]
       /\ overtaken' = IF row[u].code = k THEN overtaken ELSE overtaken \cup {u}
    /\ End(t)
    /\ UNCHANGED <<session, late, codeOf, links, faults, logins, lost>>

\* POST /me/delete, which requireAuth lets through for a profile not erased yet.
AskErase(t, u) ==
    /\ MayAsk(u)
    /\ Start(t, [Idle EXCEPT !.pc = "erase", !.user = u])
    /\ UNCHANGED <<row, session, late, codeOf, links, faults, history>>

\* Plausible bug: the erasure keeps the open verification.
ErasedKeepsLink(r) == [r EXCEPT !.tg = Null, !.quick = FALSE, !.phone = FALSE, !.blocked = TRUE]

\* The columns an erasure clears; the row is blocked for good.
Erased(r) == [NoRow EXCEPT !.there = TRUE, !.blocked = TRUE]

\* The first erasure ends what a handler had brought into the profile; a second one, asked
\* for before the first was made, does not: such a handler may still be on its way.
Erase(t) ==
    /\ task[t].pc = "erase"
    /\ LET u == task[t].user IN
       /\ row' = [row EXCEPT ![u] = Erased(@)]
       /\ proved' = [proved EXCEPT ![u] = Null]
       /\ overtaken' = IF row[u].blocked THEN overtaken ELSE overtaken \ {u}
    /\ End(t)
    /\ UNCHANGED <<session, late, codeOf, links, faults, logins, lost>>

\* A handler that has won a session dies: a failed statement, or the process.  The webhook
\* still answers 200, so Telegram does not deliver the update again.  (Any other handler
\* that dies is one that takes no further step.)
Fail(t) ==
    /\ task[t].pc \in {"find", "create", "attach"} /\ faults < MaxFaults
    /\ faults' = faults + 1 /\ lost' = lost \cup {task[t].on}
    /\ End(t)
    /\ UNCHANGED <<row, session, late, codeOf, links, logins, proved, overtaken>>

-----------------------------------------------------------------------------
Steps(t) ==
    \/ Expires(t) \/ Claim(t) \/ FindUser(t) \/ CreateUser(t) \/ Attach(t)
    \/ NoteChat(t) \/ CheckLinked(t) \/ LinkChat(t)
    \/ ReadUser(t) \/ Consume(t) \/ Pay(t) \/ IssueLink(t) \/ Redeem(t) \/ Erase(t)
    \/ Fail(t)

Next ==
    \/ \E s \in Session : OpenSession(s) \/ SessionLapses(s)
    \/ \E u \in Account : LinkLapses(u) \/ CodeLapses(u)
    \/ \E t \in Task :
         \/ \E s \in Session : Poll(t, s) \/ \E c \in Chat : QuickStart(t, s, c)
         \/ \E u \in Account, c \in Chat : VerifyStart(t, u, c) \/ Contact(t, u, c)
         \/ \E u \in Account : AskLink(t, u) \/ AskErase(t, u) \/ \E k \in Codes : TypeCode(t, u, k)
         \/ Steps(t)

Spec == Init /\ [][Next]_vars

-----------------------------------------------------------------------------
(* What a login and a verification promise *)

\* A session pays out one token, however many polls race for it (deleteMany and its count).
OneTokenPerSession == \A s \in Session : logins[s] <= 1

Serving(t, s) == task[t].on = s /\ task[t].pc \in {"find", "create", "attach"}

\* A session that was won and names no account is being served, unless its handler failed
\* or lost the race for the account: nothing else leaves a browser polling in vain.
StuckExplained ==
    \A s \in Session :
        session[s].status = "COMPLETE" /\ session[s].user = Null =>
            s \in lost \/ \E t \in Task : Serving(t, s)

\* A verified phone is the one whose code its owner typed, unless a handler that had read
\* the profile before it was verified, or before its code changed, wrote to it afterwards.
PhoneProved ==
    \A u \in Account : row[u].phone => proved[u] = row[u].tg \/ u \in overtaken

\* An erased profile keeps no Telegram account and no way to get one, unless such a
\* handler brought it back.
ErasedStaysBare ==
    \A u \in Account : row[u].there /\ row[u].blocked =>
        u \in overtaken \/ (row[u].tg = Null /\ ~row[u].live /\ ~row[u].phone)

\* A session pays out one token, and one that was won is served or known to be lost
\* (POST /telegram/quick/status, the bot's /start).
LoginsExplained == TypeOK /\ OneTokenPerSession /\ StuckExplained

\* A verified phone is the one whose code its owner typed, and an erased profile gets no
\* Telegram account back, unless a handler had read the profile before
\* (routes/telegram.ts, routes/auth.ts).
ProfilesHold == PhoneProved /\ ErasedStaysBare

=============================================================================
