------------------------------ MODULE Approvals ------------------------------
(***************************************************************************)
(* The posting right that a super admin gives a user - in the panel        *)
(* (routes/admin.ts), with the button of the approval bot                  *)
(* (routes/telegram.ts) or with its command (lib/adminCommands.ts) - the   *)
(* mail that tells the user, and what becomes of a mail: lib/email.ts      *)
(* sends it through the provider with eight seconds of patience and writes *)
(* one EmailLog row afterwards, and routes/resendWebhook.ts moves that row *)
(* with the events the provider posts, which may come early, late, twice   *)
(* or in another order.                                                    *)
(***************************************************************************)
EXTENDS FiniteSets, Naturals

CONSTANTS
    User,
    Request,    \* requests and webhook calls of admins being handled
    Mail,       \* mails whose fate is followed; any other is only counted
    Hook,       \* webhook calls of the provider being handled
    MaxGrants,  \* bound: approvals asked for
    MaxAgain,   \* bound: events the provider posts again
    Null

ApprovalsAssumption ==
    /\ MaxGrants \in Nat /\ MaxAgain \in Nat
    /\ Null \notin User \cup Mail \cup {"SENT", "DELIVERED", "BOUNCED", "FAILED"}

VARIABLES
    right,     \* right[u]: isSuperApproved
    gone,      \* users in the trash (deletedAt)
    job,       \* job[r]: the handler of an approval
    mail,      \* mail[m]: what the process that sends m is doing
    log,       \* log[m]: the status of its EmailLog row, Null for no row that has its id
    fate,      \* fate[m]: what happens to a mail the provider has accepted, {} before
    event,     \* event[m]: the events the provider has still to post
    hook,      \* hook[h]: the handler of an event
    grants, again,
    told,      \* history: told[u], approval mails to u
    due,       \* history: due[u], mails there was a reason for
    excused    \* history: mails whose bounce cannot be expected in the log

panel == <<right, gone, job, grants, told, due>>
post  == <<log, fate, event, hook, again, excused>>
vars  == <<panel, mail, post>>

Event  == {"sent", "delivered", "bounced", "complained"}
Status == {"SENT", "DELIVERED", "BOUNCED", "FAILED"}
Way    == {"panel", "button", "command"}

IdleJob  == [pc |-> "idle", user |-> Null, way |-> "panel", saw |-> FALSE]
IdleHook == [pc |-> "idle", mail |-> Null, event |-> "sent"]

TypeOK ==
    /\ right \in [User -> BOOLEAN] /\ gone \subseteq User
    /\ job \in [Request -> [pc : {"idle", "grant", "tell"}, user : User \cup {Null}, way : Way,
                            saw : BOOLEAN]]
    /\ mail \in [Mail -> {"unsent", "sending", "sent", "failed", "done"}]
    /\ log \in [Mail -> Status \cup {Null}]
    /\ fate \in [Mail -> SUBSET Event] /\ event \in [Mail -> SUBSET Event]
    /\ hook \in [Hook -> [pc : {"idle", "update", "reply"}, mail : Mail \cup {Null}, event : Event]]
    /\ grants \in 0..MaxGrants /\ again \in 0..MaxAgain
    /\ told \in [User -> Nat] /\ due \in [User -> Nat] /\ excused \subseteq Mail

Init ==
    /\ right = [u \in User |-> FALSE] /\ gone = {}
    /\ job = [r \in Request |-> IdleJob]
    /\ mail = [m \in Mail |-> "unsent"] /\ log = [m \in Mail |-> Null]
    /\ fate = [m \in Mail |-> {}] /\ event = [m \in Mail |-> {}] /\ hook = [h \in Hook |-> IdleHook]
    /\ grants = 0 /\ again = 0
    /\ told = [u \in User |-> 0] /\ due = [u \in User |-> 0] /\ excused = {}

-----------------------------------------------------------------------------
\* The right is given and taken

\* Plausible bug: the bot approves whoever the panel would.
RefusedByNobody(u, way) == FALSE

\* The bot refuses a user who has the right already and its button a deleted one; the panel
\* looks at neither.
Refused(u, way) == way # "panel" /\ (right[u] \/ (way = "button" /\ u \in gone))

AskApprove(r, u, way) ==
    /\ job[r].pc = "idle" /\ ~Refused(u, way)
    /\ grants < MaxGrants /\ grants' = grants + 1
    /\ job' = [job EXCEPT ![r] = [pc |-> "grant", user |-> u, way |-> way, saw |-> right[u]]]
    /\ UNCHANGED <<right, gone, told, due, mail, post>>

\* The update does not look at what it changes.  A mail is due for a user who gets the right,
\* for every approval in the panel, and for one who got it since the handler read.
Grant(r) ==
    /\ job[r].pc = "grant"
    /\ LET u == job[r].user IN
       /\ right' = [right EXCEPT ![u] = TRUE]
       /\ due' = IF ~right[u] \/ job[r].way = "panel" \/ ~job[r].saw
                 THEN [due EXCEPT ![u] = @ + 1] ELSE due
    /\ job' = [job EXCEPT ![r].pc = "tell"]
    /\ UNCHANGED <<gone, grants, told, mail, post>>

\* After the audit row the mail is sent and not waited for.
Tell(r) ==
    /\ job[r].pc = "tell"
    /\ told' = [told EXCEPT ![job[r].user] = @ + 1]
    /\ job' = [job EXCEPT ![r] = IdleJob]
    /\ \/ \E m \in Mail : mail[m] = "unsent" /\ mail' = [mail EXCEPT ![m] = "sending"]
       \/ UNCHANGED mail
    /\ UNCHANGED <<right, gone, grants, due, post>>

\* A failed statement: the panel answers 500, the bot nothing.
Fail(r) ==
    /\ job[r].pc # "idle" /\ job' = [job EXCEPT ![r] = IdleJob]
    /\ UNCHANGED <<right, gone, grants, told, due, mail, post>>

\* DELETE super-approve and "verify off".
Unapprove(u) ==
    /\ right[u] /\ right' = [right EXCEPT ![u] = FALSE]
    /\ UNCHANGED <<gone, job, grants, told, due, mail, post>>

Trash(u) ==
    /\ gone' = IF u \in gone THEN gone \ {u} ELSE gone \cup {u}
    /\ UNCHANGED <<right, job, grants, told, due, mail, post>>

-----------------------------------------------------------------------------
\* sendEmail

\* The provider takes the mail, whether or not anyone still waits for its answer; it goes to
\* the mailbox, or comes back, or is reported as spam by its reader.
Accept(m) ==
    /\ mail[m] # "unsent" /\ fate[m] = {}
    /\ \E f \in {{"sent", "delivered"}, {"sent", "bounced"}, {"sent", "delivered", "complained"}} :
         fate' = [fate EXCEPT ![m] = f] /\ event' = [event EXCEPT ![m] = f]
    /\ UNCHANGED <<panel, mail, log, hook, again, excused>>

Answered(m) ==
    /\ mail[m] = "sending" /\ fate[m] # {} /\ mail' = [mail EXCEPT ![m] = "sent"]
    /\ UNCHANGED <<panel, post>>

\* Refused by the provider or the sandbox, a network error, or eight seconds without answer.
GivesUp(m) ==
    /\ mail[m] = "sending" /\ mail' = [mail EXCEPT ![m] = "failed"]
    /\ UNCHANGED <<panel, post>>

\* recordLog: one row with the id of the provider, or one without it; a failure is swallowed.
Record(m) ==
    /\ mail[m] \in {"sent", "failed"} /\ mail' = [mail EXCEPT ![m] = "done"]
    /\ \/ log' = [log EXCEPT ![m] = IF mail[m] = "sent" THEN "SENT" ELSE "FAILED"]
       \/ UNCHANGED log
    /\ UNCHANGED <<panel, fate, event, hook, again, excused>>

-----------------------------------------------------------------------------
\* The webhook of the provider

\* findFirst by messageId: a row that does not exist yet, or has no id, is unknown.
Known(m) == log[m] \in Status \ {"FAILED"}

\* Plausible bug: a complaint has no entry in EVENT_STATUS and keeps the status.
StatusOfNoComplaint(e) == CASE e = "sent" -> "SENT" [] e = "bounced" -> "BOUNCED" [] OTHER -> "DELIVERED"

\* EVENT_STATUS.
StatusOf(e) == CASE e = "sent" -> "SENT" [] e = "delivered" -> "DELIVERED" [] OTHER -> "BOUNCED"

Bad == {"bounced", "complained"}

\* The event is posted and the row is looked up.
Post(h, m, e) ==
    /\ hook[h].pc = "idle" /\ e \in event[m]
    /\ hook' = [hook EXCEPT ![h] = [pc |-> IF Known(m) THEN "update" ELSE "reply", mail |-> m,
                                    event |-> e]]
    /\ excused' = IF e \in Bad /\ ~Known(m) THEN excused \cup {m} ELSE excused
    /\ UNCHANGED <<panel, mail, log, fate, event, again>>

\* The status is overwritten: whatever comes later than a bounce hides it.
Update(h) ==
    /\ hook[h].pc = "update"
    /\ LET m == hook[h].mail  e == hook[h].event IN
       /\ log' = [log EXCEPT ![m] = StatusOf(e)]
       /\ excused' = IF e \in Bad THEN excused \ {m}
                     ELSE IF log[m] = "BOUNCED" THEN excused \cup {m} ELSE excused
    /\ hook' = [hook EXCEPT ![h].pc = "reply"]
    /\ UNCHANGED <<panel, mail, fate, event, again>>

\* The answer is counted by the provider, or lost and the event posted again.
Reply(h) ==
    /\ hook[h].pc = "reply"
    /\ \/ event' = [event EXCEPT ![hook[h].mail] = @ \ {hook[h].event}] /\ UNCHANGED again
       \/ again < MaxAgain /\ again' = again + 1 /\ UNCHANGED event
    /\ hook' = [hook EXCEPT ![h] = IdleHook]
    /\ UNCHANGED <<panel, mail, log, fate, excused>>

\* A failed statement is a 500: the provider posts the event again.
HookFails(h) ==
    /\ hook[h].pc = "update" /\ hook' = [hook EXCEPT ![h] = IdleHook]
    /\ UNCHANGED <<panel, mail, log, fate, event, again, excused>>

-----------------------------------------------------------------------------
Sends(m)  == Answered(m) \/ GivesUp(m) \/ Record(m)
Serves(h) == Update(h) \/ Reply(h)

Next ==
    \/ \E r \in Request : Grant(r) \/ Tell(r) \/ Fail(r)
                          \/ \E u \in User, way \in Way : AskApprove(r, u, way)
    \/ \E u \in User : Unapprove(u) \/ Trash(u)
    \/ \E m \in Mail : Accept(m) \/ Sends(m) \/ \E h \in Hook, e \in Event : Post(h, m, e)
    \/ \E h \in Hook : Serves(h) \/ HookFails(h)

Spec == Init /\ [][Next]_vars

-----------------------------------------------------------------------------
(* What the mails promise *)

\* Nobody is told twice for one approval: every mail has an approval of its own that gave the
\* right, came from the panel, or overlapped the one that gave it.
MailsExplained == \A u \in User : told[u] <= due[u]

Bounced(m) == Bad \cap fate[m] # {} /\ Bad \cap event[m] = {}

\* A mail that came back, or was reported as spam, shows as such in the log once the provider
\* knows that the event has arrived, unless the event came before the row was written or the
\* row has no id (the answer was waited for in vain), or another event was handled after it.
BounceShown ==
    \A m \in Mail : Bounced(m) => log[m] \in {"BOUNCED", "FAILED", Null} \/ m \in excused

=============================================================================
