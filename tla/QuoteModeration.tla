--------------------------- MODULE QuoteModeration ---------------------------
(***************************************************************************)
(* Moderation of user-submitted quotes and their automatic publication to  *)
(* the Telegram channel: src/server/src/lib/quoteModeration.ts and the     *)
(* seven entry points that call it (admin panel routes, bulk route, inline *)
(* buttons, replies and bot commands).                                     *)
(*                                                                         *)
(* Each HTTP request or webhook update is a Request.  Node.js runs it up to*)
(* its next `await`, so an action is the code between two awaits, and the  *)
(* actions of different requests interleave.  One Prisma call is atomic.   *)
(* A request is used once; the same human decision repeated (a double tap, *)
(* a client retry) is another Request.                                     *)
(***************************************************************************)
EXTENDS Naturals, FiniteSets

CONSTANTS
    Quote,        \* ids of quote rows
    Request,      \* the requests that may arrive, each used once
    CasAttempts,  \* CAS_ATTEMPTS of quoteModeration.ts
    MaxFaults,    \* bound: crashes, failed calls and lost answers in a run
    NoStamp,      \* telegramPostedAt = null
    Posted        \* a telegramPostedAt written after a post

ASSUME CasAttemptsAssumption == CasAttempts \in Nat \ {0}
ASSUME MaxFaultsAssumption == MaxFaults \in Nat
ASSUME StampAssumption ==
    NoStamp \notin Request /\ Posted \notin Request /\ NoStamp # Posted

Decision == {"APPROVED", "REJECTED"}

\* NONE: not submitted yet.  GONE: the row was deleted for good.
Status == {"NONE", "PENDING", "GONE"} \cup Decision

\* Where a request stands with one quote: the await it is suspended at.
Label == {"idle",                               \* not concerned with it
          "read", "cas", "won", "lost",         \* applyModerationDecision
          "scan",                               \* bulk route, after Promise.all
          "claim", "send", "mark", "release",   \* automatic publication
          "mark-awaiting",                      \* reject button
          "manual-send", "manual-mark",         \* POST /:id/post-telegram
          "done"}

VARIABLES
    status,    \* status[q]: Quote.status
    awaiting,  \* awaiting[q]: Quote.awaitingRejection
    archived,  \* archived[q]: Quote.deletedAt is set (the trash)
    stamp,     \* stamp[q]: Quote.telegramPostedAt; a claim is the claimer's id
    mode,      \* mode[r]: what kind of handler runs request r
    goal,      \* goal[r]: the decision it asks for
    pc,        \* pc[r][q]: the await r is suspended at, for quote q
    seen,      \* seen[r][q]: current.status of its last read
    tries,     \* tries[r][q]: CAS rounds lost so far
    posts,     \* history: copies of q in the channel, by who posted them
    notices,   \* history: notifyQuoteModeration calls, per quote and decision
    flips,     \* history: status changes, per quote and decision
    slips,     \* history: automatic posts that were delivered and un-stamped
    faults     \* history: faults so far (bounded by MaxFaults)

row      == <<status, awaiting, archived, stamp>>
local    == <<mode, goal, pc, seen, tries>>
history  == <<posts, notices, flips, slips>>
vars     == <<row, local, history, faults>>

Mode == {"fresh", "one", "bulk", "failed"}

RowType ==
    /\ status \in [Quote -> Status]
    /\ awaiting \in [Quote -> BOOLEAN]
    /\ archived \in [Quote -> BOOLEAN]
    /\ stamp \in [Quote -> Request \cup {NoStamp, Posted}]

LocalType ==
    /\ mode \in [Request -> Mode]
    /\ goal \in [Request -> Decision]
    /\ pc \in [Request -> [Quote -> Label]]
    /\ seen \in [Request -> [Quote -> Status]]
    /\ tries \in [Request -> [Quote -> 0 .. CasAttempts - 1]]

HistoryType ==
    /\ posts \in [Quote -> [{"auto", "manual"} -> Nat]]
    /\ notices \in [Quote -> [Decision -> Nat]]
    /\ flips \in [Quote -> [Decision -> Nat]]
    /\ slips \in [Quote -> Nat]
    /\ faults \in Nat

TypeOK == RowType /\ LocalType /\ HistoryType

Init ==
    /\ status = [q \in Quote |-> "NONE"]
    /\ awaiting = [q \in Quote |-> FALSE]
    /\ archived = [q \in Quote |-> FALSE]
    /\ stamp = [q \in Quote |-> NoStamp]
    /\ mode = [r \in Request |-> "fresh"]
    /\ goal = [r \in Request |-> "APPROVED"]
    /\ pc = [r \in Request |-> [q \in Quote |-> "idle"]]
    /\ seen = [r \in Request |-> [q \in Quote |-> "NONE"]]
    /\ tries = [r \in Request |-> [q \in Quote |-> 0]]
    /\ posts = [q \in Quote |-> [w \in {"auto", "manual"} |-> 0]]
    /\ notices = [q \in Quote |-> [d \in Decision |-> 0]]
    /\ flips = [q \in Quote |-> [d \in Decision |-> 0]]
    /\ slips = [q \in Quote |-> 0]
    /\ faults = 0

-----------------------------------------------------------------------------
\* Helpers

Exists(q) == status[q] \notin {"NONE", "GONE"}

Goto(r, q, label) == pc' = [pc EXCEPT ![r][q] = label]

\* The locals of applyModerationDecision die when it returns.
ForgetLocals(r, q) ==
    /\ seen' = [seen EXCEPT ![r][q] = "NONE"]
    /\ tries' = [tries EXCEPT ![r][q] = 0]

Fault == faults < MaxFaults /\ faults' = faults + 1

\* A request reaches its handler and suspends at its first read of quote q.
Start(r, q, d, label) ==
    /\ mode[r] = "fresh"
    /\ mode' = [mode EXCEPT ![r] = "one"]
    /\ goal' = [goal EXCEPT ![r] = d]
    /\ Goto(r, q, label)
    /\ UNCHANGED <<row, seen, tries, history, faults>>

-----------------------------------------------------------------------------
\* Rows: submission, trash, permanent deletion

\* POST /api/quotes.  Admins and super-approved authors skip the queue.
Submit(q) ==
    /\ status[q] = "NONE"
    /\ \E trusted \in BOOLEAN :
          status' = [status EXCEPT ![q] = IF trusted THEN "APPROVED" ELSE "PENDING"]
    /\ UNCHANGED <<awaiting, archived, stamp, local, history, faults>>

\* POST /:id/archive.  Its earlier read decides only the 404; the write lands on
\* whatever the row is by then.
Archive(q) ==
    /\ Exists(q)
    /\ archived' = [archived EXCEPT ![q] = TRUE]
    /\ UNCHANGED <<status, awaiting, stamp, local, history, faults>>

\* POST /:id/restore.
Restore(q) ==
    /\ Exists(q) /\ archived[q]
    /\ archived' = [archived EXCEPT ![q] = FALSE]
    /\ UNCHANGED <<status, awaiting, stamp, local, history, faults>>

\* DELETE /:id, super admins only: the row and its columns are gone.
HardDelete(q) ==
    /\ Exists(q)
    /\ status' = [status EXCEPT ![q] = "GONE"]
    /\ awaiting' = [awaiting EXCEPT ![q] = FALSE]
    /\ archived' = [archived EXCEPT ![q] = FALSE]
    /\ stamp' = [stamp EXCEPT ![q] = NoStamp]
    /\ UNCHANGED <<local, history, faults>>

-----------------------------------------------------------------------------
\* Entry points

PanelApprove(r, q)   == status[q] # "NONE" /\ Start(r, q, "APPROVED", "read")
ButtonApprove(r, q)  == status[q] # "NONE" /\ Start(r, q, "APPROVED", "read")
CommandApprove(r, q) == status[q] # "NONE" /\ Start(r, q, "APPROVED", "read")
PanelReject(r, q)    == status[q] # "NONE" /\ Start(r, q, "REJECTED", "read")
CommandReject(r, q)  == status[q] # "NONE" /\ Start(r, q, "REJECTED", "read")

\* The [reject] button reads the quote and, while it is pending, will flag it.
ButtonReject(r, q) ==
    status[q] = "PENDING" /\ Start(r, q, "REJECTED", "mark-awaiting")

\* The reason is the admin's reply to a flagged quote's message: its own read
\* must see a flagged pending quote, then the shared loop takes over.
Reply(r, q) ==
    /\ status[q] = "PENDING" /\ awaiting[q]
    /\ Start(r, q, "REJECTED", "read")

\* POST /:id/post-telegram: the read that checks for APPROVED.
PostManually(r, q) ==
    status[q] = "APPROVED" /\ Start(r, q, "APPROVED", "manual-send")

\* POST /quotes/bulk {approve | reject}: one read drops the archived ids, then
\* every other id runs its own CAS loop (Promise.all).
BulkModerate(r) ==
    /\ mode[r] = "fresh"
    /\ \E ids \in SUBSET {q \in Quote : status[q] # "NONE"}, d \in Decision :
          /\ \E q \in ids : ~archived[q]
          /\ goal' = [goal EXCEPT ![r] = d]
          /\ pc' = [pc EXCEPT ![r] =
                [q \in Quote |-> IF q \in ids /\ ~archived[q] THEN "read" ELSE "idle"]]
    /\ mode' = [mode EXCEPT ![r] = "bulk"]
    /\ UNCHANGED <<row, seen, tries, history, faults>>

\* POST /quotes/bulk {delete | restore}: one updateMany each.
BulkArchive == \E ids \in SUBSET {q \in Quote : Exists(q)} :
    /\ \E q \in ids : ~archived[q]
    /\ archived' = [q \in Quote |-> archived[q] \/ q \in ids]
    /\ UNCHANGED <<status, awaiting, stamp, local, history, faults>>

BulkRestore == \E ids \in SUBSET {q \in Quote : Exists(q)} :
    /\ \E q \in ids : archived[q]
    /\ archived' = [q \in Quote |-> archived[q] /\ q \notin ids]
    /\ UNCHANGED <<status, awaiting, stamp, local, history, faults>>

-----------------------------------------------------------------------------
\* applyModerationDecision

\* findUnique: not-found and already-applied end the loop without side effects.
Read(r, q) ==
    /\ pc[r][q] = "read"
    /\ \/ /\ Exists(q) /\ status[q] # goal[r]
          /\ seen' = [seen EXCEPT ![r][q] = status[q]]
          /\ Goto(r, q, "cas")
          /\ UNCHANGED tries
       \/ /\ ~Exists(q) \/ status[q] = goal[r]
          /\ ForgetLocals(r, q)
          /\ Goto(r, q, "lost")
    /\ UNCHANGED <<row, mode, goal, history, faults>>

\* Mutant of Matches: `where: { id }`, the read-then-write of the old handler.
MatchesAnyStatus(r, q) == Exists(q)

\* The predicate of the updateMany: the row still has the status that was read.
Matches(r, q) == status[q] = seen[r][q]

\* updateMany({ where: { id, status: current.status } }).
Swap(r, q) ==
    /\ pc[r][q] = "cas" /\ Matches(r, q)
    /\ status' = [status EXCEPT ![q] = goal[r]]
    /\ awaiting' = [awaiting EXCEPT ![q] = FALSE]
    /\ flips' = [flips EXCEPT ![q][goal[r]] = @ + 1]
    /\ ForgetLocals(r, q)
    /\ Goto(r, q, "won")
    /\ UNCHANGED <<archived, stamp, mode, goal, posts, notices, slips, faults>>

\* Mutant of MoreAttempts: `attempt <= CAS_ATTEMPTS`.
OneAttemptTooMany(r, q) == tries[r][q] + 1 <= CasAttempts

\* The loop bound, attempt < CAS_ATTEMPTS, after the increment.
MoreAttempts(r, q) == tries[r][q] + 1 < CasAttempts

\* count = 0: another round, or `conflict` when the attempts are used up.
SwapMissed(r, q) ==
    /\ pc[r][q] = "cas" /\ ~Matches(r, q)
    /\ \/ /\ MoreAttempts(r, q)
          /\ tries' = [tries EXCEPT ![r][q] = @ + 1]
          /\ seen' = [seen EXCEPT ![r][q] = "NONE"]
          /\ Goto(r, q, "read")
       \/ /\ ~MoreAttempts(r, q)
          /\ ForgetLocals(r, q)
          /\ Goto(r, q, "lost")
    /\ UNCHANGED <<row, mode, goal, history, faults>>

-----------------------------------------------------------------------------
\* Side effects of the request that moved the row

\* The moderation message is edited (awaited), then the author is told.
Announce(r, q) ==
    /\ mode[r] = "one" /\ pc[r][q] = "won"
    /\ notices' = [notices EXCEPT ![q][goal[r]] = @ + 1]
    /\ Goto(r, q, IF goal[r] = "APPROVED" THEN "claim" ELSE "done")
    /\ UNCHANGED <<row, mode, goal, seen, tries, posts, flips, slips, faults>>

\* Mutant of Transitioned: every id of the bulk request notifies its author.
TransitionedOrNot(r, q) == pc[r][q] \in {"won", "lost"}

\* outcomes.filter((o) => o.kind === "transitioned").
Transitioned(r, q) == pc[r][q] = "won"

\* The bulk route goes on when every id's loop has returned.
Joined(r) == \A q \in Quote : pc[r][q] \in {"idle", "won", "lost"}

BulkAnnounce(r) ==
    /\ mode[r] = "bulk" /\ Joined(r)
    /\ \E q \in Quote : pc[r][q] # "idle"
    /\ notices' = [q \in Quote |-> [d \in Decision |->
          notices[q][d] + IF d = goal[r] /\ Transitioned(r, q) THEN 1 ELSE 0]]
    /\ pc' = [pc EXCEPT ![r] = [q \in Quote |->
          IF pc[r][q] = "idle" THEN "idle"
          ELSE IF goal[r] = "APPROVED" THEN "scan" ELSE "done"]]
    /\ UNCHANGED <<row, mode, goal, seen, tries, posts, flips, slips, faults>>

\* toPublish: live ids that are approved and unposted, whoever approved them.
BulkScan(r) ==
    /\ \E q \in Quote : pc[r][q] = "scan"
    /\ pc' = [pc EXCEPT ![r] = [q \in Quote |->
          IF pc[r][q] # "scan" THEN pc[r][q]
          ELSE IF status[q] = "APPROVED" /\ stamp[q] = NoStamp THEN "claim" ELSE "done"]]
    /\ UNCHANGED <<row, mode, goal, seen, tries, history, faults>>

-----------------------------------------------------------------------------
\* Publication to the channel

\* Mutant of Unclaimed: the claim no longer requires telegramPostedAt = null.
UnclaimedIgnoringStamp(q) == Exists(q)

\* The predicate of claimTelegramPublish.
Unclaimed(q) == Exists(q) /\ stamp[q] = NoStamp

Claim(r, q) ==
    /\ pc[r][q] = "claim"
    /\ \/ /\ Unclaimed(q)
          /\ stamp' = [stamp EXCEPT ![q] = r]
          /\ Goto(r, q, "send")
       \/ /\ ~Unclaimed(q)
          /\ Goto(r, q, "done")
          /\ UNCHANGED stamp
    /\ UNCHANGED <<status, awaiting, archived, mode, goal, seen, tries, history, faults>>

Deliver(q, who) == posts' = [posts EXCEPT ![q][who] = @ + 1]

\* publishQuoteToChannel: Telegram posted the message and said so.
Send(r, q) ==
    /\ pc[r][q] = "send"
    /\ Deliver(q, "auto")
    /\ Goto(r, q, "mark")
    /\ UNCHANGED <<row, mode, goal, seen, tries, notices, flips, slips, faults>>

\* Nothing was posted: no channel set up, Telegram refused or was unreachable.
SendRefused(r, q) ==
    /\ pc[r][q] = "send"
    /\ Goto(r, q, "release")
    /\ UNCHANGED <<row, mode, goal, seen, tries, history, faults>>

\* Telegram posted the message, and the answer was lost or came too late.
SendUnanswered(r, q) ==
    /\ pc[r][q] = "send" /\ Fault
    /\ Deliver(q, "auto")
    /\ slips' = [slips EXCEPT ![q] = @ + 1]
    /\ Goto(r, q, "release")
    /\ UNCHANGED <<row, mode, goal, seen, tries, notices, flips>>

\* update({ telegramPostedAt: new Date() }) after the post.
Mark(r, q) ==
    /\ pc[r][q] = "mark" /\ Exists(q)
    /\ stamp' = [stamp EXCEPT ![q] = Posted]
    /\ Goto(r, q, "done")
    /\ UNCHANGED <<status, awaiting, archived, mode, goal, seen, tries, history, faults>>

\* The update throws, because the row is gone or the database failed, and the
\* catch gives the claim back although the copy is out.
MarkThrows(r, q) ==
    /\ pc[r][q] = "mark"
    /\ \/ ~Exists(q) /\ UNCHANGED faults
       \/ Fault
    /\ slips' = [slips EXCEPT ![q] = @ + 1]
    /\ Goto(r, q, "release")
    /\ UNCHANGED <<row, mode, goal, seen, tries, posts, notices, flips>>

\* Mutant of Holds: release any claim, not only one's own.
HoldsAny(r, q) == stamp[q] # NoStamp

\* The predicate of releaseTelegramPublish: the stamp is the one r wrote.
Holds(r, q) == stamp[q] = r

\* Mutant of Release: it waits for its own stamp to be there.
ReleaseOnlyOwn(r, q) ==
    /\ pc[r][q] = "release" /\ Holds(r, q)
    /\ stamp' = [stamp EXCEPT ![q] = NoStamp]
    /\ Goto(r, q, "done")
    /\ UNCHANGED <<status, awaiting, archived, mode, goal, seen, tries, history, faults>>

Release(r, q) ==
    /\ pc[r][q] = "release"
    /\ stamp' = [stamp EXCEPT ![q] = IF Holds(r, q) THEN NoStamp ELSE @]
    /\ Goto(r, q, "done")
    /\ UNCHANGED <<status, awaiting, archived, mode, goal, seen, tries, history, faults>>

\* POST /:id/post-telegram posts without a claim.
ManualSend(r, q) ==
    /\ pc[r][q] = "manual-send"
    /\ Deliver(q, "manual")
    /\ \/ Goto(r, q, "manual-mark") /\ UNCHANGED faults
       \/ Goto(r, q, "done") /\ Fault              \* the answer was lost: 502
    /\ UNCHANGED <<row, mode, goal, seen, tries, notices, flips, slips>>

ManualSendRefused(r, q) ==
    /\ pc[r][q] = "manual-send"
    /\ Goto(r, q, "done")
    /\ UNCHANGED <<row, mode, goal, seen, tries, history, faults>>

\* The stamp goes on the row whatever is there: no stamp, a claim, an old post.
ManualMark(r, q) ==
    /\ pc[r][q] = "manual-mark"
    /\ stamp' = [stamp EXCEPT ![q] = IF Exists(q) THEN Posted ELSE @]
    /\ Goto(r, q, "done")
    /\ UNCHANGED <<status, awaiting, archived, mode, goal, seen, tries, history, faults>>

\* The reject button's write, `update({ awaitingRejection: true })`.
MarkAwaiting(r, q) ==
    /\ pc[r][q] = "mark-awaiting"
    /\ awaiting' = [awaiting EXCEPT ![q] = Exists(q) \/ @]
    /\ Goto(r, q, "done")
    /\ UNCHANGED <<status, archived, stamp, mode, goal, seen, tries, history, faults>>

-----------------------------------------------------------------------------
\* Faults

Suspended == Label \ {"idle", "lost", "done"}

\* A database call of one CAS loop throws.  In the bulk route Promise.all rejects
\* and the route answers 500; the loops of the other ids run on, joined by nobody.
ThrowInLoop(r, q) ==
    /\ pc[r][q] \in {"read", "cas"} /\ Fault
    /\ mode' = [mode EXCEPT ![r] = IF @ = "bulk" THEN "failed" ELSE @]
    /\ ForgetLocals(r, q)
    /\ Goto(r, q, "done")
    /\ UNCHANGED <<row, goal, history>>

\* A later call of the handler throws: what it had left to do is not done.
\* Publishers already started are detached and go on.
ThrowInHandler(r) ==
    LET left == IF mode[r] = "one" THEN {"won", "claim", "mark-awaiting", "manual-mark"}
                                   ELSE {"scan", "claim"}
    IN  /\ \E q \in Quote : pc[r][q] \in left
        /\ Fault
        /\ pc' = [pc EXCEPT ![r] = [q \in Quote |->
              IF pc[r][q] \in left THEN "done" ELSE pc[r][q]]]
        /\ UNCHANGED <<row, mode, goal, seen, tries, history>>

\* The release itself fails: an unhandled rejection, logged and survived.
ReleaseThrows(r, q) ==
    /\ pc[r][q] = "release" /\ Fault
    /\ Goto(r, q, "done")
    /\ UNCHANGED <<row, mode, goal, seen, tries, history>>

\* The process restarts: rows stay, every suspended handler is lost.
Crash ==
    /\ Fault
    /\ \E r \in Request, q \in Quote : pc[r][q] \in Suspended
    /\ pc' = [r \in Request |-> [q \in Quote |->
          IF pc[r][q] = "idle" THEN "idle" ELSE "done"]]
    /\ seen' = [r \in Request |-> [q \in Quote |-> "NONE"]]
    /\ tries' = [r \in Request |-> [q \in Quote |-> 0]]
    /\ UNCHANGED <<row, mode, goal, history>>

-----------------------------------------------------------------------------
\* The continuations the event loop runs once their call has settled.
Step(r, q) ==
    \/ Read(r, q) \/ Swap(r, q) \/ SwapMissed(r, q) \/ Announce(r, q)
    \/ Claim(r, q) \/ Send(r, q) \/ SendRefused(r, q) \/ Mark(r, q)
    \/ MarkThrows(r, q) \/ Release(r, q) \/ MarkAwaiting(r, q)
    \/ ManualSend(r, q) \/ ManualSendRefused(r, q) \/ ManualMark(r, q)

BulkStep(r) == BulkAnnounce(r) \/ BulkScan(r)

\* What people and the network do; nothing obliges them.
Environment ==
    \/ \E q \in Quote : Submit(q) \/ Archive(q) \/ Restore(q) \/ HardDelete(q)
    \/ BulkArchive \/ BulkRestore
    \/ \E r \in Request : BulkModerate(r)
    \/ \E r \in Request, q \in Quote :
          \/ PanelApprove(r, q) \/ ButtonApprove(r, q) \/ CommandApprove(r, q)
          \/ PanelReject(r, q) \/ CommandReject(r, q)
          \/ ButtonReject(r, q) \/ Reply(r, q) \/ PostManually(r, q)
          \/ SendUnanswered(r, q) \/ ThrowInLoop(r, q) \/ ReleaseThrows(r, q)
    \/ \E r \in Request : ThrowInHandler(r)
    \/ Crash

Next ==
    \/ \E r \in Request, q \in Quote : Step(r, q)
    \/ \E r \in Request : BulkStep(r)
    \/ Environment

Spec == Init /\ [][Next]_vars

\* Prisma and Telegram calls settle (pool timeout, 8 s abort) and the event loop
\* runs every settled continuation.
Fairness == /\ \A r \in Request, q \in Quote : WF_vars(Step(r, q))
            /\ \A r \in Request : WF_vars(BulkStep(r))

FairSpec == Spec /\ Fairness

-----------------------------------------------------------------------------
\* Properties

\* r has claimed the publication of q and has not finished with it.
Publishing(r, q) == pc[r][q] \in {"send", "mark", "release"}

\* At most one request is publishing a quote automatically, whichever entry points
\* approved it and however often: the claim on telegramPostedAt is exclusive even
\* though manual posts overwrite it and failed posts give it back.
OnePublisher ==
    \A q \in Quote, r1, r2 \in Request :
        Publishing(r1, q) /\ Publishing(r2, q) => r1 = r2

\* Automatic publication leaves one copy in the channel, plus one for every time
\* a copy was delivered and its claim given back all the same (lost answer, failed
\* update): no interleaving of approvals adds another.
DuplicatesExplained == \A q \in Quote : posts[q]["auto"] <= 1 + slips[q]

\* Concurrent and repeated decisions for the same target take effect once: whatever
\* the interleaving of reads and swaps, approvals and rejections of a quote alternate.
DecisionsAlternate ==
    \A q \in Quote :
        /\ flips[q]["APPROVED"] <= flips[q]["REJECTED"] + 1
        /\ flips[q]["REJECTED"] <= flips[q]["APPROVED"] + 1

\* The author is told of each decision at most as often as it really moved the
\* quote, the transitions whose owner has not told yet included.
OneNoticePerFlip ==
    \A q \in Quote, d \in Decision :
        notices[q][d] + Cardinality({r \in Request : pc[r][q] = "won" /\ goal[r] = d})
            <= flips[q][d]

\* telegramPostedAt goes back to null only by the release of the very request
\* whose claim it holds (or with the row): "the release can only ever undo its own
\* claim", also when a manual post has overwritten the claim meanwhile.
ReleaseUndoesOwnClaim ==
    [][\A q \in Quote :
          stamp[q] # NoStamp /\ stamp'[q] = NoStamp =>
              \/ status'[q] = "GONE"
              \/ \E r \in Request : stamp[q] = r /\ pc[r][q] = "release"]_vars

\* The inductive strengthening of the invariants above.  A request that has not
\* started touches nothing, and one about to swap read another decision than its own.
LocalsSound ==
    \A r \in Request, q \in Quote :
        /\ mode[r] = "fresh" => pc[r][q] = "idle"
        /\ pc[r][q] = "cas" => seen[r][q] \in ({"PENDING"} \cup Decision) \ {goal[r]}

\* While a request publishes, the column is not null: nobody else can claim.
ClaimsHeld ==
    \A r \in Request, q \in Quote :
        Publishing(r, q) => stamp[q] # NoStamp \/ status[q] = "GONE"

\* The spare copy of DuplicatesExplained is used up only while the column says so.
CopiesCounted ==
    \A q \in Quote :
        /\ stamp[q] = NoStamp /\ status[q] # "GONE" => posts[q]["auto"] <= slips[q]
        /\ \A r \in Request : pc[r][q] \in {"send", "release"} => posts[q]["auto"] <= slips[q]

\* Whose turn it is follows from the status.
TurnsTaken ==
    \A q \in Quote :
        /\ status[q] \in {"NONE", "PENDING"} => flips[q]["APPROVED"] = flips[q]["REJECTED"]
        /\ status[q] = "APPROVED" => flips[q]["REJECTED"] <= flips[q]["APPROVED"]
        /\ status[q] = "REJECTED" => flips[q]["APPROVED"] <= flips[q]["REJECTED"]

PublicationInv == OnePublisher /\ ClaimsHeld /\ CopiesCounted /\ DuplicatesExplained

IInv == TypeOK /\ LocalsSound /\ PublicationInv /\ TurnsTaken /\ DecisionsAlternate

\* Without faults whoever moved a quote finishes: the author is told, and a claim
\* ends stamped as posted or given back, never held for ever.
SideEffectsComplete ==
    \A r \in Request, q \in Quote :
        (pc[r][q] \in {"won", "claim"} \/ Publishing(r, q)) ~> (pc[r][q] = "done" \/ faults > 0)

\* The promise of quoteModeration.ts: decisions are atomic, and each transition
\* has one owner, who tells the author at most once.
Ledger == INSTANCE ModerationLedger WITH
    Moderator <- Request,
    owed <- [q \in Quote |-> {<<r, goal[r]>> : r \in {x \in Request : pc[x][q] = "won"}}],
    told <- notices

LedgerSpec == Ledger!Spec

\* "Only approved quotes can be posted to Telegram" (the 400 of post-telegram): no
\* copy reaches the channel while the quote stands rejected.
RejectedNeverPosted ==
    [][\A q \in Quote : posts'[q] # posts[q] => status[q] # "REJECTED"]_vars

\* "so a later approval can retry instead of being permanently suppressed": a claim
\* on the row always belongs to a request that is still publishing.
\* A claim the code does not keep (README, Disagreements).
ClaimNeverOrphaned ==
    \A q \in Quote : stamp[q] \in Request => Publishing(stamp[q], q)

=============================================================================
