--------------------------- MODULE PolicyPublishing ---------------------------
(***************************************************************************)
(* Versioned legal documents (Terms, Privacy, Cookies) and consent to them:*)
(* src/server/src/lib/policies.ts, routes/adminPolicies.ts, the policy     *)
(* buttons and replies of routes/telegram.ts, lib/policyImpact.ts and the  *)
(* consent routes of routes/auth.ts.  The three types never touch each     *)
(* other's rows, so one type is modelled.                                  *)
(*                                                                         *)
(* As in QuoteModeration an action is the code between two awaits.  A      *)
(* version "M.m" is the number 10 * M + m, on which nextVersion is + 1.    *)
(***************************************************************************)
EXTENDS Naturals, FiniteSets

CONSTANTS
    Doc,        \* ids of SitePolicy rows, each created once
    Request,    \* admin requests and webhook updates, each used once
    User,       \* accounts
    Text,       \* document contents
    Template,   \* POLICY_TEMPLATES[type], one of Text
    MaxFaults,  \* bound: crashes and failed database calls in a run
    NoDoc, NoVersion

ASSUME TextAssumption == Template \in Text
ASSUME PolicyNullsAssumption == NoDoc \notin Doc /\ NoVersion \notin Nat
ASSUME PolicyFaultsAssumption == MaxFaults \in Nat

TemplateVersion == 11   \* POLICY_TEMPLATE_VERSION = "1.1"

Label == {"idle",
          "base", "used", "number", "create",        \* a new draft
          "edit",                                    \* PATCH
          "reason", "suggest", "approve", "commit",  \* approval
          "await-suggest", "await-reject",           \* Telegram buttons
          "delete", "done"}

VARIABLES
    state,     \* state[d]: unused, draft, approved (isApproved) or deleted
    version,   \* version[d]
    text,      \* text[d]: content
    issued,    \* issued[d]: publishedAt, as a tick of clock; 0 is null
    awaiting,  \* awaiting[d]: awaitingTelegramReply
    setting,   \* SiteSetting "policies.<type>Version"
    accepted,  \* accepted[u]: acceptedTermsVersion
    boot,      \* how far startServer has come
    clock,     \* new Date()
    pc, at, used, stamp,  \* per request: its await, its document, locals
    draftOf,   \* draftOf[r]: content and version of the draft r will create
    offer,     \* offer[u]: version u is about to be recorded as accepting
    ever,      \* history: versions that have been the published one
    races,     \* history: the kinds of overlap and failure that happened
    faults

row   == <<state, version, text, issued, awaiting>>
local == <<pc, at, used, stamp, draftOf>>
vars  == <<row, setting, accepted, boot, clock, local, offer, ever, races, faults>>

Mark == {"approvals", "drafts", "history", "boot"}

TypeOK ==
    /\ state \in [Doc -> {"unused", "draft", "approved", "deleted"}]
    /\ version \in [Doc -> Nat]
    /\ text \in [Doc -> Text]
    /\ issued \in [Doc -> Nat]
    /\ awaiting \in [Doc -> {"none", "SUGGEST", "REJECT"}]
    /\ setting \in Nat \cup {NoVersion}
    /\ accepted \in [User -> Nat \cup {NoVersion}]
    /\ boot \in {"baseline", "label", "drafts", "up"}
    /\ clock \in Nat
    /\ pc \in [Request -> Label]
    /\ at \in [Request -> Doc \cup {NoDoc}]
    /\ used \in [Request -> SUBSET Nat]
    /\ stamp \in [Request -> Nat]
    /\ draftOf \in [Request -> [text : Text, version : Nat]]
    /\ offer \in [User -> Nat \cup {NoVersion}]
    /\ ever \subseteq Nat /\ races \subseteq Mark /\ faults \in Nat
    /\ \A d \in Doc : state[d] # "unused" => version[d] >= TemplateVersion

Blank == [text |-> Template, version |-> 0]

Init ==
    /\ state = [d \in Doc |-> "unused"]
    /\ version = [d \in Doc |-> 0]
    /\ text = [d \in Doc |-> Template]
    /\ issued = [d \in Doc |-> 0]
    /\ awaiting = [d \in Doc |-> "none"]
    /\ setting = NoVersion
    /\ accepted = [u \in User |-> NoVersion]
    /\ boot = "baseline"
    /\ clock = 0
    /\ pc = [r \in Request |-> "idle"]
    /\ at = [r \in Request |-> NoDoc]
    /\ used = [r \in Request |-> {}]
    /\ stamp = [r \in Request |-> 0]
    /\ draftOf = [r \in Request |-> Blank]
    /\ offer = [u \in User |-> NoVersion]
    /\ ever = {TemplateVersion} /\ races = {} /\ faults = 0

-----------------------------------------------------------------------------
\* Reads

Rows == {d \in Doc : state[d] \in {"draft", "approved"}}
Drafts == {d \in Doc : state[d] = "draft"}
Approved == {d \in Doc : state[d] = "approved"}

\* publishedPolicyVersion: the setting, or the version shipped with the code.
Published == IF setting = NoVersion THEN TemplateVersion ELSE setting

\* approvedPolicy: the approved row with the latest publishedAt.
Served == IF Approved = {} THEN NoDoc
          ELSE CHOOSE d \in Approved : \A e \in Approved : issued[e] <= issued[d]

\* Mutant of NextFree: an unreadable published version counts as 0.0.
NextFreeFromZero(published, taken) ==
    CHOOSE v \in 1 .. 1 + Cardinality(taken) : v \notin taken /\ 1 .. v - 1 \subseteq taken

\* nextFreeVersion: the first version after the published one that no row has.
NextFree(published, taken) ==
    CHOOSE v \in published + 1 .. published + 1 + Cardinality(taken) :
        /\ v \notin taken
        /\ published + 1 .. v - 1 \subseteq taken

Versions(docs) == {version[d] : d \in docs}

Fault == faults < MaxFaults /\ faults' = faults + 1

\* A read of the published version: when the database call fails, the catch answers
\* with the template's.
ReadVersion(v) ==
    \/ v = Published /\ UNCHANGED faults
    \/ v = TemplateVersion /\ v # Published /\ Fault

Readable == {Published, TemplateVersion}

\* Request r goes from one await to the next.
Moves(r, from, to) == pc[r] = from /\ pc' = [pc EXCEPT ![r] = to]

Started(r, d, to) ==
    /\ boot = "up"
    /\ Moves(r, "idle", to)
    /\ at' = [at EXCEPT ![r] = d]

\* Requests r other than the given one that are between the two awaits.
Between(r, labels) == \E s \in Request \ {r} : pc[s] \in labels

-----------------------------------------------------------------------------
\* startServer: nothing else runs yet

\* tryEnsurePolicyBaseline finds an approved document.
BaselineThere ==
    /\ boot = "baseline" /\ Approved # {}
    /\ boot' = "drafts"
    /\ UNCHANGED <<row, setting, accepted, clock, local, offer, ever, races, faults>>

\* It finds none and publishes the template, under the template's version or, when
\* there are drafts, under the next free one.
PublishBaseline(d) ==
    /\ boot = "baseline" /\ Approved = {} /\ state[d] = "unused"
    /\ state' = [state EXCEPT ![d] = "approved"]
    /\ \/ /\ Rows = {}
          /\ version' = [version EXCEPT ![d] = TemplateVersion]
          /\ UNCHANGED faults
       \/ /\ Rows # {}
          /\ \E v \in Readable :
                ReadVersion(v) /\ version' = [version EXCEPT ![d] = NextFree(v, Versions(Rows))]
    /\ text' = [text EXCEPT ![d] = Template]
    /\ issued' = [issued EXCEPT ![d] = clock + 1]
    /\ clock' = clock + 1
    /\ boot' = "label"
    /\ UNCHANGED <<awaiting, setting, accepted, local, offer, ever, races>>

\* The setting is a second write, and always the template's version.
LabelBaseline ==
    /\ boot = "label"
    /\ setting' = TemplateVersion
    /\ ever' = ever \cup {TemplateVersion}
    /\ boot' = "drafts"
    /\ UNCHANGED <<row, accepted, clock, local, offer, races, faults>>

\* tryEnsurePolicyDrafts: a review is due when the published version is not the
\* template's and no draft is open.
SeedDraft(d) ==
    /\ boot = "drafts"
    /\ Published # TemplateVersion /\ Drafts = {} /\ state[d] = "unused"
    /\ state' = [state EXCEPT ![d] = "draft"]
    /\ \E v \in Readable :
          ReadVersion(v) /\ version' = [version EXCEPT ![d] = NextFree(v, Versions(Rows))]
    /\ text' = [text EXCEPT ![d] = Template]
    /\ boot' = "up"
    /\ UNCHANGED <<issued, awaiting, setting, accepted, clock, local, offer, ever, races>>

NoDraftDue ==
    /\ boot = "drafts"
    /\ Published = TemplateVersion \/ Drafts # {}
    /\ boot' = "up"
    /\ UNCHANGED <<row, setting, accepted, clock, local, offer, ever, races, faults>>

\* Both functions swallow a database error; the server starts anyway.
BootFails ==
    /\ boot # "up" /\ Fault
    /\ boot' = IF boot = "drafts" THEN "up" ELSE "drafts"
    /\ races' = races \cup {"boot"}
    /\ UNCHANGED <<row, setting, accepted, clock, local, offer, ever>>

-----------------------------------------------------------------------------
\* Drafts: POST /api/admin/policies and runPolicyImpactReview

\* Mutant of NoOpenDraft: the route creates without looking.
OpenDraftOrNot == TRUE

NoOpenDraft == Drafts = {}

\* No draft of the type is open (the panel answers 409 otherwise, a review adds its
\* reason to the open draft and leaves the modelled columns alone).
CheckNoDraft(r) ==
    /\ NoOpenDraft /\ Started(r, NoDoc, "base")
    /\ races' = IF Between(r, {"base", "used", "number", "create"})
                THEN races \cup {"drafts"} ELSE races
    /\ UNCHANGED <<row, setting, accepted, boot, clock, used, stamp, draftOf, offer, ever, faults>>

\* publicPolicy: the draft starts from the published text.
ReadBase(r) ==
    /\ Moves(r, "base", "used")
    /\ draftOf' = [draftOf EXCEPT ![r].text = IF Served = NoDoc THEN Template ELSE text[Served]]
    /\ UNCHANGED <<row, setting, accepted, boot, clock, at, used, stamp, offer, ever, races, faults>>

\* nextFreeVersion reads the versions taken, then the published one.
ReadTaken(r) ==
    /\ Moves(r, "used", "number")
    /\ used' = [used EXCEPT ![r] = Versions(Rows)]
    /\ UNCHANGED <<row, setting, accepted, boot, clock, at, stamp, draftOf, offer, ever, races, faults>>

ReadPublished(r) ==
    /\ Moves(r, "number", "create")
    /\ \E v \in Readable :
          ReadVersion(v) /\ draftOf' = [draftOf EXCEPT ![r].version = NextFree(v, used[r])]
    /\ used' = [used EXCEPT ![r] = {}]
    /\ UNCHANGED <<row, setting, accepted, boot, clock, at, stamp, offer, ever, races>>

\* The unique index on (type, version) refuses a version taken meanwhile.
Create(r, d) ==
    /\ state[d] = "unused" /\ Moves(r, "create", "done")
    /\ IF draftOf[r].version \in Versions(Rows) THEN UNCHANGED row
       ELSE /\ state' = [state EXCEPT ![d] = "draft"]
            /\ version' = [version EXCEPT ![d] = draftOf[r].version]
            /\ text' = [text EXCEPT ![d] = draftOf[r].text]
            /\ UNCHANGED <<issued, awaiting>>
    /\ draftOf' = [draftOf EXCEPT ![r] = Blank]
    /\ UNCHANGED <<setting, accepted, boot, clock, at, used, stamp, offer, ever, races, faults>>

-----------------------------------------------------------------------------
\* Handlers that read one draft and later write it whatever it has become.
\* Every write by id throws when the row is gone.

EditDraft(r, d)     == state[d] = "draft" /\ Started(r, d, "edit")
DeleteDraft(r, d)   == state[d] = "draft" /\ Started(r, d, "delete")
PanelApprove(r, d)  == state[d] = "draft" /\ Started(r, d, "reason")
ButtonApprove(r, d) == state[d] = "draft" /\ Started(r, d, "approve")
ButtonSuggest(r, d) == state[d] = "draft" /\ awaiting[d] = "none" /\ Started(r, d, "await-suggest")
ButtonReject(r, d)  == state[d] = "draft" /\ awaiting[d] = "none" /\ Started(r, d, "await-reject")

\* The admin's reply to the draft's message.
ReplyApprove(r, d)  == state[d] = "draft" /\ awaiting[d] = "SUGGEST" /\ Started(r, d, "suggest")
ReplyReject(r, d)   == state[d] = "draft" /\ awaiting[d] = "REJECT" /\ Started(r, d, "delete")

ReadDraft(r, d) ==
    /\ \/ EditDraft(r, d) \/ DeleteDraft(r, d) \/ PanelApprove(r, d) \/ ButtonApprove(r, d)
       \/ ButtonSuggest(r, d) \/ ButtonReject(r, d) \/ ReplyApprove(r, d) \/ ReplyReject(r, d)
    /\ UNCHANGED <<row, setting, accepted, boot, clock, used, stamp, draftOf, offer, ever, races, faults>>

There(r) == at[r] \in Rows

\* An approved document changed or was deleted.
HistoryTouched(r) ==
    races' = IF state[at[r]] = "approved" THEN races \cup {"history"} ELSE races

WriteEdit(r) ==
    /\ There(r) /\ Moves(r, "edit", "done")
    /\ \E t \in Text : text' = [text EXCEPT ![at[r]] = t]
    /\ HistoryTouched(r)
    /\ UNCHANGED <<state, version, issued, awaiting, setting, accepted, boot, clock, at, used,
                   stamp, draftOf, offer, ever, faults>>

WriteDelete(r) ==
    /\ There(r) /\ Moves(r, "delete", "done")
    /\ state' = [state EXCEPT ![at[r]] = "deleted"]
    /\ HistoryTouched(r)
    /\ UNCHANGED <<version, text, issued, awaiting, setting, accepted, boot, clock, at, used,
                   stamp, draftOf, offer, ever, faults>>

\* handlePolicyReplyAwait's write.
WriteAwait(r) ==
    /\ There(r)
    /\ \/ /\ Moves(r, "await-suggest", "done")
          /\ awaiting' = [awaiting EXCEPT ![at[r]] = "SUGGEST"]
       \/ /\ Moves(r, "await-reject", "done")
          /\ awaiting' = [awaiting EXCEPT ![at[r]] = "REJECT"]
    /\ UNCHANGED <<state, version, text, issued, setting, accepted, boot, clock, at, used,
                   stamp, draftOf, offer, ever, races, faults>>

\* The change reason is written before approvePolicy is called.
WriteReason(r) ==
    /\ There(r)
    /\ \/ Moves(r, "reason", "approve") /\ UNCHANGED awaiting
       \/ /\ Moves(r, "suggest", "approve")
          /\ awaiting' = [awaiting EXCEPT ![at[r]] = "none"]
    /\ UNCHANGED <<state, version, text, issued, setting, accepted, boot, clock, at, used,
                   stamp, draftOf, offer, ever, races, faults>>

\* approvePolicy reads the row, without asking whether it is still a draft, and takes
\* publishedAt from the clock before the transaction starts.
ReadForApproval(r) ==
    /\ There(r) /\ Moves(r, "approve", "commit")
    /\ stamp' = [stamp EXCEPT ![r] = clock + 1]
    /\ clock' = clock + 1
    /\ races' = IF Between(r, {"commit"}) THEN races \cup {"approvals"} ELSE races
    /\ UNCHANGED <<row, setting, accepted, boot, at, used, draftOf, offer, ever, faults>>

\* Mutant of Retired: retiring the other documents of the type un-approves them.
RetiredAll(r) == [d \in Doc |-> IF d = at[r] THEN "approved"
                                ELSE IF state[d] = "approved" THEN "draft" ELSE state[d]]

\* The transaction's first update matches only rows that are already not approved.
Retired(r) == [state EXCEPT ![at[r]] = "approved"]

\* Mutant of PublicVersion: count the publications instead of naming the row's version.
BumpedVersion(r) == Published + 1

PublicVersion(r) == version[at[r]]

\* The transaction: retire, approve, and move the public version.
Publish(r) ==
    /\ There(r) /\ Moves(r, "commit", "done")
    /\ state' = Retired(r)
    /\ issued' = [issued EXCEPT ![at[r]] = stamp[r]]
    /\ setting' = PublicVersion(r)
    /\ ever' = ever \cup {PublicVersion(r)}
    /\ stamp' = [stamp EXCEPT ![r] = 0]
    /\ UNCHANGED <<version, text, awaiting, accepted, boot, clock, at, used, draftOf, offer,
                   races, faults>>

\* A write by id found no row.
RowGone(r) ==
    /\ pc[r] \in {"edit", "reason", "suggest", "approve", "commit", "await-suggest", "await-reject",
                  "delete"}
    /\ ~There(r)
    /\ pc' = [pc EXCEPT ![r] = "done"]
    /\ stamp' = [stamp EXCEPT ![r] = 0]
    /\ UNCHANGED <<row, setting, accepted, boot, clock, at, used, draftOf, offer, ever, races, faults>>

-----------------------------------------------------------------------------
\* Consent

\* POST /register reads the published version and creates the account with it.
Register(u) ==
    /\ boot = "up" /\ accepted[u] = NoVersion /\ offer[u] = NoVersion
    /\ \E v \in Readable : ReadVersion(v) /\ offer' = [offer EXCEPT ![u] = v]
    /\ UNCHANGED <<row, setting, accepted, boot, clock, local, ever, races>>

\* Mutant of Acceptable: the version the client sends is not compared.
AnyVersion(sent, published) == TRUE

\* POST /accept-terms takes only the version published at that moment.
Acceptable(sent, published) == sent = published

\* The client sends the version it was shown, possibly long ago.
AcceptTerms(u) ==
    /\ boot = "up" /\ accepted[u] # NoVersion /\ offer[u] = NoVersion
    /\ \E sent \in {TemplateVersion} \cup Versions(Rows), v \in Readable :
          /\ ReadVersion(v) /\ Acceptable(sent, v)
          /\ offer' = [offer EXCEPT ![u] = sent]
    /\ UNCHANGED <<row, setting, accepted, boot, clock, local, ever, races>>

RecordConsent(u) ==
    /\ offer[u] # NoVersion
    /\ accepted' = [accepted EXCEPT ![u] = offer[u]]
    /\ offer' = [offer EXCEPT ![u] = NoVersion]
    /\ UNCHANGED <<row, setting, boot, clock, local, ever, races, faults>>

-----------------------------------------------------------------------------
\* Faults

\* A database call of a handler throws and nothing was written.
Throws(r) ==
    /\ pc[r] \notin {"idle", "done"} /\ Fault
    /\ pc' = [pc EXCEPT ![r] = "done"]
    /\ stamp' = [stamp EXCEPT ![r] = 0]
    /\ used' = [used EXCEPT ![r] = {}]
    /\ draftOf' = [draftOf EXCEPT ![r] = Blank]
    /\ UNCHANGED <<row, setting, accepted, boot, clock, at, offer, ever, races>>

\* The process restarts: handlers are lost and startServer runs again.
Crash ==
    /\ Fault
    /\ pc' = [r \in Request |-> IF pc[r] = "idle" THEN "idle" ELSE "done"]
    /\ stamp' = [r \in Request |-> 0]
    /\ used' = [r \in Request |-> {}]
    /\ draftOf' = [r \in Request |-> Blank]
    /\ offer' = [u \in User |-> NoVersion]
    /\ boot' = "baseline"
    /\ races' = IF boot = "label" THEN races \cup {"boot"} ELSE races
    /\ UNCHANGED <<row, setting, accepted, clock, at, ever>>

-----------------------------------------------------------------------------
Boot ==
    \/ BaselineThere \/ LabelBaseline \/ NoDraftDue \/ BootFails
    \/ \E d \in Doc : PublishBaseline(d) \/ SeedDraft(d)

Handle(r) ==
    \/ CheckNoDraft(r) \/ ReadBase(r) \/ ReadTaken(r) \/ ReadPublished(r)
    \/ WriteEdit(r) \/ WriteDelete(r) \/ WriteAwait(r) \/ WriteReason(r)
    \/ ReadForApproval(r) \/ Publish(r) \/ RowGone(r) \/ Throws(r)
    \/ \E d \in Doc : Create(r, d) \/ ReadDraft(r, d)

Consent(u) == Register(u) \/ AcceptTerms(u) \/ RecordConsent(u)

Next ==
    \/ Boot \/ Crash
    \/ \E r \in Request : Handle(r)
    \/ \E u \in User : Consent(u)

Spec == Init /\ [][Next]_vars

-----------------------------------------------------------------------------
\* Properties

\* A published document stays published: approving another version never takes an
\* approved one back to draft ("Approved versions are kept ... the legal history").
NeverUnpublished ==
    [][\A d \in Doc : state[d] = "approved" => state'[d] \in {"approved", "deleted"}]_vars

\* The version users must accept is the one of the document the public pages serve,
\* unless two approvals were between their clock reading and their commit at once, an
\* approved row was changed, or the startup writes failed half-way.
ServedIsCurrent ==
    boot = "up" /\ races \subseteq {"drafts"} =>
        Served # NoDoc /\ version[Served] = Published

\* A type has one open draft ("an open draft already exists"), unless two requests
\* were between their check and their insert at the same time.
OneOpenDraft == "drafts" \notin races => Cardinality(Drafts) <= 1

\* A type has one open draft ("an open draft already exists", adminPolicies.ts) unless two
\* requests were between their check and their insert at the same time; and every value
\* stays legal.
DraftsSound == TypeOK /\ OneOpenDraft

\* Whatever version is demanded from users, it is the template's or one that a document
\* was published under, even if that document has been deleted since.
SettingNamesAPublication ==
    setting \in {NoVersion, TemplateVersion} \cup {version[d] : d \in {e \in Doc : issued[e] > 0}}

\* A recorded consent names a version that was published when the request checked it:
\* nobody is on record for a version that was only a draft.
ConsentWasPublished == \A u \in User : accepted[u] \in ever \cup {NoVersion}

\* "Approved versions are kept forever (they are the legal history)."
\* A claim the code does not keep (README, Disagreements).
HistoryKept ==
    [][\A d \in Doc : state[d] = "approved" => state'[d] = "approved" /\ text'[d] = text[d]]_vars

\* "`current` marks the approved version that is live right now": the document whose
\* version is the published one is the document the public pages serve.
\* A claim the code does not keep (README, Disagreements).
CurrentIsServed ==
    boot = "up" /\ (\A r \in Request : pc[r] # "commit") =>
        \A d \in Approved : version[d] = Published => d = Served

=============================================================================
