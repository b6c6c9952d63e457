---------------------------- MODULE SiteSettings ----------------------------
(***************************************************************************)
(* The editable rows of the site and the forms that edit them: settings    *)
(* (PUT /api/admin/settings saves every row in one transaction and asks    *)
(* for a policy review when an important one changed), content blocks (one *)
(* PUT for each block) and banner slots (several content rows, written one *)
(* at a time), with two administrators at work, and backups of the rows    *)
(* and their restoration (server/src/routes/admin.ts, client/src/          *)
(* components/admin/general-settings-tab, content-blocks-tab,              *)
(* banners-page).                                                          *)
(*                                                                         *)
(* The three families of rows do not overlap: a behaviour is about one of  *)
(* them.  A value is a model value; not every value is stored as typed     *)
(* (sanitizeContentValue, the trimmed settings, feed.every).  Labels and   *)
(* the audit, which never throws, are left out.                            *)
(***************************************************************************)
EXTENDS Naturals, FiniteSets

CONSTANTS Editor, Key, Value, None,
          Tabs,       \* a partition of the rows: what one save button of the banner page covers
          Unfit, Fit, \* rows with a value they do not keep, and what is kept instead
          Numeric,    \* the banner rows the page corrects, not the server: feed.every
          Important,  \* IMPORTANT_SETTING_KEYS
          Kinds,      \* the families of rows looked at: "settings", "content", "banners"
          MaxEdits, MaxSaves, MaxFaults

RowsAssumption == /\ Important \subseteq Key /\ Tabs \subseteq SUBSET Key
                  /\ Fit \in Value /\ \A k \in Key : <<k, Fit>> \notin Unfit
                  /\ None \notin Editor

VARIABLES kind,
          table,      \* the rows as stored
          backup,     \* a snapshot of them, or None
          draft,      \* what an editor's form shows
          saved,      \* what the form believes to be stored
          job,        \* the save or load a form waits for; None's: a save no form waits for any more
          slipped,    \* important rows stored anew and in no review since
          overtaken,  \* rows written between another save's comparison and its transaction
          lost,       \* important rows whose review was lost, and those a restore changed
          excused,    \* rows of a form that may differ from the table unnoticed
          edits, saves, faults

vars == <<kind, table, backup, draft, saved, job, slipped, overtaken, lost, excused, edits,
          saves, faults>>
history == <<slipped, overtaken, lost>>
bounds == <<edits, saves, faults>>

Idle == [phase |-> "idle"]
Requester == Editor \cup {None}

\* Trimmed, sanitised, or the default: what a row keeps of a value.
Kept(k, v) == IF <<k, v>> \in Unfit THEN Fit ELSE v

\* The page's part of it, and the server's (of what it stores, serves and restores).
Sent(k, v) == IF kind = "settings" \/ (kind = "banners" /\ k \in Numeric) THEN Kept(k, v) ELSE v
Sanitised(k, v) == IF kind = "banners" /\ k \notin Numeric THEN Kept(k, v) ELSE v

\* Rows of an older version may hold any value.
Init == /\ kind \in Kinds
        /\ \E v \in Value : table = [k \in Key |-> v]
        /\ backup = None
        /\ draft = [e \in Editor |-> [k \in Key |-> Sanitised(k, table[k])]]
        /\ saved = draft
        /\ job = [r \in Requester |-> Idle]
        /\ slipped = {} /\ overtaken = {} /\ lost = {}
        /\ excused = [e \in Editor |-> {}]
        /\ edits = 0 /\ saves = 0 /\ faults = 0

\* A field of a form changes (setValues, patch): also while a request runs.
Type(e) == /\ edits < MaxEdits
           /\ \E k \in Key, v \in Value : draft' = [draft EXCEPT ![e][k] = v] /\ draft' # draft
           /\ edits' = edits + 1
           /\ UNCHANGED <<kind, table, backup, saved, job, history, excused, saves, faults>>

\* Rows that other forms show as saved and that are about to change under them.
Rewritten(others, new) ==
    [e \in Editor |-> excused[e] \cup {k \in Key : e \in others /\ new[k] # table[k]}]

\* Saves that have compared their rows already, overtaken by another write.
Overtakes(others, new) == {k \in Key : /\ new[k] # table[k]
                                       /\ \E r \in others : job[r].phase = "compared"}

\* Important settings that are about to change.
Altered(new) == {k \in Important : kind = "settings" /\ new[k] # table[k]}

-----------------------------------------------------------------------------
(* Saving.  The form sends what it shows at that moment.                   *)
Send(e, rows) == /\ job[e] = Idle /\ saves < MaxSaves
                 /\ job' = [job EXCEPT ![e] = [phase |-> "sent", rows |-> rows, sent |-> draft[e],
                                               changed |-> {}]]
                 /\ saves' = saves + 1
                 /\ UNCHANGED <<kind, table, backup, draft, saved, history, excused, edits, faults>>

\* A tab of the banner page shows no unsaved change.
Clean(e, rows) == \A k \in rows : draft[e][k] = saved[e][k]

Save(e) == \/ kind = "settings" /\ Send(e, Key)
           \/ kind = "content" /\ \E k \in Key : Send(e, {k})
           \/ kind = "banners" /\ \E rows \in Tabs : ~Clean(e, rows) /\ Send(e, rows)

\* PUT /settings: the important rows that differ from the stored ones.
ChangedOnForm(r) == {k \in Important : \A e \in Editor : saved[e][k] # Sent(k, job[r].sent[k])}
Changed(r) == {k \in Important : table[k] # Sent(k, job[r].sent[k])}
Compare(r) == /\ kind = "settings" /\ job[r].phase = "sent"
              /\ job' = [job EXCEPT ![r].phase = "compared", ![r].changed = Changed(r)]
              /\ UNCHANGED <<kind, table, backup, draft, saved, history, excused, bounds>>

\* The rows a write stores: the transaction of all settings, or one content row.
Stored(r, rows) == [k \in Key |-> IF k \in rows THEN Sanitised(k, Sent(k, job[r].sent[k]))
                                 ELSE table[k]]

Put(r, rows, phase) ==
    LET new == Stored(r, rows) IN
    /\ table' = new
    /\ job' = [job EXCEPT ![r].phase = phase, ![r].rows = @ \ rows]
    /\ slipped' = slipped \cup Altered(new)
    /\ overtaken' = overtaken \cup Overtakes(Requester \ {r}, new)
    /\ excused' = Rewritten(Requester \ {r}, new)
    /\ UNCHANGED <<kind, backup, draft, saved, lost, bounds>>

\* The settings are upserted in one transaction.
WriteSettings(r) == job[r].phase = "compared" /\ Put(r, Key, "written")

\* PUT /content/:key, once for each row that is left.
WriteBlock(r) == /\ kind # "settings" /\ job[r].phase = "sent"
                 /\ \E k \in job[r].rows : Put(r, {k}, IF job[r].rows = {k} THEN "done" ELSE "sent")

\* runPolicyImpactReview names the rows found to have changed; it never
\* throws, and an error in it is swallowed.
Review(r) == /\ job[r].phase = "written"
             /\ job' = [job EXCEPT ![r].phase = "done"]
             /\ \/ /\ slipped' = slipped \ job[r].changed
                   /\ UNCHANGED <<lost, faults>>
                \/ /\ faults < MaxFaults /\ faults' = faults + 1
                   /\ lost' = lost \cup job[r].changed
                   /\ UNCHANGED slipped
             /\ UNCHANGED <<kind, table, backup, draft, saved, overtaken, excused, edits, saves>>

\* Rows that are stored otherwise than a form has them.
Astray(form) == {k \in Key : Kept(k, table[k]) # Kept(k, form[k])}

\* The banner page takes the drafts of all tabs for saved, those of the tabs
\* whose button was not pressed too; the other forms load the rows again.
Answer(e) ==
    /\ job[e].phase = "done"
    /\ IF kind = "banners"
       THEN /\ saved' = [saved EXCEPT ![e] = job[e].sent]
            /\ excused' = [excused EXCEPT ![e] = Astray(job[e].sent)]
            /\ job' = [job EXCEPT ![e] = Idle]
       ELSE job' = [job EXCEPT ![e] = [phase |-> "load"]] /\ UNCHANGED <<saved, excused>>
    /\ UNCHANGED <<kind, table, backup, draft, history, bounds>>

\* The form stays as it is: what was written stays written.
FormFails(e) == /\ faults < MaxFaults
                /\ faults' = faults + 1
                /\ excused' = [excused EXCEPT ![e] = Astray(saved[e])]
                /\ UNCHANGED <<kind, table, backup, draft, saved, slipped, overtaken, edits, saves>>

\* The request or its answer is lost, or the server stops, before or after
\* the transaction, which the review comes after.
Fail(e) == /\ job[e].phase \in {"sent", "compared", "written", "done"}
           /\ job' = [job EXCEPT ![e] = Idle]
           /\ lost' = IF job[e].phase = "written" THEN lost \cup job[e].changed ELSE lost
           /\ FormFails(e)

\* The form gives a request up after 15 s (api.ts); the server goes on with it.
GiveUp(e) == /\ job[e].phase \in {"sent", "compared", "written"} /\ job[None] = Idle
             /\ \E rows \in {{k} : k \in job[e].rows} \cup {job[e].rows} :
                  /\ kind # "settings" => \E k \in Key : rows = {k}
                  /\ job' = [job EXCEPT ![e] = Idle, ![None] = [job[e] EXCEPT !.rows = rows]]
             /\ FormFails(e) /\ UNCHANGED lost

Unheard == /\ job[None].phase = "done"
           /\ job' = [job EXCEPT ![None] = Idle]
           /\ UNCHANGED <<kind, table, backup, draft, saved, history, excused, bounds>>

\* load(): the form is filled anew, whatever was typed in other fields.
Reload(e) == /\ job[e] = Idle /\ saves < MaxSaves
             /\ job' = [job EXCEPT ![e] = [phase |-> "load"]]
             /\ saves' = saves + 1
             /\ UNCHANGED <<kind, table, backup, draft, saved, history, excused, edits, faults>>

LoadReads(e) == /\ job[e].phase = "load"
                /\ job' = [job EXCEPT ![e] = [phase |-> "loaded",
                                                  sent |-> [k \in Key |-> Sanitised(k, table[k])]]]
                /\ excused' = [excused EXCEPT ![e] = {}]
                /\ UNCHANGED <<kind, table, backup, draft, saved, history, bounds>>

LoadAnswers(e) == /\ job[e].phase = "loaded"
                  /\ draft' = [draft EXCEPT ![e] = job[e].sent]
                  /\ saved' = [saved EXCEPT ![e] = job[e].sent]
                  /\ job' = [job EXCEPT ![e] = Idle]
                  /\ UNCHANGED <<kind, table, backup, history, excused, bounds>>

-----------------------------------------------------------------------------
(* Backups.                                                                *)
CreateBackup == /\ backup = None
                /\ backup' = table
                /\ UNCHANGED <<kind, table, draft, saved, job, history, excused, bounds>>

\* One transaction upserts every row of the snapshot; nothing is reviewed.
Restore == LET new == [k \in Key |-> Sanitised(k, backup[k])] IN
           /\ backup # None /\ new # table
           /\ table' = new
           /\ slipped' = slipped \cup Altered(new)
           /\ lost' = lost \cup Altered(new)
           /\ overtaken' = overtaken \cup Overtakes(Requester, new)
           /\ excused' = Rewritten(Requester, new)
           /\ UNCHANGED <<kind, backup, draft, saved, job, bounds>>

DeleteBackup == /\ backup # None
                /\ backup' = None
                /\ UNCHANGED <<kind, table, draft, saved, job, history, excused, bounds>>

Next == \/ \E e \in Editor : \/ Type(e) \/ Save(e) \/ Answer(e) \/ Fail(e) \/ GiveUp(e)
                             \/ Reload(e) \/ LoadReads(e) \/ LoadAnswers(e)
        \/ \E r \in Requester : Compare(r) \/ WriteSettings(r) \/ WriteBlock(r) \/ Review(r)
        \/ Unheard \/ CreateBackup \/ Restore \/ DeleteBackup

Spec == Init /\ [][Next]_vars

-----------------------------------------------------------------------------
TypeOK == /\ table \in [Key -> Value]
          /\ backup \in [Key -> Value] \cup {None}
          /\ draft \in [Editor -> [Key -> Value]] /\ saved \in [Editor -> [Key -> Value]]
          /\ \A r \in Requester : job[r].phase \in {"idle", "sent", "compared", "written", "done",
                                                 "load", "loaded"}

(***************************************************************************)
(* A save takes effect at once; the review that follows it prepares the    *)
(* policy draft that names what changed.  Every important setting stored   *)
(* anew is named in a review that has run or that a running request has    *)
(* yet to make, unless another write came between the comparison and the   *)
(* transaction of the save that changed it, its review was lost (the       *)
(* server stopped, or runPolicyImpactReview swallowed an error) or the row *)
(* was restored: the comparison reads the table, not the form, which may   *)
(* be old (PUT /settings, admin.ts).                                       *)
(***************************************************************************)
Reviewing == UNION {job[r].changed : r \in {x \in Requester : job[x].phase = "written"}}
ReviewExplained == slipped \subseteq Reviewing \cup overtaken \cup lost

(***************************************************************************)
(* A banner tab that says all its changes are saved shows what is stored,  *)
(* or what it is stored as (a value the server or the page corrects stays  *)
(* on the form as typed), unless another administrator, a restore or a     *)
(* request it gave up wrote since, a save failed half way, or the save of  *)
(* another tab took its draft for saved.                                   *)
(***************************************************************************)
CleanExplained ==
    kind = "banners" =>
      \A e \in Editor, rows \in Tabs : job[e] = Idle /\ Clean(e, rows) =>
        \A k \in rows : Kept(k, draft[e][k]) # Kept(k, table[k]) => k \in excused[e]

(***************************************************************************)
(* "Barcha o'zgarishlar saqlangan" (banners-page.tsx:247): with one        *)
(* administrator, no restore and no failure, a tab that says so is stored  *)
(* as shown.                                                               *)
(* A claim the code does not keep (README, Disagreements).                 *)
(***************************************************************************)
SavedMeansStored ==
    kind = "banners" =>
      \A e \in Editor, rows \in Tabs : job[e] = Idle /\ Clean(e, rows) /\ backup = None =>
        \A k \in rows : Kept(k, draft[e][k]) = Kept(k, table[k])
=============================================================================
