----------------------------- MODULE ProfilePage -----------------------------
(***************************************************************************)
(* Two tabs of the profile (client/src/app/profile/page.tsx): the form     *)
(* that composes a quote, with the analysis of its text and the submission *)
(* (client/src/components/QuoteForm.tsx), and the member's collections     *)
(* (CollectionsTab).  Every button starts a request whose answer is applied*)
(* to whatever the tab shows by then; leaving a tab forgets its state.     *)
(***************************************************************************)
EXTENDS Naturals, FiniteSets, Sequences, TLC

CONSTANTS Text, Blank,  \* texts of a quote
          Tag,          \* its hashtags
          Language, Default, \* languages; the one the form starts with
          TagsOf, LanguageOf, \* what the analysis finds in a text
          MaxTags,      \* 5 in the form
          Col,          \* collections the member may own
          None,
          MaxClicks,    \* bound on what the member does
          MaxFaults     \* bound on failed and lost requests, and on changes from another tab

AnalysisAssumption == /\ Default \in Language /\ LanguageOf \in [Text -> Language]
                      /\ TagsOf \in [Text -> SUBSET Tag] /\ IsFiniteSet(Tag)
                      /\ MaxTags \in Nat

VARIABLES tab,
          text, tags, locale, touched,  \* the draft
          result,      \* the analysis shown: the text it is of, or None
          analyzing,   \* the analysis under way, or None
          submitting,  \* the submission under way, or None
          drafts,      \* how many drafts the form has submitted
          chosen,      \* the language the author chose, or None
          crossed,     \* what an analysis overtook: "draft", "language"
          rows,        \* the stored collections: None, "private" or "public"
          shown,       \* the entries the tab lists for each, newest first: more than one is a duplicate
          jobs,        \* the requests of the tab
          excused,     \* collections changed behind the back of the tab
          clicks, faults

draft == <<text, tags, locale, touched>>
form == <<draft, result, analyzing, submitting, drafts, chosen, crossed>>
collections == <<shown, jobs, excused>>
bounds == <<clicks, faults>>
vars == <<tab, form, rows, collections, bounds>>

NoRows == [c \in Col |-> None]
NoEntries == [c \in Col |-> <<>>]
Entry(row) == IF row = None THEN <<>> ELSE <<row>>

Init == /\ tab = "quotes"
        /\ text = Blank /\ tags = {} /\ locale = Default /\ touched = FALSE
        /\ result = None /\ analyzing = None /\ submitting = None
        /\ drafts = 0 /\ chosen = None /\ crossed = {}
        /\ rows = NoRows /\ shown = NoEntries /\ jobs = {} /\ excused = {}
        /\ clicks = 0 /\ faults = 0

Click(where) == tab = where /\ clicks < MaxClicks /\ clicks' = clicks + 1 /\ UNCHANGED <<tab, faults>>
Fault == faults < MaxFaults /\ faults' = faults + 1 /\ UNCHANGED <<tab, clicks>>
Answer == UNCHANGED <<tab, bounds>>

-----------------------------------------------------------------------------
(* The form.  A tag remembers the draft it was meant for.                  *)
Names(ts) == {t.name : t \in ts}
Meant(name, d) == [name |-> name, draft |-> d]

Type(x) == /\ Click("quotes") /\ text' = x /\ result' = None
           /\ UNCHANGED <<tags, locale, touched, analyzing, submitting, drafts, chosen, crossed>>
AddTag(t) == /\ Click("quotes") /\ t \notin Names(tags) /\ Cardinality(tags) < MaxTags
             /\ tags' = tags \cup {Meant(t, drafts)}
             /\ UNCHANGED <<text, locale, touched, result, analyzing, submitting, drafts, chosen, crossed>>
RemoveTag(t) == /\ Click("quotes") /\ t \in Names(tags)
                /\ tags' = {u \in tags : u.name # t}
                /\ UNCHANGED <<text, locale, touched, result, analyzing, submitting, drafts, chosen, crossed>>
ChooseLanguage(l) == /\ Click("quotes") /\ locale' = l /\ touched' = TRUE /\ chosen' = l
                     /\ crossed' = crossed \ {"language"}
                     /\ UNCHANGED <<text, tags, result, analyzing, submitting, drafts>>

\* The handler keeps the localeTouched of the render it was clicked in.
Analyze == /\ Click("quotes") /\ text # Blank /\ analyzing = None
           /\ analyzing' = [text |-> text, touched |-> touched, draft |-> drafts]
           /\ UNCHANGED <<draft, result, submitting, drafts, chosen, crossed>>

\* The tags found are added to those of the form, up to the limit.
Filled(ts, found, d) ==
    {ts \cup {Meant(t, d) : t \in new} : new \in
        {n \in SUBSET (found \ Names(ts)) : Cardinality(n) <= MaxTags - Cardinality(ts)
                     /\ (n = found \ Names(ts) \/ Cardinality(n) = MaxTags - Cardinality(ts))}}
DetectsAlways(a) == LanguageOf[a.text]
Detected(a) == IF a.touched THEN locale ELSE LanguageOf[a.text]
Analyzed ==
    /\ analyzing # None /\ Answer
    /\ result' = analyzing.text
    /\ tags' \in Filled(tags, TagsOf[analyzing.text], analyzing.draft)
    /\ locale' = Detected(analyzing)
    /\ crossed' = crossed \cup (IF analyzing.draft # drafts THEN {"draft"} ELSE {})
                          \cup (IF touched /\ ~analyzing.touched THEN {"language"} ELSE {})
    /\ analyzing' = None
    /\ UNCHANGED <<text, touched, submitting, drafts, chosen>>
AnalysisFails == /\ analyzing # None /\ Fault /\ analyzing' = None
                 /\ UNCHANGED <<draft, result, submitting, drafts, chosen, crossed>>

Submit == /\ Click("quotes") /\ text # Blank /\ submitting = None
          /\ submitting' = [text |-> text, tags |-> Names(tags), locale |-> locale]
          /\ UNCHANGED <<draft, result, analyzing, drafts, chosen, crossed>>

\* The form is emptied, with whatever was typed meanwhile; the language stays.
KeptTags(ts) == ts
Emptied(ts) == {}
Submitted == /\ submitting # None /\ Answer
             /\ text' = Blank /\ tags' = Emptied(tags) /\ result' = None
             /\ submitting' = None /\ drafts' = drafts + 1
             /\ crossed' = crossed \ {"draft"}
             /\ UNCHANGED <<locale, touched, analyzing, chosen>>
SubmissionFails == /\ submitting # None /\ Fault /\ submitting' = None
                   /\ UNCHANGED <<draft, result, analyzing, drafts, chosen, crossed>>

-----------------------------------------------------------------------------
(* The collections.                                                        *)
Job(kind, c, next) == [kind |-> kind, col |-> c, next |-> next, stage |-> "sent",
                       base |-> shown, seen |-> NoRows]
Waits(kinds) == \E j \in jobs : j.kind \in kinds /\ j.stage # "left"

\* An id nothing in the tab knows yet.
Fresh(c) == rows[c] = None /\ shown[c] = <<>> /\ \A j \in jobs : j.col # c /\ j.seen[c] = None
Create(c, privacy) == /\ Click("collections") /\ ~Waits({"create"}) /\ Fresh(c)
                      /\ jobs' = jobs \cup {Job("create", c, privacy)}
                      /\ excused' = excused \cup (IF Waits({"load"}) THEN {c} ELSE {})
                      /\ UNCHANGED shown
Other(privacy) == IF privacy = "private" THEN "public" ELSE "private"
TogglePrivate(c) == /\ Click("collections") /\ ~Waits({"patch", "delete"})
                    /\ \E i \in DOMAIN shown[c] : jobs' = jobs \cup {Job("patch", c, Other(shown[c][i]))}
                    /\ UNCHANGED <<shown, excused>>
Delete(c) == /\ Click("collections") /\ ~Waits({"patch", "delete"}) /\ shown[c] # <<>>
             /\ jobs' = jobs \cup {Job("delete", c, None)}
             /\ UNCHANGED <<shown, excused>>

\* The server: a collection that is gone refuses.
Gone(j) == j.kind \in {"patch", "delete"} /\ rows[j.col] = None
Carried(j) == IF j.kind = "load" \/ Gone(j) THEN rows ELSE [rows EXCEPT ![j.col] = j.next]
Serve(j) ==
    /\ j \in jobs /\ j.stage = "sent"
    /\ rows' = Carried(j)
    /\ jobs' = (jobs \ {j}) \cup {[j EXCEPT !.stage = IF Gone(j) THEN "refused" ELSE "served",
                                            !.seen = Carried(j)]}
    /\ UNCHANGED <<shown, excused>> /\ Answer

\* A request of a tab that was left; it may have been opened again meanwhile.
ServeLeft(j) == /\ j \in jobs /\ j.stage = "left"
                /\ rows' = Carried(j)
                /\ jobs' = jobs \ {j}
                /\ excused' = excused \cup (IF tab = "collections" THEN {j.col} ELSE {})
                /\ UNCHANGED shown /\ Answer

\* Answers change the list as it is by then, except that a load replaces it.
FromClosure(now, base) == base
Previous(now, base) == now
Answered(j) == CASE j.kind = "load"   -> [c \in Col |-> Entry(j.seen[c])]
                 [] j.kind = "create" -> [Previous(shown, j.base) EXCEPT ![j.col] = <<j.next>> \o @]
                 [] j.kind = "patch"  -> [shown EXCEPT ![j.col] = [i \in DOMAIN @ |-> j.next]]
                 [] j.kind = "delete" -> [shown EXCEPT ![j.col] = <<>>]
Apply(j) ==
    /\ j \in jobs
    /\ \/ j.stage = "refused" /\ UNCHANGED shown
       \/ j.stage = "served" /\ shown' = Answered(j)
    /\ jobs' = jobs \ {j}
    /\ UNCHANGED excused /\ Answer

\* The answer does not arrive; a load that fails lists nothing.
LoseAnswer(j) ==
    /\ j \in jobs /\ j.stage \in {"served", "refused"} /\ Fault
    /\ jobs' = jobs \ {j}
    /\ shown' = IF j.kind = "load" THEN NoEntries ELSE shown
    /\ excused' = excused \cup (IF j.kind = "load" THEN Col ELSE {j.col})

\* Another tab of the member deletes or changes a collection.
Elsewhere(c) == /\ Fault /\ rows[c] # None
                /\ rows' \in {[rows EXCEPT ![c] = None], [rows EXCEPT ![c] = Other(@)]}
                /\ excused' = excused \cup {c}
                /\ UNCHANGED <<shown, jobs>>

-----------------------------------------------------------------------------
(* Changing the tab mounts it afresh; the answers of its requests find nobody. *)
OpenQuotes == /\ tab = "collections" /\ clicks < MaxClicks
              /\ tab' = "quotes" /\ clicks' = clicks + 1 /\ UNCHANGED <<form, rows, faults>>
              /\ jobs' = {[j EXCEPT !.stage = "left"] : j \in {i \in jobs : i.stage = "sent" /\ i.kind # "load"}}
              /\ shown' = NoEntries /\ excused' = {}
OpenCollections ==
    /\ tab = "quotes" /\ clicks < MaxClicks
    /\ tab' = "collections" /\ clicks' = clicks + 1 /\ UNCHANGED <<rows, faults>>
    /\ text' = Blank /\ tags' = {} /\ locale' = Default /\ touched' = FALSE
    /\ result' = None /\ analyzing' = None /\ submitting' = None
    /\ drafts' = 0 /\ chosen' = None /\ crossed' = {}
    /\ jobs' = jobs \cup {Job("load", None, None)} /\ UNCHANGED <<shown, excused>>

OnForm == \/ \E x \in Text : Type(x)
          \/ \E t \in Tag : AddTag(t) \/ RemoveTag(t)
          \/ \E l \in Language : ChooseLanguage(l)
          \/ Analyze \/ Analyzed \/ AnalysisFails \/ Submit \/ Submitted \/ SubmissionFails
OnCollections == \/ \E c \in Col : TogglePrivate(c) \/ Delete(c)
                                   \/ (\E p \in {"private", "public"} : Create(c, p))
                 \/ \E j \in jobs : Apply(j) \/ LoseAnswer(j)
Next == \/ OnForm /\ UNCHANGED <<rows, collections>>
        \/ OnCollections /\ UNCHANGED <<form, rows>>
        \/ (\E j \in jobs : Serve(j) \/ ServeLeft(j)) /\ UNCHANGED form
        \/ (\E c \in Col : Elsewhere(c)) /\ UNCHANGED form
        \/ OpenQuotes \/ OpenCollections

Spec == Init /\ [][Next]_vars

-----------------------------------------------------------------------------
TypeOK == /\ tab \in {"quotes", "collections"}
          /\ text \in Text \cup {Blank} /\ Names(tags) \subseteq Tag
          /\ Cardinality(tags) <= MaxTags /\ Cardinality(Names(tags)) = Cardinality(tags)
          /\ locale \in Language /\ result \in Text \cup {None}
          /\ \A c \in Col : rows[c] \in {None, "private", "public"} /\ shown[c] \in Seq({"private", "public"})

(* The hashtags in the form are meant for the quote being composed: those of  *)
(* the one before are gone with it, unless its analysis was answered after it *)
(* had been submitted (QuoteForm.tsx:191-255).                                *)
TagsOfDraft == \A t \in tags : t.draft = drafts \/ "draft" \in crossed

(* The language the author has chosen is the one submitted, whatever the   *)
(* analysis detects, unless it was chosen while that analysis was running: *)
(* the handler decides on an old localeTouched (QuoteForm.tsx:218).        *)
ChosenLanguageKept == chosen # None => locale = chosen \/ "language" \in crossed

(* Once nothing is under way the tab lists each collection the server has,   *)
(* once, in whatever order the requests were answered.  Excused are those    *)
(* created while the list was loading (listed twice, or not at all), changed *)
(* elsewhere, or whose answer was lost (profile/page.tsx:338-411).           *)
ListExplained == tab = "collections" /\ jobs = {} =>
                     \A c \in Col : shown[c] = Entry(rows[c]) \/ c \in excused
=============================================================================
