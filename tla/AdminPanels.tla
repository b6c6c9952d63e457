---------------------------- MODULE AdminPanels ----------------------------
(***************************************************************************)
(* The list panels of the admin console (client/src/components/admin and   *)
(* client/src/app/admin): each loads a list for the chosen filter, runs    *)
(* operations on its rows and loads the list again, with several requests  *)
(* in flight and nothing that orders their answers.                        *)
(*                                                                         *)
(* One panel is open.  What the panels differ in is a record: whether a    *)
(* filter (tab, search, status, page) selects the rows, whether the list   *)
(* is made of two reads, whether the list comes from the cached reads of   *)
(* the public site (ReadCache), whether loading raises the busy flag, and  *)
(* which operations it offers.  Rows are told apart by the filter that     *)
(* finds them.  Wording, pagination sizes and the layout are left out.     *)
(***************************************************************************)
EXTENDS Naturals, FiniteSets

CONSTANTS Row, Filter, Request, None,
          MaxIssues,     \* requests the panel sends
          MaxFilters,    \* changes of the filter
          MaxFaults      \* failed requests

PanelsAssumption == Filter # {} /\ None # "up"

VARIABLES panel,   \* the traits of the open panel
          at,      \* server: the filter that finds a row, None when deleted
          clock,   \* server: operations executed
          copy,    \* server: the cached list, None when there is none
          filter,  \* the chosen filter
          timer,   \* a (debounced) load is scheduled
          req,     \* requests in flight
          issued,  \* requests sent so far
          shown,   \* the list on screen
          selected,
          flag,    \* the row (or the panel) each busy flag was raised for
          own,     \* clock of this panel's last executed operation
          excuse,  \* why the list may differ from what the filter asks for
          filters, faults

vars == <<panel, at, clock, copy, filter, timer, req, issued, shown, selected, flag,
          own, excuse, filters, faults>>

-----------------------------------------------------------------------------
(* The operations of the panels: the flags that switch the button off, the *)
(* one the handler raises, its rows, and what follows the answer.          *)
Flag == {"panel", "deleting", "posting", "pinning", "otp"}

edit  == [off |-> {"panel"}, raises |-> "panel", on |-> "row", then |-> "reload"]
create == [edit EXCEPT !.on = "new"]
bulk  == [edit EXCEPT !.on = "selection"]
fetch == [edit EXCEPT !.then = "nothing"]
wipe  == [off |-> {"panel", "deleting"}, raises |-> "deleting", on |-> "row", then |-> "reload"]
post  == [off |-> {"panel", "posting"}, raises |-> "posting", on |-> "row", then |-> "nothing"]
pin   == [off |-> {"panel", "pinning"}, raises |-> "pinning", on |-> "row", then |-> "nothing"]
mail  == [off |-> {"otp"}, raises |-> "otp", on |-> "row", then |-> "start"]

Plain == [filters |-> FALSE, halves |-> FALSE, cached |-> FALSE, flagged |-> TRUE,
          ops |-> {}]

UsersTab         == [Plain EXCEPT !.filters = TRUE, !.ops = {edit, bulk}]
QuotesTab        == [Plain EXCEPT !.filters = TRUE, !.ops = {edit, bulk, wipe, post, pin}]
BannedIps        == [Plain EXCEPT !.ops = {create, edit}]
BannedTelegram   == [Plain EXCEPT !.filters = TRUE, !.ops = {create, edit}]
TrashTab         == [Plain EXCEPT !.halves = TRUE, !.ops = {edit}]
FeedbackTab      == [Plain EXCEPT !.filters = TRUE, !.ops = {edit}]
ActivityTab      == [Plain EXCEPT !.filters = TRUE]
AuditLogsTab     == [Plain EXCEPT !.flagged = FALSE]
CategoriesTab    == [Plain EXCEPT !.cached = TRUE, !.ops = {create, edit}]
HashtagsTab      == [Plain EXCEPT !.filters = TRUE, !.ops = {edit}]
AnnouncementsTab == [Plain EXCEPT !.ops = {create, edit}]
SeoTab           == [Plain EXCEPT !.ops = {create, edit}]
BackupTab        == [Plain EXCEPT !.ops = {create, edit, fetch}]
EmailLogs        == [Plain EXCEPT !.filters = TRUE, !.flagged = FALSE]
ActiveOtps       == [Plain EXCEPT !.flagged = FALSE, !.ops = {mail}]
QuizzesPage      == [Plain EXCEPT !.filters = TRUE, !.flagged = FALSE, !.ops = {edit}]
PoliciesPage     == [Plain EXCEPT !.flagged = FALSE, !.ops = {create, edit}]

Panels == {UsersTab, QuotesTab, BannedIps, BannedTelegram, TrashTab, FeedbackTab,
           ActivityTab, AuditLogsTab, CategoriesTab, HashtagsTab, AnnouncementsTab,
           SeoTab, BackupTab, EmailLogs, ActiveOtps, QuizzesPage, PoliciesPage}

-----------------------------------------------------------------------------
Idle == [phase |-> "idle"]
InFlight == {q \in Request : req[q] # Idle}
Loads == {q \in InFlight : req[q].phase \in {"asked", "read"}}
Settled == InFlight = {} /\ ~timer

\* The filters a load asks the server for: the chosen one, or the whole list.
Wanted == IF panel.filters THEN {filter} ELSE Filter

\* The rows a list request finds in the database, now (GET /users, /quotes, ...).
Found(fs) == {r \in Row : at[r] \in fs}

\* load(): one GET, or the two lists of the trash, of which either is read first.
Load(q, fs, of) == [phase |-> "asked", by |-> fs, left |-> fs, rows |-> {}, time |-> clock,
                    of |-> of, n |-> issued + 1, alone |-> InFlight \subseteq {q},
                    missed |-> FALSE]

\* setBusy(true) when a load begins, setBusy(false) in its finally.
Raised(f) == IF panel.flagged THEN [f EXCEPT !["panel"] = "up"] ELSE f
LoweredAlways(f) == [f EXCEPT !["panel"] = None]
Lowered(f) == IF panel.flagged THEN [f EXCEPT !["panel"] = None] ELSE f

Init == /\ panel \in Panels
        /\ at \in [Row -> Filter \cup {None}]
        /\ clock = 0
        /\ copy = None
        /\ filter = CHOOSE f \in Filter : TRUE
        /\ timer = TRUE                          \* the effect of the first render
        /\ req = [q \in Request |-> Idle]
        /\ issued = 0
        /\ shown = [by |-> {}, rows |-> {}, time |-> 0, n |-> 0]
        /\ selected = {}
        /\ flag = [f \in Flag |-> None]
        /\ own = 0
        /\ excuse = {}
        /\ filters = 0 /\ faults = 0

\* The filter changes: the effect clears the pending timer and sets one anew.
ChooseFilter == /\ panel.filters /\ filters < MaxFilters
                /\ \E f \in Filter \ {filter} : filter' = f
                /\ timer' = TRUE
                /\ filters' = filters + 1
                /\ UNCHANGED <<panel, at, clock, copy, req, issued, shown, selected, flag, own,
                               excuse, faults>>

\* The timer fires: load() for the filter of that render.
StartLoad(q) == /\ timer /\ req[q] = Idle /\ issued < MaxIssues
                /\ timer' = FALSE
                /\ issued' = issued + 1
                /\ req' = [req EXCEPT ![q] = Load(q, Wanted, None)]
                /\ flag' = Raised(flag)
                /\ UNCHANGED <<panel, at, clock, copy, filter, shown, selected, own, excuse,
                               filters, faults>>

\* A row's checkbox.
Toggle(r) == /\ bulk \in panel.ops /\ r \in shown.rows
             /\ selected' = IF r \in selected THEN selected \ {r} ELSE selected \cup {r}
             /\ UNCHANGED <<panel, at, clock, copy, filter, timer, req, issued, shown, flag, own,
                            excuse, filters, faults>>

\* The rows an operation is offered for.
Targets(op) == CASE op.on = "row" -> {{r} : r \in shown.rows}
                 [] op.on = "new" -> {{}}
                 [] op.on = "selection" -> {selected} \ {{}}

\* Is the button on?  The panel's flag switches off every row, the others one row.
Enabled(op, rs) == /\ "panel" \in op.off => flag["panel"] = None
                   /\ \A f \in op.off \ {"panel"} : flag[f] \notin rs

Marks(op, rs) == IF op.raises = "panel" THEN "up" ELSE CHOOSE r \in rs : TRUE

\* A handler starts: it raises its flag and sends the request.  The filter
\* it will reload with is the one of the render its button belongs to.
Act(q, op) == /\ op \in panel.ops /\ req[q] = Idle /\ issued < MaxIssues
              /\ \E rs \in Targets(op) :
                   /\ Enabled(op, rs)
                   /\ req' = [req EXCEPT ![q] = [phase |-> "sent", op |-> op, on |-> rs,
                                                 by |-> Wanted, n |-> issued + 1]]
                   /\ flag' = [flag EXCEPT ![op.raises] = Marks(op, rs)]
              /\ issued' = issued + 1
              /\ UNCHANGED <<panel, at, clock, copy, filter, timer, shown, selected, own, excuse,
                             filters, faults>>

\* What the operation does to the rows: they move to another filter or are
\* deleted; a new row appears; or nothing the filter looks at changes.
Outcomes(op, rs) ==
    IF op.then = "nothing" THEN {at}
    ELSE {a \in [Row -> Filter \cup {None}] :
            \A r \in Row : a[r] # at[r] => (IF op.on = "new" THEN at[r] = None ELSE r \in rs)}

\* The eviction that follows reaches the cached list or misses it: the copy of another
\* process, one stored after it, one in a Redis that is not asked in time (ReadCache).
Survives == IF copy = None THEN {None} ELSE {None, [copy EXCEPT !.missed = TRUE]}

\* The server executes the operation, of a request that is waited for or was given up.
Execute(q) == /\ req[q].phase \in {"sent", "late"}
              /\ at' \in Outcomes(req[q].op, req[q].on)
              /\ clock' = clock + 1
              /\ copy' \in Survives
              /\ own' = IF req[q].op.then = "nothing" THEN own ELSE clock + 1
              /\ req' = IF req[q].phase = "sent" THEN [req EXCEPT ![q].phase = "done"]
                        ELSE [req EXCEPT ![q] = Idle]
              /\ UNCHANGED <<panel, filter, timer, issued, shown, selected, flag, excuse,
                             filters, faults>>

\* The answer arrives.  "reload": the handler awaits load() and lowers its
\* flag after it.  "start": the load runs on its own.  "nothing": the row on
\* screen is patched, the pinned quote or the file is fetched.
AnsweredOnly(q) == [req EXCEPT ![q] = Idle]
Answered(q) == LET a == req[q] IN
    CASE a.op.then = "reload" -> [req EXCEPT ![q] = Load(q, a.by, a.op)]
      [] a.op.then = "start" -> [req EXCEPT ![q] = Load(q, a.by, None)]
      [] a.op.then = "nothing" -> [req EXCEPT ![q] = Idle]

AnswerAct(q) == LET op == req[q].op IN
    /\ req[q].phase = "done"
    /\ req' = Answered(q)
    /\ issued' = IF op.then = "nothing" THEN issued ELSE issued + 1
    /\ selected' = IF op.on = "selection" THEN {} ELSE selected
    /\ flag' = IF op.then = "reload" THEN Raised(flag) ELSE [flag EXCEPT ![op.raises] = None]
    /\ excuse' = IF op.then # "nothing" /\ req[q].by # Wanted THEN excuse \cup {"captured"}
                 ELSE excuse
    /\ UNCHANGED <<panel, at, clock, copy, filter, timer, shown, own, filters, faults>>

\* The operation, or its answer, is lost or comes too late: an error line, no reload.  What
\* was given up after its time limit can still be executed.
ActFails(q) == /\ req[q].phase \in {"sent", "done"} /\ faults < MaxFaults
               /\ \/ req' = [req EXCEPT ![q] = Idle]
                  \/ req[q].phase = "sent" /\ req' = [req EXCEPT ![q].phase = "late"]
               /\ flag' = [flag EXCEPT ![req[q].op.raises] = None]
               /\ excuse' = excuse \cup {"failed"}
               /\ faults' = faults + 1
               /\ UNCHANGED <<panel, at, clock, copy, filter, timer, issued, shown, selected, own,
                              filters>>

\* What a read of the public site leaves in its cache.
Copied == IF panel.cached THEN [rows |-> Found(Filter), time |-> clock, missed |-> FALSE]
          ELSE None

\* A visitor of the public site reads the list.
Visit == /\ panel.cached /\ copy' = Copied
         /\ UNCHANGED <<panel, at, clock, filter, timer, req, issued, shown, selected, flag,
                        own, excuse, filters, faults>>

\* The server reads a list: in one query, or one of the two of the trash.
Read(q) == /\ req[q].phase = "asked"
           /\ \E fs \in IF panel.halves THEN {{f} : f \in req[q].left} ELSE {req[q].left} :
                req' = [req EXCEPT ![q].rows = @ \cup Found(fs),
                                   ![q].left = @ \ fs,
                                   ![q].time = IF req[q].left = req[q].by THEN clock ELSE @,
                                   ![q].phase = IF req[q].left = fs THEN "read" ELSE @]
           /\ copy' \in {copy, Copied}           \* another process keeps its own
           /\ UNCHANGED <<panel, at, clock, filter, timer, issued, shown, selected, flag, own,
                          excuse, filters, faults>>

\* The cache has one: the list as it was.
ReadCopy(q) == /\ copy # None /\ req[q].phase = "asked"
               /\ req' = [req EXCEPT ![q].rows = copy.rows, ![q].left = {},
                                     ![q].time = copy.time, ![q].missed = copy.missed,
                                     ![q].phase = "read"]
               /\ UNCHANGED <<panel, at, clock, copy, filter, timer, issued, shown, selected,
                              flag, own, excuse, filters, faults>>

\* A load that belongs to an operation ends with that operation's finally too.
Finally(q, f) == IF req[q].of = None THEN Lowered(f)
                 ELSE [Lowered(f) EXCEPT ![req[q].of.raises] = None]

\* setQuotes(data.quotes), setSelected(new Set()): the list as answered.
Answer(q) == [by |-> req[q].by, rows |-> req[q].rows, time |-> req[q].time, n |-> req[q].n]
Kept == selected
Cleared == {}

\* The reasons after an answer: all gone when it is the newest request, for
\* the chosen filter, and nothing else was or is under way; but for a copy no
\* eviction reached.
Excused(q) == (IF /\ req[q].n = issued /\ req[q].by = Wanted
                  /\ req[q].alone /\ InFlight = {q} /\ ~timer THEN {}
               ELSE excuse \cup (IF req[q].n < shown.n THEN {"overtaken"} ELSE {}))
              \cup (IF req[q].missed THEN {"cached"} ELSE {})

ApplyLoad(q) == /\ req[q].phase = "read"
                /\ shown' = Answer(q)
                /\ selected' = Cleared
                /\ flag' = Finally(q, flag)
                /\ req' = [req EXCEPT ![q] = Idle]
                /\ excuse' = Excused(q)
                /\ UNCHANGED <<panel, at, clock, copy, filter, timer, issued, own, filters, faults>>

\* The load fails: the old list stays on screen, with an error line.
LoadFails(q) == /\ req[q].phase \in {"asked", "read"} /\ faults < MaxFaults
                /\ flag' = Finally(q, flag)
                /\ req' = [req EXCEPT ![q] = Idle]
                /\ excuse' = excuse \cup {"failed"}
                /\ faults' = faults + 1
                /\ UNCHANGED <<panel, at, clock, copy, filter, timer, issued, shown, selected, own,
                               filters>>

Next == \/ ChooseFilter
        \/ \E r \in Row : Toggle(r)
        \/ \E q \in Request : \/ StartLoad(q)
                              \/ \E op \in panel.ops : Act(q, op)
                              \/ Execute(q) \/ AnswerAct(q) \/ ActFails(q)
                              \/ Read(q) \/ ReadCopy(q) \/ ApplyLoad(q) \/ LoadFails(q)
        \/ Visit

Spec == Init /\ [][Next]_vars

-----------------------------------------------------------------------------
TypeOK == /\ at \in [Row -> Filter \cup {None}]
          /\ filter \in Filter /\ timer \in BOOLEAN
          /\ shown.rows \subseteq Row /\ shown.by \subseteq Filter
          /\ selected \subseteq Row
          /\ flag \in [Flag -> Row \cup {"up", None}]
          /\ own <= clock /\ excuse \subseteq {"captured", "overtaken", "failed", "cached"}

(***************************************************************************)
(* When nothing is in flight, the list on screen is for the chosen filter  *)
(* and was read after the panel's own last operation, unless an answer was *)
(* overtaken by a later request's, a handler reloaded with the filter of   *)
(* an earlier render, a request failed, was lost or was given up and       *)
(* executed later, or the categories came from a cached list that the      *)
(* operation's eviction missed (load and the handlers of every panel: none *)
(* of them numbers its requests).                                          *)
(***************************************************************************)
ListExplained ==
    Settled /\ issued > 0 /\ excuse = {} => shown.by = Wanted /\ shown.time >= own

(***************************************************************************)
(* What is selected is on screen, and a bulk operation that was started    *)
(* acts on rows that were on screen when its button was pressed: a reload  *)
(* for another filter never leaves an invisible selection behind           *)
(* (setSelected(new Set()) in load and runBulk).                           *)
(***************************************************************************)
SelectionShown == selected \subseteq shown.rows

(***************************************************************************)
(* On the panels whose loads leave the busy flag alone, an operation never *)
(* overlaps one whose flag switches its button off: only the panels whose  *)
(* loads lower the flag let the same row be acted upon twice (setBusy in   *)
(* load's finally; the e-mail tab keeps one row id for all rows).  What    *)
(* was given up no longer counts: nothing keeps it from running beside     *)
(* its repetition.                                                         *)
(***************************************************************************)
Acting == {q \in InFlight : \/ req[q].phase \in {"sent", "done"}
                            \/ req[q].phase \in {"asked", "read"} /\ req[q].of # None}
OpOf(q) == IF q \in Loads THEN req[q].of ELSE req[q].op
OneAtATime ==
    ~panel.flagged /\ mail \notin panel.ops
      => \A p, q \in Acting : p # q => OpOf(p).raises \notin OpOf(q).off
=============================================================================
