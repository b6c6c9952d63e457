------------------------------ MODULE SubAdmins ------------------------------
(***************************************************************************)
(* The page on which the super administrator switches the permissions of   *)
(* the sub-admins (app/admin/sub-admins/page.tsx) and the routes behind it *)
(* (routes/admin.ts).  A switch is turned on the screen at once; the       *)
(* answer replaces the whole row of its sub-admin, and a failure brings    *)
(* the whole list back to what it was at the click.  One busy key guards   *)
(* all switches, so calls overlap and their answers come in any order.     *)
(***************************************************************************)
EXTENDS Naturals

CONSTANTS Admin,       \* the sub-admins: a super admin's row has no switches
          Feature,
          ByDefault,   \* the features that are on unless a grant row says otherwise
          Request, None,
          MaxToggles,  \* bound: clicks
          MaxChanges,  \* bound: changes from another session
          MaxFaults    \* bound: calls that fail

SubAdminsAssumption == /\ ByDefault \subseteq Feature
                       /\ None \notin BOOLEAN \cup [Admin -> [Feature -> BOOLEAN]]
                       /\ MaxToggles \in Nat /\ MaxChanges \in Nat /\ MaxFaults \in Nat

VARIABLES grants,   \* server: grants[a][k], the AdminGrant row or None
          clock,    \* server: how often a grant was written
          load,     \* the page's only load
          list,     \* what the page shows: the permissions of each sub-admin
          busy,     \* busyKey
          call,     \* call[q]: a PATCH
          seen,     \* history: clock of the newest answer a row was shown from
          missed,   \* history: clock of the last write of a row no answer will report
          why,      \* history: why a row on the screen may not be the stored one
          toggles, changes, faults

vars == <<grants, clock, load, list, busy, call, seen, missed, why, toggles, changes, faults>>

Idle == [phase |-> "idle"]
InFlight == {q \in Request : call[q].phase \in {"sent", "stored", "answered"}}

\* mergePermissions: the defaults, overridden by the rows there are.
Effective(a) == [k \in Feature |-> IF grants[a][k] = None THEN k \in ByDefault ELSE grants[a][k]]

\* A value that is the default needs no row.
Stored(k, v) == IF v = (k \in ByDefault) THEN None ELSE v

Init == /\ grants = [a \in Admin |-> [k \in Feature |-> None]]
        /\ clock = 0 /\ load = Idle /\ list = None /\ busy = None
        /\ call = [q \in Request |-> Idle]
        /\ seen = [a \in Admin |-> 0] /\ missed = [a \in Admin |-> 0]
        /\ why = [a \in Admin |-> {}]
        /\ toggles = 0 /\ changes = 0 /\ faults = 0

-----------------------------------------------------------------------------
\* GET /sub-admins: every sub-admin with his effective permissions.
ReadList ==
    /\ load = Idle
    /\ load' = [phase |-> "read", rows |-> [a \in Admin |-> Effective(a)], at |-> clock]
    /\ UNCHANGED <<grants, clock, list, busy, call, seen, missed, why, toggles, changes, faults>>

\* Why a row that is shown as it was read at a time may already differ.
Since(a, time) == IF missed[a] > time THEN {"missed"} ELSE {}

ShowList ==
    /\ load.phase = "read"
    /\ list' = load.rows
    /\ seen' = [a \in Admin |-> load.at]
    /\ why' = [a \in Admin |-> Since(a, load.at)]
    /\ load' = [phase |-> "done"]
    /\ UNCHANGED <<grants, clock, busy, call, missed, toggles, changes, faults>>

\* The list does not load: an error line, and no switches.
LoadFails ==
    /\ load.phase \in {"idle", "read"} /\ faults < MaxFaults
    /\ load' = [phase |-> "done"] /\ faults' = faults + 1
    /\ UNCHANGED <<grants, clock, list, busy, call, seen, missed, why, toggles, changes>>

\* Plausible bug: no copy of the list is kept, a failure leaves the switch turned.
NoCopy(a, k) == [list EXCEPT ![a][k] = ~@]

\* prev: the list of the render the switch belongs to.
Copy(a, k) == list

\* A switch that is not the busy one is turned.
Toggle(q, a, k) ==
    /\ list # None /\ busy # <<a, k>> /\ call[q] = Idle /\ toggles < MaxToggles
    /\ LET new == [phase |-> "sent", admin |-> a, key |-> k, value |-> ~list[a][k],
                   prev |-> Copy(a, k), alone |-> InFlight = {}] IN
       call' = [x \in Request |-> IF x = q THEN new
                                  ELSE IF x \in InFlight THEN [call[x] EXCEPT !.alone = FALSE]
                                  ELSE call[x]]
    /\ list' = [list EXCEPT ![a][k] = ~@]
    /\ busy' = <<a, k>>
    /\ toggles' = toggles + 1
    /\ UNCHANGED <<grants, clock, load, seen, missed, why, changes, faults>>

-----------------------------------------------------------------------------
\* PATCH /sub-admins/:id/permissions

Write(a, k, v) == /\ grants' = [grants EXCEPT ![a][k] = Stored(k, v)]
                  /\ clock' = clock + 1

\* The transaction on the grant rows, of a call that is waited for.
Commit(q) ==
    /\ call[q].phase = "sent"
    /\ LET c == call[q] IN
       /\ Write(c.admin, c.key, c.value)
       /\ call' = [call EXCEPT ![q] = [phase |-> "stored", admin |-> c.admin, prev |-> c.prev,
                                       alone |-> c.alone, at |-> clock + 1]]
    /\ UNCHANGED <<load, list, busy, seen, missed, why, toggles, changes, faults>>

\* A row that no answer will tell the page of.
Miss(a, time) == /\ missed' = [missed EXCEPT ![a] = IF time > @ THEN time ELSE @]
                 /\ why' = [why EXCEPT ![a] = @ \cup {"missed"}]

\* The same, of one the page has given up.
CommitLate(q) ==
    /\ call[q].phase = "late"
    /\ Write(call[q].admin, call[q].key, call[q].value)
    /\ Miss(call[q].admin, clock + 1)
    /\ call' = [call EXCEPT ![q] = Idle]
    /\ UNCHANGED <<load, list, busy, seen, toggles, changes, faults>>

\* After the audit row the permissions are read for the answer.
Reread(q) ==
    /\ call[q].phase = "stored"
    /\ LET c == call[q] IN
       call' = [call EXCEPT ![q] = [phase |-> "answered", admin |-> c.admin, prev |-> c.prev,
                                    alone |-> c.alone, at |-> c.at, read |-> clock,
                                    row |-> Effective(c.admin)]]
    /\ UNCHANGED <<grants, clock, load, list, busy, seen, missed, why, toggles, changes, faults>>

\* Another super admin, or the modal that makes an admin, changes a grant.
ChangedElsewhere(a, k) ==
    /\ changes < MaxChanges /\ changes' = changes + 1
    /\ Write(a, k, ~Effective(a)[k]) /\ Miss(a, clock + 1)
    /\ UNCHANGED <<load, list, busy, call, seen, toggles, faults>>

-----------------------------------------------------------------------------
\* The answer replaces the row of its sub-admin, whatever was clicked since, and any switch
\* is free again.
Answer(q) ==
    /\ call[q].phase = "answered"
    /\ LET c == call[q]  a == c.admin IN
       /\ list' = [list EXCEPT ![a] = c.row]
       /\ IF c.read >= seen[a]
          THEN seen' = [seen EXCEPT ![a] = c.read] /\ why' = [why EXCEPT ![a] = Since(a, c.read)]
          ELSE why' = [why EXCEPT ![a] = @ \cup {"overtaken"}] /\ UNCHANGED seen
    /\ busy' = None
    /\ call' = [call EXCEPT ![q] = Idle]
    /\ UNCHANGED <<grants, clock, load, missed, toggles, changes, faults>>

\* The call is refused, or fails before or after its transaction, or is given up while it
\* may still be executed: the list of the click comes back.
Fail(q) ==
    /\ q \in InFlight /\ faults < MaxFaults /\ faults' = faults + 1
    /\ LET c == call[q]  a == c.admin  stored == c.phase # "sent"
           undone == IF c.alone THEN {} ELSE {"rolledback"} IN
       /\ list' = c.prev
       /\ missed' = [missed EXCEPT ![a] = IF stored /\ c.at > @ THEN c.at ELSE @]
       /\ why' = [x \in Admin |-> why[x] \cup undone
                                   \cup IF x = a /\ stored THEN {"missed"} ELSE {}]
       /\ \/ call' = [call EXCEPT ![q] = Idle]
          \/ ~stored /\ call' = [call EXCEPT ![q] = [phase |-> "late", admin |-> a,
                                                     key |-> c.key, value |-> c.value]]
    /\ busy' = None
    /\ UNCHANGED <<grants, clock, load, seen, toggles, changes>>

Next == \/ ReadList \/ ShowList \/ LoadFails
        \/ \E a \in Admin, k \in Feature : \/ ChangedElsewhere(a, k)
                                           \/ \E q \in Request : Toggle(q, a, k)
        \/ \E q \in Request : Commit(q) \/ CommitLate(q) \/ Reread(q) \/ Answer(q) \/ Fail(q)

Spec == Init /\ [][Next]_vars

-----------------------------------------------------------------------------
Permissions == [Feature -> BOOLEAN]

TypeOK == /\ grants \in [Admin -> [Feature -> BOOLEAN \cup {None}]]
          /\ list \in [Admin -> Permissions] \cup {None}
          /\ busy \in (Admin \X Feature) \cup {None}
          /\ seen \in [Admin -> 0..clock] /\ missed \in [Admin -> 0..clock]
          /\ \A a \in Admin : why[a] \subseteq {"missed", "overtaken", "rolledback"}

(***************************************************************************)
(* When no call is under way, a sub-admin's switches show what is stored,  *)
(* unless the row was written with no answer to tell the page, an answer   *)
(* was overtaken by one that had been read later, or a failing call        *)
(* brought the list back while another was under way; the next answer      *)
(* about that sub-admin repairs the row (toggle in sub-admins/page.tsx).   *)
(***************************************************************************)
SwitchesExplained ==
    InFlight = {} /\ list # None => \A a \in Admin : why[a] = {} => list[a] = Effective(a)
=============================================================================
