----------------------------- MODULE AdminRoles -----------------------------
(***************************************************************************)
(* Who administers the site: User.role, its pin roleOverride, the blocked  *)
(* and deletedAt marks and the grant rows of one feature, canManageUsers.  *)
(* A request of the panel passes requireAdmin (middleware/adminAuth.ts),   *)
(* its permission check (middleware/permissions.ts), a read of the target  *)
(* and a write (routes/admin.ts); each is a statement of its own, and      *)
(* anything may run in between.  The bot's commands (lib/adminCommands.ts) *)
(* skip the checks. Besides the panel, roles are written by a login, by    *)
(* the upgrade of a Telegram account, by the erasure of an account         *)
(* (routes/auth.ts) and by startup (promoteAdminEmails in app.ts), from    *)
(* lists of addresses that an operator may change between two runs of the  *)
(* server.                                                                 *)
(***************************************************************************)
EXTENDS FiniteSets, Naturals

CONSTANTS
    User,
    Request,      \* requests, each served once
    Listings,     \* configurations: functions from User to "admin", "super" or "none"
    MaxRestarts,  \* bound: restarts of the server
    Master,       \* the bearer of ADMIN_PASSWORD; it has no account
    Null          \* SQL NULL

Role   == {"USER", "ADMIN", "SUPER_ADMIN"}
Admins == {"ADMIN", "SUPER_ADMIN"}
Actor  == User \cup {Master}

\* Operations that requireSuperAdmin guards, and those that need canManageUsers.
TopOps    == {"make-admin", "permissions"}
SingleOps == {"role", "block", "unblock", "delete", "restore", "ban", "unban"}
BulkOps   == {"bulk-block", "bulk-unblock", "bulk-delete", "bulk-restore"}
PanelOps  == TopOps \cup SingleOps \cup BulkOps
OwnOps    == {"login", "upgrade", "erase"}

ASSUME ListingsAssumption ==
    /\ Listings # {} /\ Listings \subseteq [User -> {"admin", "super", "none"}]
    /\ MaxRestarts \in Nat
    /\ Master \notin User \cup Role
    /\ Null \notin User \cup Role \cup PanelOps \cup OwnOps \cup {Master}

VARIABLES
    role, pin,    \* User.role, User.roleOverride
    blocked,      \* accounts with blocked = true
    trashed,      \* accounts with deletedAt set
    withheld,     \* accounts with a grant row that switches canManageUsers off
    email,        \* email[u]: "none" (a Telegram account), "real" or "marker" (erased)
    listed,       \* SUPER_ADMIN_EMAILS and ADMIN_EMAILS of the running process
    at,           \* at[r]: the next statement of request r
    job,          \* job[r]: its operation and the locals of its handler
    restarts,     \* how often the server was restarted
    overtaken,    \* history: accounts whose role was written from an older pin
    admitted      \* history: requests past their checks when their actor lost the right

account == <<role, pin, blocked, trashed, withheld, email>>
history == <<overtaken, admitted>>
vars    == <<account, listed, at, job, restarts, history>>

\* Operations that refuse an administrator, by the role their handler has read.
SparesAdmins == {"block", "delete", "restore"} \cup BulkOps

Job == [op   : PanelOps \cup OwnOps \cup {Null},
        by   : Actor \cup {Null},       \* req.admin.id; Null for the bot
        as   : Role \cup {Master, Null},  \* req.admin.role
        on   : SUBSET User,             \* the accounts it is about
        want : Role \cup {"on", "off", Null},
        saw  : Role \cup {Null},        \* the role it read, when it is about one account
        mark : Role \cup {Null}]        \* the pin it read

NoJob == [op |-> Null, by |-> Null, as |-> Null, on |-> {}, want |-> Null,
          saw |-> Null, mark |-> Null]

TypeOK ==
    /\ role \in [User -> Role] /\ pin \in [User -> Role \cup {Null}]
    /\ blocked \subseteq User /\ trashed \subseteq User /\ withheld \subseteq User
    /\ email \in [User -> {"none", "real", "marker"}]
    /\ listed \in Listings
    /\ at \in [Request -> {"idle", "permit", "grants", "read", "write", "done"}]
    /\ job \in [Request -> Job]
    /\ restarts \in 0..MaxRestarts
    /\ overtaken \subseteq User /\ admitted \subseteq Request

\* A site in use: roles come from the lists, nobody has been pinned yet.
Init ==
    /\ listed \in Listings
    /\ role = [u \in User |-> CASE listed[u] = "super" -> "SUPER_ADMIN"
                                [] listed[u] = "admin" -> "ADMIN"
                                [] OTHER -> "USER"]
    /\ pin = [u \in User |-> Null]
    /\ blocked = {} /\ trashed = {} /\ withheld = {}
    /\ email \in [User -> {"none", "real"}]
    /\ \A u \in User : listed[u] # "none" => email[u] = "real"
    /\ at = [r \in Request |-> "idle"] /\ job = [r \in Request |-> NoJob]
    /\ restarts = 0 /\ overtaken = {} /\ admitted = {}

-----------------------------------------------------------------------------
\* Roles and rights

Supers == {u \in User : role[u] = "SUPER_ADMIN"}

\* roleForEmail: the pin wins, the lists only ever promote.
RoleForEmail(u, current, override) ==
    IF override # Null THEN override
    ELSE CASE listed[u] = "super" -> "SUPER_ADMIN"
           [] listed[u] = "admin" /\ current # "SUPER_ADMIN" -> "ADMIN"
           [] OTHER -> current

\* What the two middlewares demand of an account.
IsAdmin(u)   == role[u] \in Admins /\ u \notin blocked
MaySuper(u)  == role[u] = "SUPER_ADMIN" /\ u \notin blocked
MayManage(u) == IsAdmin(u) /\ (role[u] = "SUPER_ADMIN" \/ u \notin withheld)

\* The right that request r demands of its actor as the rows are now; before its read of the
\* grants, as far as it has been checked.
Entitled(r) ==
    \/ job[r].by \notin User
    \/ job[r].op \in TopOps /\ MaySuper(job[r].by)
    \/ job[r].op \notin TopOps /\ at[r] = "grants" /\ IsAdmin(job[r].by)
    \/ job[r].op \notin TopOps /\ at[r] # "grants" /\ MayManage(job[r].by)

Goto(r, s) == at' = [at EXCEPT ![r] = s]

\* The requests that have passed a check of their right; requireAdmin's snapshot of a super
\* administrator passes checkPermission without another read.
Passed(r) ==
    \/ at[r] \in {"grants", "read", "write"}
    \/ at[r] = "permit" /\ job[r].as = "SUPER_ADMIN" /\ job[r].op \notin TopOps

Pending == {r \in Request : job[r].op \in PanelOps /\ job[r].by \in User /\ Passed(r)}

\* Book-keeping of every step: who lost the right meanwhile.
Watch == admitted' = admitted \cup {r \in Pending : Entitled(r) /\ ~Entitled(r)'}

-----------------------------------------------------------------------------
\* A request of the panel

\* requireAdmin.
Admit(r, a, o, on, w) ==
    /\ at[r] = "idle"
    /\ a = Master \/ (a \in User /\ IsAdmin(a))
    /\ job' = [job EXCEPT ![r] = [NoJob EXCEPT !.op = o, !.by = a, !.on = on, !.want = w,
                                     !.as = IF a = Master THEN Master ELSE role[a]]]
    /\ Goto(r, "permit")
    /\ UNCHANGED <<account, listed, restarts, history>>

\* Plausible bug: the permission check trusts the role that requireAdmin has read.
StillAdminBySnapshot(j) == j.as = "ADMIN"

\* checkPermission("canManageUsers"): a super administrator and the password pass as they
\* were read; an administrator is read again, and then his grants.
StillAdmin(j) == j.as = "ADMIN" /\ role[j.by] = "ADMIN" /\ j.by \notin blocked

\* The first step of the handler behind the check.
Onward(j) == IF j.op \in {"ban", "unban"} THEN "write" ELSE "read"

Permit(r) ==
    /\ at[r] = "permit" /\ job[r].op \notin TopOps
    /\ Goto(r, CASE job[r].as \in {"SUPER_ADMIN", Master} -> Onward(job[r])
                 [] StillAdmin(job[r]) -> "grants"
                 [] OTHER -> "done")
    /\ UNCHANGED <<account, listed, job, restarts, history>>

\* effectivePermissionsFor: a separate read, in which the role is no longer looked at.
ReadGrants(r) ==
    /\ at[r] = "grants"
    /\ Goto(r, IF job[r].by \in withheld THEN "done" ELSE Onward(job[r]))
    /\ UNCHANGED <<account, listed, job, restarts, history>>

\* requireSuperAdmin reads the account once more.
PermitTop(r) ==
    /\ at[r] = "permit" /\ job[r].op \in TopOps
    /\ Goto(r, IF job[r].by = Master \/ MaySuper(job[r].by) THEN "read" ELSE "done")
    /\ UNCHANGED <<account, listed, job, restarts, history>>

\* PATCH /users/:id/role: what the handler refuses when it has read the target.
RoleAllowed(j, t) ==
    /\ t # j.by
    /\ j.as \in {"SUPER_ADMIN", Master} \/ (j.want = "USER" /\ role[t] # "SUPER_ADMIN")

\* guardTargetUser, the restore query, and the role read of the other handlers.
Allowed(j, t) ==
    CASE j.op = "role"        -> RoleAllowed(j, t)
      [] j.op = "make-admin"  -> t # j.by /\ role[t] = "USER"
      [] j.op = "permissions" -> t # j.by /\ role[t] = "ADMIN"
      [] j.op = "restore"     -> t \in trashed /\ role[t] \notin Admins
      [] j.op \in SparesAdmins -> role[t] \notin Admins
      [] OTHER -> TRUE

ReadTarget(r) ==
    /\ at[r] = "read" /\ job[r].op \notin BulkOps
    /\ \E t \in job[r].on :
         /\ Goto(r, IF Allowed(job[r], t) THEN "write" ELSE "done")
         /\ job' = [job EXCEPT ![r].saw = role[t], ![r].mark = pin[t]]
    /\ UNCHANGED <<account, listed, restarts, history>>

\* POST /users/bulk: the administrators among the ids are dropped.
ReadBulk(r) ==
    /\ at[r] = "read" /\ job[r].op \in BulkOps
    /\ job' = [job EXCEPT ![r].on = {u \in @ : role[u] \notin Admins}]
    /\ Goto(r, "write")
    /\ UNCHANGED <<account, listed, restarts, history>>

\* A command of the super administrator's chat starts with the read of the account.
Command(r, o, t) ==
    /\ at[r] = "idle" /\ o \in {"block", "unblock"} /\ email[t] = "real"
    /\ job' = [job EXCEPT ![r] = [NoJob EXCEPT !.op = o, !.on = {t}, !.saw = role[t]]]
    /\ Goto(r, IF o = "block" /\ role[t] \in Admins THEN "done" ELSE "write")
    /\ UNCHANGED <<account, listed, restarts, history>>

-----------------------------------------------------------------------------
\* The writes

\* One UPDATE of role and roleOverride by the panel.
Pin(t, x) ==
    /\ role' = [role EXCEPT ![t] = x]
    /\ pin' = [pin EXCEPT ![t] = x]
    /\ overtaken' = overtaken \ {t}

Finish(r) == Goto(r, "done") /\ UNCHANGED <<listed, job, restarts>> /\ Watch

\* The target was read as a super administrator and loses that role: count and write
\* are one serializable transaction, which may also be aborted.
Demotes(j) == j.saw = "SUPER_ADMIN" /\ j.want # "SUPER_ADMIN"

\* Plausible bug: the count includes the account that is being demoted.
OthersWithTarget(t) == Supers

\* The count of the transaction leaves the target out.
Others(t) == Supers \ {t}

DemoteSuper(r) ==
    /\ at[r] = "write" /\ job[r].op = "role" /\ Demotes(job[r])
    /\ \E t \in job[r].on :
         IF Others(t) = {} THEN UNCHANGED <<role, pin, overtaken>> ELSE Pin(t, job[r].want)
    /\ UNCHANGED <<blocked, trashed, withheld, email>> /\ Finish(r)

SetRole(r) ==
    /\ at[r] = "write" /\ job[r].op = "role" /\ ~Demotes(job[r])
    /\ \E t \in job[r].on : Pin(t, job[r].want)
    /\ UNCHANGED <<blocked, trashed, withheld, email>> /\ Finish(r)

\* The grant rows of an editor that sends the feature: on is the default, so its row goes.
Grant(t, w) == withheld' = IF w = "off" THEN withheld \cup {t} ELSE withheld \ {t}

MakeAdmin(r) ==
    /\ at[r] = "write" /\ job[r].op = "make-admin"
    /\ \E t \in job[r].on : Pin(t, "ADMIN") /\ Grant(t, job[r].want)
    /\ UNCHANGED <<blocked, trashed, email>> /\ Finish(r)

SetPermissions(r) ==
    /\ at[r] = "write" /\ job[r].op = "permissions"
    /\ \E t \in job[r].on : Grant(t, job[r].want)
    /\ UNCHANGED <<role, pin, blocked, trashed, email, overtaken>> /\ Finish(r)

\* updateMany of the bulk route is restricted to rows that are not in the trash.
Live == {u \in User : u \notin trashed}

Block(r) ==
    /\ at[r] = "write" /\ job[r].op \in {"block", "ban", "bulk-block"}
    /\ blocked' = blocked \cup IF job[r].op \in BulkOps THEN job[r].on \cap Live ELSE job[r].on
    /\ UNCHANGED <<role, pin, trashed, withheld, email, overtaken>> /\ Finish(r)

Unblock(r) ==
    /\ at[r] = "write" /\ job[r].op \in {"unblock", "unban", "bulk-unblock"}
    /\ blocked' = blocked \ IF job[r].op \in BulkOps THEN job[r].on \cap Live ELSE job[r].on
    /\ UNCHANGED <<role, pin, trashed, withheld, email, overtaken>> /\ Finish(r)

Trash(r) ==
    /\ at[r] = "write" /\ job[r].op \in {"delete", "bulk-delete"}
    /\ trashed' = trashed \cup job[r].on
    /\ UNCHANGED <<role, pin, blocked, withheld, email, overtaken>> /\ Finish(r)

Restore(r) ==
    /\ at[r] = "write" /\ job[r].op \in {"restore", "bulk-restore"}
    /\ LET on == IF job[r].op \in BulkOps THEN job[r].on \cap trashed ELSE job[r].on
       IN trashed' = trashed \ on /\ blocked' = blocked \ on
    /\ UNCHANGED <<role, pin, withheld, email, overtaken>> /\ Finish(r)

-----------------------------------------------------------------------------
\* Writes to a role from elsewhere

\* A login, an upgrade or an erasure of account u has read the row.
Enter(r, u, o) ==
    /\ at[r] = "idle" /\ u \notin blocked
    /\ \/ o = "login" /\ email[u] = "real" /\ RoleForEmail(u, role[u], pin[u]) # role[u]
       \/ o = "upgrade" /\ email[u] = "none"
       \/ o = "erase"
    /\ job' = [job EXCEPT ![r] = [NoJob EXCEPT !.op = o, !.by = u, !.on = {u},
                                     !.saw = role[u], !.mark = pin[u]]]
    /\ Goto(r, "write")
    /\ UNCHANGED <<account, listed, restarts, history>>

\* A role computed from the row as it was read, whatever has been pinned since.
Promote(r) ==
    /\ at[r] = "write" /\ job[r].op \in {"login", "upgrade"}
    /\ \E u \in job[r].on :
         LET new == RoleForEmail(u, job[r].saw, job[r].mark)
         IN /\ role' = [role EXCEPT ![u] = new]
            /\ overtaken' = overtaken \cup IF pin[u] # job[r].mark THEN {u} ELSE {}
            /\ email' = IF job[r].op = "upgrade" THEN [email EXCEPT ![u] = "real"] ELSE email
    /\ UNCHANGED <<pin, blocked, trashed, withheld>> /\ Finish(r)

\* POST /me/delete.
Erase(r) ==
    /\ at[r] = "write" /\ job[r].op = "erase"
    /\ \E u \in job[r].on :
         /\ role' = [role EXCEPT ![u] = "USER"] /\ pin' = [pin EXCEPT ![u] = Null]
         /\ email' = [email EXCEPT ![u] = "marker"]
         /\ blocked' = blocked \cup {u} /\ trashed' = trashed \cup {u}
         /\ overtaken' = overtaken \ {u}
    /\ UNCHANGED withheld /\ Finish(r)

\* A failed statement, an aborted transaction, a lost connection.
Fail(r) ==
    /\ at[r] \in {"permit", "grants", "read", "write"}
    /\ Goto(r, "done")
    /\ UNCHANGED <<account, listed, job, restarts, history>>

\* Plausible bug: startup forgets the pin.
UnpinnedForgotten(x, l) == {u \in User : l[u] = x /\ email[u] = "real"}

\* The rows an updateMany of promoteAdminEmails reaches.
Unpinned(x, l) == {u \in User : l[u] = x /\ email[u] = "real" /\ pin[u] = Null}

\* The server starts again, perhaps with other lists, before it listens; the promotion of
\* super administrators is the second statement, and startup goes on when it fails.
Restart(l, both) ==
    /\ restarts < MaxRestarts /\ restarts' = restarts + 1
    /\ listed' = l
    /\ role' = [u \in User |->
                 CASE both /\ u \in Unpinned("super", l) -> "SUPER_ADMIN"
                   [] u \in Unpinned("admin", l) -> "ADMIN"
                   [] OTHER -> role[u]]
    /\ at' = [r \in Request |-> IF at[r] = "idle" THEN "idle" ELSE "done"]
    /\ UNCHANGED <<pin, blocked, trashed, withheld, email, job, overtaken>>
    /\ Watch

\* Plausible bug: the body of the role change is not validated.
WantsUnchecked(o) ==
    CASE o = "role" -> Role \cup {Null} [] o \in TopOps -> {"on", "off"} [] OTHER -> {Null}

\* What the validated bodies ask for (schemas.ts).
Wants(o) == CASE o = "role" -> Role [] o \in TopOps -> {"on", "off"} [] OTHER -> {Null}

\* How many accounts an operation names: the bulk route takes several.
Targets(o) == IF o \in BulkOps THEN (SUBSET User) \ {{}} ELSE {{t} : t \in User}

Handle(r) ==
    \/ Permit(r) \/ ReadGrants(r) \/ PermitTop(r) \/ ReadTarget(r) \/ ReadBulk(r)
    \/ DemoteSuper(r) \/ SetRole(r) \/ MakeAdmin(r) \/ SetPermissions(r)
    \/ Block(r) \/ Unblock(r) \/ Trash(r) \/ Restore(r) \/ Promote(r) \/ Erase(r)

Next ==
    \/ \E r \in Request :
         \/ \E a \in Actor, o \in PanelOps : \E on \in Targets(o), w \in Wants(o) :
               Admit(r, a, o, on, w)
         \/ \E t \in User, o \in {"block", "unblock"} : Command(r, o, t)
         \/ \E u \in User, o \in OwnOps : Enter(r, u, o)
         \/ Handle(r) \/ Fail(r)
    \/ \E l \in Listings, both \in BOOLEAN : Restart(l, both)

Spec == Init /\ [][Next]_vars

-----------------------------------------------------------------------------
(* What the panel promises *)

\* Request r has come past its write.
Wrote(r) == at[r] = "write" /\ at'[r] = "done"

\* The write of request r was decided on a role that its target no longer had.
Outdated(r) == Wrote(r) /\ \E u \in job[r].on : role[u] # job[r].saw

\* Request r computes a role for an account whose role a login had written over its pin,
\* or writes one over the pin itself.
Realigned(r) ==
    /\ Wrote(r) /\ job[r].op \in {"login", "upgrade"}
    /\ job[r].on \cap (overtaken \cup overtaken') # {}

\* The last super administrator is lost only when he erases himself, through a write
\* decided on a role read earlier, through a login that meets a role and a pin an earlier
\* login has driven apart, or through a restart with other lists: never because two
\* demotions overlap, whoever asks for them (PATCH /users/:id/role).
SuperAdminRemains ==
    [][Supers # {} =>
         \/ Supers' # {}
         \/ \E r \in Request : Outdated(r) \/ Realigned(r) \/ (Wrote(r) /\ job[r].op = "erase")
         \/ restarts' # restarts]_vars

\* A role set in the panel stays until the panel changes it, over logins, upgrades and
\* startups; only a login or upgrade that had read the row before can overwrite it.
PinnedRoleHolds == \A u \in User : pin[u] # Null => role[u] = pin[u] \/ u \in overtaken

\* An operation that is about to take effect was asked for by somebody who has the right
\* to it now, or who lost it after the request's last check of it: of the role, then of the
\* grants.
RevokedOnlyAdmitted == \A r \in Pending : Entitled(r) \/ r \in admitted

\* A role set in the panel stays, and no operation takes effect for somebody whose right to
\* it was gone before its last check, whatever logins, upgrades and other administrators do
\* meanwhile (routes/admin.ts, middleware/permissions.ts).
RolesHold == TypeOK /\ PinnedRoleHolds /\ RevokedOnlyAdmitted

\* A revoked role is never restored by the address lists (the comment on roleForEmail).
\* A claim the code does not keep (README, Disagreements).
NeverRestored ==
    [][\A u \in User : pin[u] # Null /\ pin'[u] = pin[u] => role'[u] = pin[u] \/ role'[u] = role[u]]_vars

=============================================================================
