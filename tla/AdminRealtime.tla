---------------------------- MODULE AdminRealtime ----------------------------
(***************************************************************************)
(* The realtime layer between the server and an admin's browser.           *)
(*                                                                         *)
(* Server (socket/index.ts, lib/bus.ts, lib/logstore.ts): a connection is  *)
(* checked against the ban list, opened, and flagged as an admin's after a *)
(* read of the account; events of the bus disconnect banned addresses and  *)
(* are forwarded to the flagged connections.                               *)
(* Browser (lib/realtime.ts, lib/admin-session.ts, AdminShell.tsx, the     *)
(* dashboard and the live log): one shared socket, the menu gating that    *)
(* reloads on `admin:permissions:changed', the live log that starts from a *)
(* snapshot and adds `admin:log' events.                                   *)
(*                                                                         *)
(* `excuse' is auxiliary: why the browser may have missed something.       *)
(***************************************************************************)
EXTENDS Naturals, Sequences

CONSTANTS
    Socket,      \* socket objects of the browser, in the order they are made
    Load,        \* requests for /admin/me in flight at once
    MaxChanges,  \* bound on permission changes
    MaxLogs,     \* bound on log entries
    MaxBans,     \* bound on bans and unbans of the browser's address
    MaxMoves,    \* bound on page changes
    MaxFaults,   \* bound on lost connections, events and answers
    None         \* no socket, no session

RealtimeAssumption == MaxChanges \in Nat /\ MaxLogs \in Nat /\ None \notin Nat \cup Socket

Pages == {"dashboard", "users", "logs"}
Event == [kind : {"perm", "log", "ban", "unban"}, entry : 0..MaxLogs]
Of(kind) == [kind |-> kind, entry |-> 0]

VARIABLES
    rights,   \* version of the account's permissions
    logs,     \* number of entries in the log
    banned,   \* the BannedIp row of the browser's address
    bus,      \* events published and not yet handed to the listeners
    conn,     \* per socket object: the connection behind it
    page,     \* the admin page that is open
    shared,   \* the shared socket of lib/realtime.ts
    shell,    \* the socket on which the shell registered its listener
    session,  \* the permissions the menus show
    load,     \* requests for the session
    view,     \* the live log page: the socket it listens on, its request, its entries
    used, excuse

vars == <<rights, logs, banned, bus, conn, page, shared, shell, session, load, view, used, excuse>>

Dead == [state |-> "unused", admin |-> FALSE, checked |-> FALSE, mail |-> <<>>]
NoView == [on |-> None, asked |-> "no", snap |-> 0, shown |-> {}]
NoLoad == [pc |-> "idle", at |-> 0]

TypeOK ==
    /\ rights \in 0..MaxChanges /\ logs \in 0..MaxLogs /\ banned \in BOOLEAN
    /\ \A i \in DOMAIN bus : bus[i] \in Event
    /\ \A s \in Socket :
         /\ conn[s].state \in {"unused", "off", "checking", "open", "closed"}
         /\ conn[s].admin \in BOOLEAN /\ conn[s].checked \in BOOLEAN
         /\ \A i \in DOMAIN conn[s].mail : conn[s].mail[i] \in Event
    /\ page \in Pages
    /\ shared \in Socket \cup {None} /\ shell \in Socket
    /\ session \in 0..MaxChanges \cup {None}
    /\ load \in [Load -> [pc : {"idle", "sent", "read"}, at : 0..MaxChanges]]
    /\ view.on \in Socket \cup {None} /\ view.asked \in {"no", "sent", "read"}
    /\ view.shown \subseteq 1..MaxLogs

\* The panel opens: the shell takes the shared socket and asks for the session.
Init ==
    /\ rights = 0 /\ logs = 0 /\ banned = FALSE /\ bus = <<>>
    /\ \E s \in Socket :
         /\ conn = [c \in Socket |-> IF c = s THEN [Dead EXCEPT !.state = "off"] ELSE Dead]
         /\ shared = s /\ shell = s
    /\ page \in Pages
    /\ view = NoView
    /\ session = None
    /\ \E l \in Load : load = [x \in Load |-> IF x = l THEN [NoLoad EXCEPT !.pc = "sent"] ELSE NoLoad]
    /\ used = [bans |-> 0, moves |-> 0, faults |-> 0]
    /\ excuse = {}

Fault == used.faults < MaxFaults /\ used' = [used EXCEPT !.faults = @ + 1]
Publish(e) == bus' = Append(bus, e)
server == <<rights, logs, banned>>
browser == <<page, shared, shell, session, load, view>>

-----------------------------------------------------------------------------
(* The server.                                                             *)

\* Another admin changes the permissions, and then the event is published.
ChangePermissions ==
    /\ rights < MaxChanges
    /\ rights' = rights + 1
    /\ Publish(Of("perm"))
    /\ UNCHANGED <<logs, banned, conn, browser, used, excuse>>

AddLog ==
    /\ logs < MaxLogs
    /\ logs' = logs + 1
    /\ Publish([kind |-> "log", entry |-> logs + 1])
    /\ UNCHANGED <<rights, banned, conn, browser, used, excuse>>

\* POST /bans, DELETE /bans/:ip, the socket handlers and the bot commands.
Ban ==
    /\ used.bans < MaxBans /\ used' = [used EXCEPT !.bans = @ + 1]
    /\ banned' = TRUE
    /\ Publish(Of("ban"))
    /\ UNCHANGED <<rights, logs, conn, browser, excuse>>

Unban ==
    /\ banned
    /\ used.bans < MaxBans /\ used' = [used EXCEPT !.bans = @ + 1]
    /\ banned' = FALSE
    /\ Publish(Of("unban"))
    /\ UNCHANGED <<rights, logs, conn, browser, excuse>>

\* disconnectBannedIp looks only at the connections that are open.
Reached(c) == c.state = "open"
ReachedAdmin(c) == c.state = "open" /\ c.admin

Forwarded(c, e) == IF c.state = "open" /\ c.admin THEN [c EXCEPT !.mail = Append(@, e)] ELSE c

HandedOnly(c, e) == Forwarded(c, e)
HandedNoLog(c, e) ==
    IF e.kind = "ban" /\ Reached(c) THEN [c EXCEPT !.state = "closed", !.admin = FALSE, !.mail = <<>>]
    ELSE IF e.kind = "log" THEN c ELSE Forwarded(c, e)
HandedNoPerm(c, e) ==
    IF e.kind = "ban" /\ Reached(c) THEN [c EXCEPT !.state = "closed", !.admin = FALSE, !.mail = <<>>]
    ELSE IF e.kind = "perm" THEN c ELSE Forwarded(c, e)
Handed(c, e) ==
    IF e.kind = "ban" /\ Reached(c) THEN [c EXCEPT !.state = "closed", !.admin = FALSE, !.mail = <<>>]
    ELSE Forwarded(c, e)

\* The listeners of one event: disconnect the banned, forward to the admins.
Forward ==
    /\ bus # <<>>
    /\ bus' = Tail(bus)
    /\ conn' = [s \in Socket |-> Handed(conn[s], Head(bus))]
    /\ excuse' = excuse
         \cup (IF Head(bus).kind \in {"perm", "log"} /\ ~\E s \in Socket : ReachedAdmin(conn[s])
               THEN {"unheard"} ELSE {})
         \cup (IF Head(bus).kind = "ban" /\ \E s \in Socket : conn[s].checked THEN {"slipped"} ELSE {})
         \cup (IF Head(bus).kind = "ban" /\ \E s \in Socket : Reached(conn[s]) THEN {"offline"} ELSE {})
    /\ UNCHANGED <<server, browser, used>>

\* redis.publish fails and is ignored.
ForwardFails ==
    /\ bus # <<>> /\ Fault
    /\ bus' = Tail(bus)
    /\ excuse' = excuse \cup {"unpublished"}
    /\ UNCHANGED <<server, conn, browser>>

-----------------------------------------------------------------------------
(* A connection.                                                           *)

Connect(s) ==
    /\ conn[s].state = "off"
    /\ conn' = [conn EXCEPT ![s].state = "checking"]
    /\ UNCHANGED <<server, bus, browser, used, excuse>>

\* banCheck reads the ban list; a refusal is final for this socket object.
BanCheck(s) ==
    /\ conn[s].state = "checking" /\ ~conn[s].checked
    /\ conn' = [conn EXCEPT ![s] =
         IF banned THEN [@ EXCEPT !.state = "closed"] ELSE [@ EXCEPT !.checked = TRUE]]
    /\ excuse' = IF banned THEN excuse \cup {"offline"} ELSE excuse
    /\ UNCHANGED <<server, bus, browser, used>>

\* A failing read lets the connection in.
BanCheckFails(s) ==
    /\ conn[s].state = "checking" /\ ~conn[s].checked /\ Fault
    /\ conn' = [conn EXCEPT ![s].checked = TRUE]
    /\ excuse' = excuse \cup {"unchecked"}
    /\ UNCHANGED <<server, bus, browser>>

Open(s) ==
    /\ conn[s].state = "checking" /\ conn[s].checked
    /\ conn' = [conn EXCEPT ![s].state = "open", ![s].checked = FALSE]
    /\ UNCHANGED <<server, bus, browser, used, excuse>>

\* The read of the account behind the handshake token answers: from now on events reach it.
Flag(s) ==
    /\ conn[s].state = "open" /\ ~conn[s].admin
    /\ conn' = [conn EXCEPT ![s].admin = TRUE]
    /\ UNCHANGED <<server, bus, browser, used, excuse>>

\* The transport breaks; the client connects again, what was under way is lost.
Drop(s) ==
    /\ conn[s].state \in {"checking", "open"} /\ Fault
    /\ conn' = [conn EXCEPT ![s] = [Dead EXCEPT !.state = "off"]]
    /\ excuse' = excuse \cup {"unheard"}
    /\ UNCHANGED <<server, bus, browser>>

-----------------------------------------------------------------------------
(* The browser.                                                            *)

\* closeAdminSocket(): the dashboard's teardown disconnects the socket everyone shares.
Closed(c, s) == [c EXCEPT ![s] = [Dead EXCEPT !.state = "closed"]]

Mounted == session # None
OnDashboard == Mounted /\ page = "dashboard"
Torn == IF OnDashboard THEN Closed(conn, shared) ELSE conn
SharedTorn == IF OnDashboard THEN None ELSE shared
Cut == IF OnDashboard THEN {"cut"} ELSE {}

\* The effects of a page run with sockets c and the shared socket sh: adminSocket() gives
\* the shared one or makes a new one; the live log also asks for its snapshot.
Mount(c, sh, to) ==
    \/ /\ to = "users"
       /\ conn' = c /\ shared' = sh /\ view' = NoView
    \/ /\ to # "users"
       /\ \E s \in Socket :
            /\ IF sh = None THEN c[s].state = "unused" ELSE s = sh
            /\ shared' = s
            /\ conn' = IF sh = None THEN [c EXCEPT ![s].state = "off"] ELSE c
            /\ view' = IF to = "logs" THEN [NoView EXCEPT !.on = s, !.asked = "sent"] ELSE NoView

\* Another admin page; the shell renders pages only while it has a session.
Move(to) ==
    /\ to # page
    /\ used.moves < MaxMoves /\ used' = [used EXCEPT !.moves = @ + 1]
    /\ page' = to
    /\ IF Mounted THEN Mount(Torn, SharedTorn, to) ELSE UNCHANGED <<conn, shared, view>>
    /\ excuse' = excuse \cup Cut
    /\ UNCHANGED <<server, bus, shell, session, load>>

\* An event arrives.  The shell reloads the session if it listens on this very socket; the
\* log page adds the entry.
Deliver(s) ==
    /\ conn[s].state = "open" /\ conn[s].mail # <<>>
    /\ conn' = [conn EXCEPT ![s].mail = Tail(@)]
    /\ LET e == Head(conn[s].mail)
       IN /\ IF e.kind = "perm" /\ s = shell
               THEN \E l \in Load :
                      /\ load[l].pc = "idle"
                      /\ load' = [load EXCEPT ![l].pc = "sent"]
               ELSE UNCHANGED load
          /\ view' = IF e.kind = "log" /\ s = view.on THEN [view EXCEPT !.shown = @ \cup {e.entry}] ELSE view
    /\ UNCHANGED <<server, bus, page, shared, shell, session, used, excuse>>

\* GET /admin/me: the server computes the permissions, the browser takes the answer.
LoadReads(l) ==
    /\ load[l].pc = "sent"
    /\ load' = [load EXCEPT ![l] = [pc |-> "read", at |-> rights]]
    /\ UNCHANGED <<server, bus, conn, page, shared, shell, session, view, used, excuse>>

LoadAnswers(l) ==
    /\ load[l].pc = "read"
    /\ load' = [load EXCEPT ![l] = NoLoad]
    /\ session' = load[l].at
    /\ IF Mounted THEN UNCHANGED <<conn, shared, view>> ELSE Mount(conn, shared, page)
    /\ excuse' = IF Mounted /\ session > load[l].at THEN excuse \cup {"overtaken"} ELSE excuse
    /\ UNCHANGED <<server, bus, page, shell, used>>

\* A failed load empties the session: the page goes, and nothing asks again.
LoadFails(l) ==
    /\ load[l].pc # "idle" /\ Fault
    /\ load' = [load EXCEPT ![l] = NoLoad]
    /\ session' = None
    /\ conn' = Torn /\ shared' = SharedTorn /\ view' = NoView
    /\ excuse' = excuse \cup {"unloaded"} \cup Cut
    /\ UNCHANGED <<server, bus, page, shell>>

\* GET /admin/logs for the live log; the answer replaces what events have added meanwhile.
SnapshotReads ==
    /\ view.asked = "sent"
    /\ view' = [view EXCEPT !.asked = "read", !.snap = logs]
    /\ UNCHANGED <<server, bus, conn, page, shared, shell, session, load, used, excuse>>

Snapshot == 1..view.snap

SnapshotAnswers ==
    /\ view.asked = "read"
    /\ view' = [view EXCEPT !.asked = "no", !.shown = Snapshot]
    /\ excuse' = IF view.shown \subseteq 1..view.snap THEN excuse ELSE excuse \cup {"replaced"}
    /\ UNCHANGED <<server, bus, conn, page, shared, shell, session, load, used>>

SnapshotFails ==
    /\ view.asked # "no" /\ Fault
    /\ view' = [view EXCEPT !.asked = "no"]
    /\ excuse' = excuse \cup {"unloaded"}
    /\ UNCHANGED <<server, bus, conn, page, shared, shell, session, load>>

Next ==
    \/ ChangePermissions \/ AddLog \/ Ban \/ Unban \/ Forward \/ ForwardFails
    \/ \E s \in Socket :
         Connect(s) \/ BanCheck(s) \/ BanCheckFails(s) \/ Open(s) \/ Flag(s) \/ Drop(s) \/ Deliver(s)
    \/ \E l \in Load : LoadReads(l) \/ LoadAnswers(l) \/ LoadFails(l)
    \/ \E to \in Pages : Move(to)
    \/ SnapshotReads \/ SnapshotAnswers \/ SnapshotFails

Spec == Init /\ [][Next]_vars

-----------------------------------------------------------------------------
(* Properties.                                                             *)

Quiet ==
    /\ bus = <<>>
    /\ \A s \in Socket : conn[s].mail = <<>>
    /\ \A l \in Load : load[l].pc = "idle"
    /\ view.asked = "no"

\* Once everything under way has arrived the menus show the account's permissions, unless
\* the shell's socket was closed by leaving the dashboard, was not (yet) connected and
\* flagged, an event or an answer was lost, or a later answer overtook an earlier one.
MenusExplained ==
    (Quiet /\ session # rights) =>
        excuse \cap {"cut", "unheard", "offline", "unpublished", "unloaded", "overtaken"} # {}

\* Once a ban has been handed out no connection of the address is open, unless it had passed
\* its check and was not open yet, a check failed or the event was lost.  (index.ts 20-43.)
BannedIsOut ==
    (banned /\ bus = <<>> /\ excuse \cap {"slipped", "unchecked", "unpublished"} = {}) =>
        \A s \in Socket : conn[s].state # "open" /\ ~conn[s].checked

\* The live log shows every entry, unless its connection was not there for it or the snapshot
\* replaced entries that had arrived before it.
LogComplete ==
    (Quiet /\ page = "logs" /\ Mounted
       /\ excuse \cap {"replaced", "unheard", "offline", "unpublished", "unloaded"} = {})
        => view.shown = 1..logs

\* "menus re-gate themselves the moment a SUPER_ADMIN toggles the sub-admin's rights": with a
\* flagged connection all along and no failure the settled menus are right.
\* A claim the code does not keep (README, Disagreements).
MenusRegate ==
    (Quiet /\ excuse \subseteq {"cut"}) => session = rights
=============================================================================
