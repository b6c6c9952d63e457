------------------------------- MODULE Admin --------------------------------
(***************************************************************************)
(* The administrators' browser and the server behind it, one module at a   *)
(* time: the live session, the list panels, the sub-admins' permissions,   *)
(* approvals and their mails, the site's settings.  They share no state:   *)
(* `part' says which module a behaviour is of, and the variables it does   *)
(* not have are None.                                                      *)
(***************************************************************************)
EXTENDS Naturals, FiniteSets, Sequences

CONSTANTS None, MaxFaults,
  \* the live session
  Socket, MenuLoad, MaxChanges, MaxLogs, MaxBans, MaxMoves,
  \* the list panels
  Row, Filter, Call, MaxIssues, MaxFilters,
  \* the sub-admins' permissions; their calls are Call
  SubAdmin, Feature, ByDefault, MaxToggles, ElsewhereChanges,
  \* approvals and their mails
  Person, Handler, Mail, Hook, MaxGrants, MaxAgain,
  \* the site's settings
  Editor, Key, Value, Tabs, Unfit, Fit, Numeric, Important, Kinds, MaxEdits, MaxSaves

VARIABLES part,  \* the module this behaviour is of
          rights, logs, banned, bus, conn, page, shared, shell, session, load, view,
          used, excuse, panel, place, clock, filter, timer, req, issued, shown,
          selected, flag, own, filters, faults, grants, gone, edits, saves, right, task,
          mail, log, fate, event, hook, again, told, due, excused, kind, table, backup,
          draft, saved, slipped, crossed

Realtime == INSTANCE AdminRealtime WITH Load <- MenuLoad
Panel == INSTANCE AdminPanels WITH Request <- Call, at <- place, copy <- backup
Switches == INSTANCE SubAdmins WITH
             Admin <- SubAdmin, Request <- Call, MaxChanges <- ElsewhereChanges,
             list <- shown, busy <- flag, call <- req, seen <- own, missed <- gone,
             why <- excuse, toggles <- edits, changes <- saves
Approval == INSTANCE Approvals WITH User <- Person, Request <- Handler, Null <- None, job <- task
Site == INSTANCE SiteSettings WITH job <- task, overtaken <- crossed, lost <- gone

ASSUME RealAssumption == Realtime!RealtimeAssumption
ASSUME ApprovalAssumption == Approval!ApprovalsAssumption
ASSUME SiteAssumption == Site!RowsAssumption
ASSUME PanelAssumption == Panel!PanelsAssumption
ASSUME SwitchesAssumption == Switches!SubAdminsAssumption

\* The variables a part does not have.
notRealtime == <<panel, place, clock, filter, timer, req, issued, shown, selected, flag,
                 own, filters, faults, grants, gone, edits, saves, right, task, mail,
                 log, fate, event, hook, again, told, due, excused, kind, table, backup,
                 draft, saved, slipped, crossed>>
notPanel == <<rights, logs, banned, bus, conn, page, shared, shell, session, load, view,
              used, grants, gone, edits, saves, right, task, mail, log, fate, event,
              hook, again, told, due, excused, kind, table, draft, saved, slipped, crossed>>
notSwitches == <<rights, logs, banned, bus, conn, page, shared, shell, session, view,
                 used, panel, place, filter, timer, issued, selected, filters, right,
                 task, mail, log, fate, event, hook, again, told, due, excused, kind,
                 table, backup, draft, saved, slipped, crossed>>
notApproval == <<rights, logs, banned, bus, conn, page, shared, shell, session, load,
                 view, used, excuse, panel, place, clock, filter, timer, req, issued,
                 shown, selected, flag, own, filters, faults, edits, saves, kind, table,
                 backup, draft, saved, slipped, crossed>>
notSite == <<rights, logs, banned, bus, conn, page, shared, shell, session, load, view,
             used, excuse, panel, place, clock, filter, timer, req, issued, shown,
             selected, flag, own, filters, grants, right, mail, log, fate, event, hook,
             again, told, due>>
administration == <<part, rights, logs, banned, bus, conn, page, shared, shell, session,
                    load, view, used, excuse, panel, place, clock, filter, timer, req,
                    issued, shown, selected, flag, own, filters, faults, grants, gone,
                    edits, saves, right, task, mail, log, fate, event, hook, again,
                    told, due, excused, kind, table, backup, draft, saved, slipped,
                    crossed>>

\* They stay None: TLC needs an equation for each.
AdminInit ==
    \/ /\ part = "realtime" /\ Realtime!Init
       /\ panel = None /\ place = None /\ clock = None /\ filter = None /\ timer = None
       /\ req = None /\ issued = None /\ shown = None /\ selected = None /\ flag = None
       /\ own = None /\ filters = None /\ faults = None /\ grants = None /\ gone = None
       /\ edits = None /\ saves = None /\ right = None /\ task = None /\ mail = None /\ log = None
       /\ fate = None /\ event = None /\ hook = None /\ again = None /\ told = None /\ due = None
       /\ excused = None /\ kind = None /\ table = None /\ backup = None /\ draft = None
       /\ saved = None /\ slipped = None /\ crossed = None
    \/ /\ part = "panels" /\ Panel!Init
       /\ rights = None /\ logs = None /\ banned = None /\ bus = None /\ conn = None
       /\ page = None /\ shared = None /\ shell = None /\ session = None /\ load = None
       /\ view = None /\ used = None /\ grants = None /\ gone = None /\ edits = None
       /\ saves = None /\ right = None /\ task = None /\ mail = None /\ log = None /\ fate = None
       /\ event = None /\ hook = None /\ again = None /\ told = None /\ due = None
       /\ excused = None /\ kind = None /\ table = None /\ draft = None
       /\ saved = None /\ slipped = None /\ crossed = None
    \/ /\ part = "switches" /\ Switches!Init
       /\ rights = None /\ logs = None /\ banned = None /\ bus = None /\ conn = None
       /\ page = None /\ shared = None /\ shell = None /\ session = None /\ view = None
       /\ used = None /\ panel = None /\ place = None /\ filter = None /\ timer = None
       /\ issued = None /\ selected = None /\ filters = None /\ right = None /\ task = None
       /\ mail = None /\ log = None /\ fate = None /\ event = None /\ hook = None /\ again = None
       /\ told = None /\ due = None /\ excused = None /\ kind = None /\ table = None
       /\ backup = None /\ draft = None /\ saved = None /\ slipped = None /\ crossed = None
    \/ /\ part = "approvals" /\ Approval!Init
       /\ rights = None /\ logs = None /\ banned = None /\ bus = None /\ conn = None
       /\ page = None /\ shared = None /\ shell = None /\ session = None /\ load = None
       /\ view = None /\ used = None /\ excuse = None /\ panel = None /\ place = None
       /\ clock = None /\ filter = None /\ timer = None /\ req = None /\ issued = None
       /\ shown = None /\ selected = None /\ flag = None /\ own = None /\ filters = None
       /\ faults = None /\ edits = None /\ saves = None /\ kind = None /\ table = None
       /\ backup = None /\ draft = None /\ saved = None /\ slipped = None /\ crossed = None
    \/ /\ part = "settings" /\ Site!Init
       /\ rights = None /\ logs = None /\ banned = None /\ bus = None /\ conn = None
       /\ page = None /\ shared = None /\ shell = None /\ session = None /\ load = None
       /\ view = None /\ used = None /\ excuse = None /\ panel = None /\ place = None
       /\ clock = None /\ filter = None /\ timer = None /\ req = None /\ issued = None
       /\ shown = None /\ selected = None /\ flag = None /\ own = None /\ filters = None
       /\ grants = None /\ right = None /\ mail = None /\ log = None /\ fate = None
       /\ event = None /\ hook = None /\ again = None /\ told = None /\ due = None

AdminNext ==
    \/ part = "realtime" /\ Realtime!Next /\ UNCHANGED <<part, notRealtime>>
    \/ part = "panels" /\ Panel!Next /\ UNCHANGED <<part, notPanel>>
    \/ part = "switches" /\ Switches!Next /\ UNCHANGED <<part, notSwitches>>
    \/ part = "approvals" /\ Approval!Next /\ UNCHANGED <<part, notApproval>>
    \/ part = "settings" /\ Site!Next /\ UNCHANGED <<part, notSite>>

AdminSpec == AdminInit /\ [][AdminNext]_administration

-----------------------------------------------------------------------------
(* The menus an administrator sees are the rights the server holds, a      *)
(* banned address is out, and the log page misses no entry, but for the    *)
(* lost and overtaking events AdminRealtime names (lib/realtime.ts,        *)
(* lib/admin-session.ts, components/admin).                                *)
RealtimeCorrect ==
    part = "realtime" => /\ Realtime!TypeOK
                         /\ Realtime!MenusExplained
                         /\ Realtime!BannedIsOut
                         /\ Realtime!LogComplete

(* A panel lists what the server answered for its filter, acts on rows it  *)
(* shows, and runs one write at a time, where its code guards for it, and  *)
(* the switches of the sub-admins show what is stored; AdminPanels and     *)
(* SubAdmins state each part and name the exceptions                       *)
(* (components/admin/*.tsx, app/admin/sub-admins/page.tsx).                *)
PanelsCorrect ==
    /\ part = "panels" => /\ Panel!TypeOK
                          /\ Panel!ListExplained
                          /\ Panel!SelectionShown
                          /\ Panel!OneAtATime
    /\ part = "switches" => Switches!TypeOK /\ Switches!SwitchesExplained

(* A user is mailed once for each right he gained, or Approvals names the  *)
(* overlap that explains another, and a bounce the provider reported last  *)
(* is what the log shows (routes/admin.ts, routes/resendWebhook.ts).       *)
ApprovalsCorrect ==
    part = "approvals" => Approval!TypeOK /\ Approval!MailsExplained /\ Approval!BounceShown

(* Every important setting that a save changed is named in a policy review *)
(* that has run or is about to, and a banner form marked clean shows what  *)
(* is stored; SiteSettings states each part and names the exceptions       *)
(* (routes/admin.ts, lib/policyImpact.ts, banners-page.tsx).               *)
SettingsCorrect ==
    part = "settings" => Site!TypeOK /\ Site!ReviewExplained /\ Site!CleanExplained
=============================================================================
