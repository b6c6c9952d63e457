----------------------------- MODULE Engagement -----------------------------
(***************************************************************************)
(* The public counters.  A page view is counted in Redis (or, while Redis  *)
(* is not available, in process memory) and folded into the DailyStat row  *)
(* of the day by a flush that runs every five minutes and at shutdown      *)
(* (lib/analytics.ts).  Quote views and banner events are counted once per *)
(* visitor and window: the visitor is marked in the same two stores and a  *)
(* Postgres counter is then incremented (lib/views.ts,                     *)
(* lib/bannerAnalytics.ts).  One day and one window length are modelled.   *)
(*                                                                         *)
(* `views', `viewers', `due' and `blame' are auxiliary: what browsers      *)
(* really reported, and the events after which a counter may differ.       *)
(***************************************************************************)
EXTENDS Naturals, FiniteSets

CONSTANTS
    Visitor,     \* digests of address and User-Agent
    Request,     \* requests the process serves at once
    MaxBeacons,  \* bound on the beacons browsers send
    MaxFaults,   \* bound on Redis, Postgres and process failures
    MaxStops     \* bound on orderly shutdowns

Counter == {"quote", "banner"}
Kind == Counter \cup {"page"}
Stores == {"redis", "memory"}
Pair == [uv : Nat, pv : Nat]
Zero == [uv |-> 0, pv |-> 0]

VARIABLES
    up,      \* redis.available; once lost it stays lost until a restart
    day,     \* per store: the visitors marked, the counters, the part already folded
    daily,   \* the DailyStat row
    win,     \* per counter: the visitors each store has marked, the stored total
    flush,   \* flushAnalyticsToDb: where it is, its store, what it read
    life,    \* "running", "flushing" (shutdown awaits its flush), "closing"
    task,    \* requests between two awaits
    beacons, faults, stops, views, viewers, due, blame

vars == <<up, day, daily, win, flush, life, task, beacons, faults, stops, views, viewers, due, blame>>
ghosts == <<stops, views, viewers, due>>

Idle == [pc |-> "idle"]
NoFlush == [pc |-> "idle", from |-> "redis", snap |-> Zero, delta |-> Zero]
NoCounts == [seen |-> {}, at |-> Zero, folded |-> Zero]

TypeOK ==
    /\ up \in BOOLEAN
    /\ day \in [Stores -> [seen : SUBSET Visitor, at : Pair, folded : Pair]]
    /\ daily \in Pair
    /\ win \in [Counter -> [redis : SUBSET Visitor, memory : SUBSET Visitor, stored : Nat]]
    /\ flush \in [pc : {"idle", "read", "write", "mark"}, from : Stores, snap : Pair, delta : Pair]
    /\ life \in {"running", "flushing", "closing"}
    /\ \A r \in Request :
         \/ task[r] = Idle
         \/ task[r] \in [pc : {"mark", "uv", "store"}, kind : Kind, who : Visitor]
    /\ viewers \subseteq Visitor
    /\ blame \subseteq {"unmarked", "retold", "switched", "dropped", "forgotten", "skipped"}

Init ==
    /\ up \in BOOLEAN
    /\ day = [s \in Stores |-> NoCounts]
    /\ daily = Zero
    /\ win = [c \in Counter |-> [redis |-> {}, memory |-> {}, stored |-> 0]]
    /\ flush = NoFlush
    /\ life = "running"
    /\ task = [r \in Request |-> Idle]
    /\ beacons = 0 /\ faults = 0 /\ stops = 0
    /\ views = 0 /\ viewers = {}
    /\ due = [c \in Counter |-> 0]
    /\ blame = {}

Store == IF up THEN "redis" ELSE "memory"
Fault == faults < MaxFaults /\ faults' = faults + 1
Goto(r, pc) == task' = [task EXCEPT ![r].pc = pc]
End(r) == task' = [task EXCEPT ![r] = Idle]
Lost == up' = FALSE
Switched == IF up /\ beacons > 0 THEN {"switched"} ELSE {}
Plus(a, b) == [uv |-> a.uv + b.uv, pv |-> a.pv + b.pv]
Minus(a, b) == [uv |-> a.uv - b.uv, pv |-> a.pv - b.pv]

-----------------------------------------------------------------------------
(* Beacons.  The browser reports a navigation, the feed it is given, or a  *)
(* banner that stayed visible; requests of bots are refused and not shown. *)

\* What a store that has marked `seen' answers to SET NX: only a new visitor is fresh.
FreshAlways(v, seen) == TRUE
Fresh(v, seen) == v \notin seen

\* trackPageView without Redis: one synchronous step.
MemoryPage(v) ==
    day' = [day EXCEPT !["memory"].seen = @ \cup {v},
                       !["memory"].at = [uv |-> @.uv + (IF Fresh(v, day["memory"].seen) THEN 1 ELSE 0),
                                         pv |-> @.pv + 1]]

\* A mark in store s; the first of any store opens a window for the visitor.
Marked(c, s, v) ==
    /\ win' = [win EXCEPT ![c][s] = @ \cup {v}]
    /\ due' = IF v \in win[c]["redis"] \cup win[c]["memory"] THEN due ELSE [due EXCEPT ![c] = @ + 1]

MemoryWindow(r, c, v) ==
    /\ Marked(c, "memory", v)
    /\ task' = [task EXCEPT ![r] =
         IF Fresh(v, win[c]["memory"]) THEN [pc |-> "store", kind |-> c, who |-> v] ELSE Idle]

Beacon(r, k, v) ==
    /\ task[r] = Idle /\ beacons < MaxBeacons
    /\ beacons' = beacons + 1
    /\ IF k = "page" THEN views' = views + 1 /\ viewers' = viewers \cup {v}
                     ELSE UNCHANGED <<views, viewers>>
    /\ \/ /\ up
          /\ task' = [task EXCEPT ![r] = [pc |-> "mark", kind |-> k, who |-> v]]
          /\ UNCHANGED <<day, win, due>>
       \/ /\ ~up /\ k = "page" /\ MemoryPage(v)
          /\ UNCHANGED <<win, task, due>>
       \/ /\ ~up /\ k # "page" /\ MemoryWindow(r, k, v)
          /\ UNCHANGED day
    /\ UNCHANGED <<up, daily, flush, life, faults, stops, blame>>

\* The first pipeline of trackPageView: mark the visitor, count the view.
RedisPage(v) == day' = [day EXCEPT !["redis"].seen = @ \cup {v}, !["redis"].at.pv = @ + 1]

MarkPage(r) ==
    /\ task[r].pc = "mark" /\ task[r].kind = "page"
    /\ RedisPage(task[r].who)
    /\ IF Fresh(task[r].who, day["redis"].seen) THEN Goto(r, "uv") ELSE End(r)
    /\ UNCHANGED <<up, daily, win, flush, life, beacons, faults, ghosts, blame>>

\* The second pipeline: a new visitor is counted.
CountVisitor(r) ==
    /\ task[r].pc = "uv"
    /\ day' = [day EXCEPT !["redis"].at.uv = @ + 1]
    /\ End(r)
    /\ UNCHANGED <<up, daily, win, flush, life, beacons, faults, ghosts, blame>>

\* A pipeline is cut off: the errors it carries are taken for "not new", or it throws and
\* the view is counted again in memory.  The commands may have run or not.
PageFails(r) ==
    /\ task[r].pc \in {"mark", "uv"} /\ task[r].kind = "page"
    /\ Fault /\ Lost /\ End(r)
    /\ \E ran, thrown \in BOOLEAN :
         LET v == task[r].who
             first == task[r].pc = "mark"
             kept == IF ~ran THEN day["redis"]
                     ELSE IF first THEN [day["redis"] EXCEPT !.seen = @ \cup {v}, !.at.pv = @ + 1]
                     ELSE [day["redis"] EXCEPT !.at.uv = @ + 1]
             mem == day["memory"]
             told == [mem EXCEPT !.seen = @ \cup {v},
                                 !.at = [uv |-> @.uv + (IF Fresh(v, mem.seen) THEN 1 ELSE 0),
                                         pv |-> @.pv + 1]]
         IN /\ day' = [redis |-> kept, memory |-> IF thrown THEN told ELSE mem]
            /\ blame' = blame \cup Switched
                 \cup (IF thrown /\ (ran \/ ~first) THEN {"retold"} ELSE {})
                 \cup (IF ~thrown /\ (~ran \/ first) THEN {"dropped"} ELSE {})
    /\ UNCHANGED <<daily, win, flush, life, beacons, ghosts>>

\* SET NX of the dedupe key, alone or in the pipeline of a feed page.
MarkWindow(r) ==
    /\ task[r].pc = "mark" /\ task[r].kind # "page"
    /\ LET c == task[r].kind v == task[r].who
       IN /\ Marked(c, "redis", v)
          /\ IF Fresh(v, win[c]["redis"]) THEN Goto(r, "store") ELSE End(r)
    /\ UNCHANGED <<up, day, daily, flush, life, beacons, faults, stops, views, viewers, blame>>

\* It fails: the key counts as seen (one command of a feed pipeline), or memory decides.
WindowFails(r) ==
    /\ task[r].pc = "mark" /\ task[r].kind # "page"
    /\ Fault /\ Lost
    /\ LET c == task[r].kind v == task[r].who
       IN \/ c = "quote" /\ End(r) /\ UNCHANGED <<win, due>> /\ blame' = blame \cup Switched \cup {"dropped"}
          \/ MemoryWindow(r, c, v) /\ blame' = blame \cup Switched
    /\ UNCHANGED <<day, daily, flush, life, beacons, stops, views, viewers>>

\* The Postgres increment after the mark; a failure is swallowed or answered with 500.
Increment(r) ==
    /\ task[r].pc = "store"
    /\ win' = [win EXCEPT ![task[r].kind].stored = @ + 1]
    /\ End(r)
    /\ UNCHANGED <<up, day, daily, flush, life, beacons, faults, ghosts, blame>>

IncrementFails(r) ==
    /\ task[r].pc = "store"
    /\ Fault /\ End(r)
    /\ blame' = blame \cup {"dropped"}
    /\ UNCHANGED <<up, day, daily, win, flush, life, beacons, ghosts>>

\* A visitor's window is over: the Redis key lapses, the memory entry is too old to count.
WindowEnds(c, v) ==
    /\ v \in win[c]["redis"] \cup win[c]["memory"]
    /\ win' = [win EXCEPT ![c].redis = @ \ {v}, ![c].memory = @ \ {v}]
    /\ UNCHANGED <<up, day, daily, flush, life, task, beacons, faults, ghosts, blame>>

-----------------------------------------------------------------------------
(* The flush.  `flushing' lets one run at a time.                          *)

\* Zero when neither counter has grown, or the two differences.
DeltaWhole(s) == IF day[s].at = day[s].folded THEN Zero ELSE day[s].at
Delta(s) == Minus(day[s].at, day[s].folded)

\* From Redis the counters are read first; from memory they are read in this very step.
Begin ==
    IF up THEN flush' = [NoFlush EXCEPT !.pc = "read"]
    ELSE flush' = IF Delta("memory") = Zero THEN NoFlush
                  ELSE [pc |-> "write", from |-> "memory", snap |-> day["memory"].at,
                        delta |-> Delta("memory")]

Free == flush.pc = "idle"

Flush ==
    /\ life = "running" /\ Free
    /\ Begin
    /\ UNCHANGED <<up, day, daily, win, life, task, beacons, faults, ghosts, blame>>

ReadCounters ==
    /\ flush.pc = "read"
    /\ flush' = IF Delta("redis") = Zero THEN NoFlush
                ELSE [pc |-> "write", from |-> "redis", snap |-> day["redis"].at,
                      delta |-> Delta("redis")]
    /\ UNCHANGED <<up, day, daily, win, life, task, beacons, faults, ghosts, blame>>

ReadFails ==
    /\ flush.pc = "read"
    /\ Fault /\ Lost
    /\ flush' = NoFlush
    /\ blame' = blame \cup Switched
    /\ UNCHANGED <<day, daily, win, life, task, beacons, ghosts>>

\* applyDelta; the memory path then takes the counters as they are by now.
Apply ==
    /\ flush.pc = "write"
    /\ daily' = Plus(daily, flush.delta)
    /\ \/ /\ flush.from = "redis"
          /\ flush' = [flush EXCEPT !.pc = "mark"]
          /\ UNCHANGED <<day, blame>>
       \/ /\ flush.from = "memory"
          /\ flush' = NoFlush
          /\ day' = [day EXCEPT !["memory"].folded = day["memory"].at]
          /\ blame' = IF day["memory"].at = flush.snap THEN blame ELSE blame \cup {"skipped"}
    /\ UNCHANGED <<up, win, life, task, beacons, faults, ghosts>>

\* The upsert fails, before or after Postgres applied it; nothing is marked.
ApplyFails ==
    /\ flush.pc = "write"
    /\ Fault
    /\ \E ran \in BOOLEAN :
         /\ daily' = IF ran THEN Plus(daily, flush.delta) ELSE daily
         /\ blame' = IF ran THEN blame \cup {"unmarked"} ELSE blame
    /\ flush' = NoFlush
    /\ UNCHANGED <<up, day, win, life, task, beacons, ghosts>>

\* SETEX of what was read, not of what the counters are by now.
SnapshotLate == day["redis"].at
Snapshot == flush.snap

MarkFolded ==
    /\ flush.pc = "mark"
    /\ day' = [day EXCEPT !["redis"].folded = Snapshot]
    /\ flush' = NoFlush
    /\ UNCHANGED <<up, daily, win, life, task, beacons, faults, ghosts, blame>>

MarkFails ==
    /\ flush.pc = "mark"
    /\ Fault /\ Lost
    /\ flush' = NoFlush
    /\ blame' = blame \cup Switched \cup {"unmarked"}
    /\ UNCHANGED <<day, daily, win, life, task, beacons, ghosts>>

-----------------------------------------------------------------------------
(* The process.                                                            *)

RedisLost ==
    /\ up /\ Fault /\ Lost
    /\ blame' = blame \cup Switched
    /\ UNCHANGED <<day, daily, win, flush, life, task, beacons, ghosts>>

\* SIGTERM: the interval is cleared and a last flush awaited.  If one is under way the
\* guard returns at once, and nothing waits for it any more.
Shutdown ==
    /\ life = "running" /\ stops < MaxStops
    /\ stops' = stops + 1
    /\ \/ Free /\ life' = "flushing" /\ Begin
       \/ ~Free /\ life' = "closing" /\ UNCHANGED flush
    /\ UNCHANGED <<up, day, daily, win, task, beacons, faults, views, viewers, due, blame>>

Pending(s) == Delta(s) # Zero
Serving == \E r \in Request : task[r] # Idle

\* The process is gone; the next one starts with or without Redis.
Renew ==
    /\ up' \in BOOLEAN
    /\ day' = [day EXCEPT !["memory"] = NoCounts]
    /\ win' = [c \in Counter |-> [win[c] EXCEPT !.memory = {}]]
    /\ flush' = NoFlush
    /\ life' = "running"
    /\ task' = [r \in Request |-> Idle]
    /\ blame' = blame
         \cup (IF flush.pc = "mark" THEN {"unmarked"} ELSE {})
         \cup (IF Pending("memory") THEN {"forgotten"} ELSE {})
         \cup (IF Serving THEN {"dropped"} ELSE {})
         \cup (IF beacons > 0 /\ ~(up /\ up') THEN {"switched"} ELSE {})
    /\ UNCHANGED <<daily, beacons, ghosts>>

Exit ==
    /\ life = "closing" \/ (life = "flushing" /\ flush.pc = "idle")
    /\ Renew /\ UNCHANGED faults

Crash == Fault /\ Renew

Next ==
    \/ \E r \in Request :
         \/ \E k \in Kind, v \in Visitor : Beacon(r, k, v)
         \/ MarkPage(r) \/ CountVisitor(r) \/ PageFails(r)
         \/ MarkWindow(r) \/ WindowFails(r) \/ Increment(r) \/ IncrementFails(r)
    \/ \E c \in Counter, v \in Visitor : WindowEnds(c, v)
    \/ Flush \/ ReadCounters \/ ReadFails \/ Apply \/ ApplyFails \/ MarkFolded \/ MarkFails
    \/ RedisLost \/ Shutdown \/ Exit \/ Crash

Spec == Init /\ [][Next]_vars

-----------------------------------------------------------------------------
(* Properties.                                                             *)

\* The daily record never counts a page view twice unless an increment stayed unmarked (the
\* process ended, or a write failed, between the two) or a view was told to both stores;
\* nor a visitor twice unless the store changed during the day.  (analytics.ts 221-273.)
CountedOnce ==
    blame \cap {"unmarked", "retold"} = {} =>
        /\ daily.pv <= views
        /\ "switched" \notin blame => daily.uv <= Cardinality(viewers)

\* When nothing is under way every page view is in the daily record or will be folded into
\* it, unless a request or its store died with it or it arrived while a flush from memory
\* awaited Postgres.  (analytics.ts 256-267.)
NothingLost ==
    (~Serving /\ flush.pc = "idle" /\ blame \cap {"dropped", "forgotten", "skipped"} = {}) =>
        daily.pv + Delta("redis").pv + Delta("memory").pv >= views

\* A visitor counts once per window however many requests and flushes overlap, unless the
\* store changed; and does count, unless the increment failed.  (views.ts, bannerAnalytics.ts.)
OncePerWindow ==
    \A c \in Counter :
        /\ "switched" \notin blame => win[c].stored <= due[c]
        /\ (~Serving /\ "dropped" \notin blame) => win[c].stored >= due[c]

\* visitorHistory shows today's counters of the store in use instead of the row: that is all
\* there was today as long as nothing went wrong, however the flush stands.
TodayIsLive ==
    (blame = {} /\ ~Serving) =>
        day[Store].at = [uv |-> Cardinality(viewers), pv |-> views]

\* "A simple in-flight guard stops concurrent flushes from double-applying": without any
\* failure the daily record never exceeds the views.  (analytics.ts 222-223.)
\* A claim the code does not keep (README, Disagreements).
GuardSuffices == faults = 0 => daily.pv <= views
=============================================================================
