----------------------------- MODULE Background -----------------------------
(***************************************************************************)
(* What the server does beside its requests, one module at a time: the     *)
(* bots' settings, the counting of views, the rate limits.                 *)
(* They share no state: `part' says which module a behaviour is of, and    *)
(* the variables it does not have are None.                                *)
(***************************************************************************)
EXTENDS Integers, FiniteSets, Sequences

CONSTANTS None,
  \* the bots' settings
  Page, Hook, Token, EnvToken, MaxEvents,
  \* the counting of views
  Visitor, Report, MaxBeacons, MaxFaults, MaxStops,
  \* the rate limits
  Address, Limit, Window, MaxTime, MaxRequests

VARIABLES part,  \* the module this behaviour is of
          seen, of, cache, late, job, events, running, day, daily, win, flush, life,
          work, beacons, faults, stops, views, viewers, due, blame, now, entry, reached,
          refused, requests

Bots == INSTANCE BotSettings WITH Null <- None
Views == INSTANCE Engagement WITH Request <- Report, up <- running, task <- work
Limits == INSTANCE RateLimits

ASSUME BotsAssumption == Bots!BotSettingsAssumption
ASSUME LimitsAssumption == Limits!LimitsAssumption

\* The variables a part does not have.
notBots == <<running, day, daily, win, flush, life, work, beacons, faults, stops, views,
             viewers, due, blame, now, entry, reached, refused, requests>>
notViews == <<seen, of, cache, late, job, events, now, entry, reached, refused, requests>>
notLimits == <<of, cache, late, job, events, running, day, daily, win, flush, life,
               work, beacons, faults, stops, views, viewers, due, blame>>
background == <<part, seen, of, cache, late, job, events, running, day, daily, win,
                flush, life, work, beacons, faults, stops, views, viewers, due, blame,
                now, entry, reached, refused, requests>>

\* They stay None: TLC needs an equation for each.
BackgroundInit ==
    \/ /\ part = "bots" /\ Bots!Init
       /\ running = None /\ day = None /\ daily = None /\ win = None /\ flush = None
       /\ life = None /\ work = None /\ beacons = None /\ faults = None /\ stops = None
       /\ views = None /\ viewers = None /\ due = None /\ blame = None /\ now = None
       /\ entry = None /\ reached = None /\ refused = None /\ requests = None
    \/ /\ part = "beacons" /\ Views!Init
       /\ seen = None /\ of = None /\ cache = None /\ late = None /\ job = None /\ events = None
       /\ now = None /\ entry = None /\ reached = None /\ refused = None /\ requests = None
    \/ /\ part = "limits" /\ Limits!Init
       /\ of = None /\ cache = None /\ late = None /\ job = None /\ events = None
       /\ running = None /\ day = None /\ daily = None /\ win = None /\ flush = None
       /\ life = None /\ work = None /\ beacons = None /\ faults = None /\ stops = None
       /\ views = None /\ viewers = None /\ due = None /\ blame = None

BackgroundNext ==
    \/ part = "bots" /\ Bots!Next /\ UNCHANGED <<part, notBots>>
    \/ part = "beacons" /\ Views!Next /\ UNCHANGED <<part, notViews>>
    \/ part = "limits" /\ Limits!Next /\ UNCHANGED <<part, notLimits>>

BackgroundSpec == BackgroundInit /\ [][BackgroundNext]_background

-----------------------------------------------------------------------------
(* The copy of the settings row that handlers act on is the row unless a   *)
(* save raced the read that made it, and a save nothing interferes with    *)
(* takes effect; BotSettings states each part (lib/telegramSettings.ts,    *)
(* routes/adminTelegram.ts).                                               *)
BotsCorrect ==
    part = "bots" => /\ Bots!TypeOK
                     /\ Bots!CopyExplained
                     /\ Bots!QuietSaveTakes

(* Every beacon is counted once across Redis, memory and Postgres, a       *)
(* visitor counts once a window, and today's numbers never run ahead of    *)
(* the beacons, but for the faults Engagement blames (lib/analytics.ts,    *)
(* lib/views.ts, lib/bannerAnalytics.ts).                                  *)
ViewsCorrect ==
    part = "beacons" => /\ Views!TypeOK
                        /\ Views!CountedOnce
                        /\ Views!NothingLost
                        /\ Views!OncePerWindow
                        /\ Views!TodayIsLive

(* No stretch as long as a window passes more than twice its limit, and a  *)
(* window without a request opens a limiter again (lib/rateLimit.ts,       *)
(* lib/socketRateLimit.ts).                                                *)
LimitsCorrect ==
    part = "limits" => /\ Limits!TypeOK
                       /\ Limits!AtMostTwice
                       /\ Limits!SilenceHeals
=============================================================================
