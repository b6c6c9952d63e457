------------------------------ MODULE HomeFeed ------------------------------
(***************************************************************************)
(* The public feed: the home page (client/src/app/HomeFeed.tsx) that turns *)
(* the URL's filter and page into requests and appends the pages to one    *)
(* list, and the offset pagination of GET /api/quotes behind it            *)
(* (server/src/routes/quotes.ts), while quotes are approved, archived and  *)
(* erased and answers come late, out of order or never.                    *)
(*                                                                         *)
(* A quote is its age (a greater number is newer); search, category, tag,  *)
(* language and sort are one filter that selects and orders quotes.  Left  *)
(* out: the page's texts and banners, scrolling, a ?page= that is no       *)
(* number, and the board of the waiting game.                              *)
(***************************************************************************)
EXTENDS Integers, Sequences, FiniteSets

CONSTANTS MaxQuote,     \* quotes 1..MaxQuote
          Matches,      \* [filter -> the quotes it selects]
          Popular,      \* filters that sort by likes or views
          EntryPage,    \* pages a visitor may open or reload
          Limit,        \* quotes in a page
          Collections,  \* sets of quotes that may be approved at the start
          Links,        \* quotes a visitor's link may share
          Request, None,
          MaxFetches, MaxMoves,
          MaxTrouble    \* edits and scores of the collection and failures of requests, together

Quote == 1..MaxQuote
LimitAssumption == /\ Limit \in Nat \ {0} /\ MaxQuote \in Nat
                   /\ Links \subseteq Quote /\ Collections \subseteq SUBSET Quote
                   /\ EntryPage \subseteq Nat \ {0}
Filter == DOMAIN Matches

VARIABLES approved, trashed,  \* quotes with status APPROVED, with deletedAt set
          score,              \* likes or views of each quote
          version, turns,     \* changes so far of the first two, and of the scores
          url, past,          \* filter, page and shared quote; the address before it
          clearing, starting, \* timers of the filter effect and of the page effect
          req, newest,        \* requests in flight, requestIdRef
          list, total, loading, error, game,
          link,               \* the shared quote's own request
          linked,             \* deepLinkedRef
          made, odd,          \* stamps the list is made of; what is unusual about it
          landed,             \* the newest request's answer was applied
          moves, faults

server == <<approved, trashed, score, version, turns>>
nav == <<url, past, clearing, starting, moves>>
view == <<list, total, loading, error, game, made, odd, landed>>
shared == <<link, linked>>
vars == <<server, nav, req, newest, view, shared, faults>>

-----------------------------------------------------------------------------
(* GET /api/quotes: where, order by, skip and take.                        *)
Listed == approved
\* sortOrder: by likes or views, then by date; or by date alone.
Weight(f) == IF f \in Popular THEN score ELSE [n \in Quote |-> 0]
Ahead(v, m, n) == v[m] > v[n] \/ (v[m] = v[n] /\ m > n)

\* The i-th row is the quote with i - 1 others ahead of it.
Before(S, v, n) == {m \in S : Ahead(v, m, n)}
Sorted(S, v) == [i \in 1..Cardinality(S) |-> CHOOSE n \in S : Cardinality(Before(S, v, n)) = i - 1]
Ranked(f) == Sorted(Listed \cap Matches[f], Weight(f))
First(s, k) == SubSeq(s, 1, IF k < Len(s) THEN k ELSE Len(s))
Slice(f, p) == LET s == First(Ranked(f), p * Limit) IN SubSeq(s, (p - 1) * Limit + 1, Len(s))

\* What a filter's rows depend on was changed so many times.
Stamp(f) == IF f \in Popular THEN version + turns ELSE version
Trouble == version + turns + faults

\* GET /api/quotes/:id: an approved quote that is not archived.
Readable(n) == n \in approved \ trashed

Idle == [phase |-> "idle"]

\* A later page that is opened or reloaded is all there is of the list.  The
\* link to a quote names no page (shareUrl); opening one is the visit's first move.
Init == /\ approved \in Collections
        /\ trashed = {} /\ score = [n \in Quote |-> 0] /\ version = 0 /\ turns = 0
        /\ url \in [filter : Filter, page : EntryPage, quote : Links \cup {None}]
        /\ past = url /\ (url.quote # None => url.page = 1)
        /\ clearing = TRUE /\ starting = TRUE
        /\ req = [q \in Request |-> Idle] /\ newest = 0
        /\ list = <<>> /\ total = 0 /\ loading = TRUE /\ error = FALSE /\ game = FALSE
        /\ link = None /\ linked = None
        /\ made = {} /\ odd = (IF url.page = 1 THEN {} ELSE {"entered"}) /\ landed = FALSE
        /\ moves = (IF url.quote = None THEN 0 ELSE 1) /\ faults = 0

-----------------------------------------------------------------------------
(* The collection changes: a moderator approves, archives, restores or     *)
(* erases a quote (admin.ts).                                              *)
Edit(app, gone) == /\ Trouble < MaxTrouble
                   /\ approved' = app /\ trashed' = gone
                   /\ version' = version + 1
                   /\ UNCHANGED <<score, turns, nav, req, newest, view, shared, faults>>

Approve(n) == n \notin approved /\ Edit(approved \cup {n}, trashed)
Archive(n) == n \in approved \ trashed /\ Edit(approved, trashed \cup {n})
Restore(n) == n \in trashed /\ Edit(approved, trashed \ {n})
Erase(n) == n \in approved /\ Edit(approved \ {n}, trashed \ {n})

\* A visitor likes a quote, takes a like back, or views it: reading the feed
\* counts a view of each of its quotes.
Scores(n) == /\ Trouble < MaxTrouble
             /\ \E v \in {score[n] + 1, score[n] - 1} \cap Nat : score' = [score EXCEPT ![n] = v]
             /\ turns' = turns + 1
             /\ UNCHANGED <<approved, trashed, version, nav, req, newest, view, shared, faults>>

-----------------------------------------------------------------------------
(* The address changes.  A new filter schedules the clearing of the list;  *)
(* any change schedules a request.                                         *)
Go(u) == /\ moves < MaxMoves /\ u # url
         /\ url' = u /\ past' = url
         /\ clearing' = (clearing \/ u.filter # url.filter)
         /\ starting' = (starting \/ u.filter # url.filter \/ u.page # url.page)
         /\ moves' = moves + 1
         /\ UNCHANGED <<server, req, newest, list, total, loading, error, game, made, landed,
                        shared, faults>>

\* The NavBar drops the page.
ChooseFilter == \E f \in Filter \ {url.filter} :
    Go([filter |-> f, page |-> 1, quote |-> url.quote]) /\ UNCHANGED odd

\* "Show more": the button is there while quotes remain and nothing loads.
\* Pressed again before the page effect's timer, it replaces that request.
LoadMore == /\ total > Len(list) /\ ~error /\ ~loading
            /\ Go([filter |-> url.filter, page |-> url.page + 1, quote |-> None])
            /\ odd' = IF starting THEN odd \cup {"hurried"} ELSE odd

\* The browser's Back: to a page whose predecessors may not be on screen.
Back == Go(past) /\ odd' = odd \cup {"back"}

\* The timer of the filter effect.
Clear == /\ clearing
         /\ clearing' = FALSE
         /\ list' = <<>> /\ total' = 0 /\ made' = {}
         /\ UNCHANGED <<server, url, past, starting, moves, req, newest, loading, error, game,
                        odd, landed, shared, faults>>

-----------------------------------------------------------------------------
(* fetchQuotes(page).                                                      *)
Fetch(q) == /\ req[q] = Idle /\ newest < MaxFetches
            /\ newest' = newest + 1
            /\ req' = [req EXCEPT ![q] = [phase |-> "asked", id |-> newest + 1, at |-> url,
                                          watched |-> TRUE]]
            /\ loading' = TRUE /\ error' = FALSE /\ landed' = FALSE

\* The page effect's timer: it was set after the filter effect's.
StartFetch(q) == /\ starting /\ ~clearing
                 /\ Fetch(q)
                 /\ starting' = FALSE
                 /\ UNCHANGED <<server, url, past, clearing, moves, list, total, game, made, odd,
                                shared, faults>>

\* The button under the error line.
Retry(q) == /\ error /\ Fetch(q)
            /\ UNCHANGED <<server, nav, list, total, game, made, odd, shared, faults>>

\* The game saw /api/health answer: it asks for the page once more, also when
\* the page has arrived in the meantime.
GameReady(q) == /\ game /\ game' = FALSE
                /\ Fetch(q)
                /\ odd' = IF landed /\ url.page > 1 THEN odd \cup {"again"} ELSE odd
                /\ UNCHANGED <<server, nav, list, total, made, shared, faults>>

\* findMany and count run side by side: one of them reads now, the other later.
Rows(q) == Slice(req[q].at.filter, req[q].at.page)
Count(q) == Len(Ranked(req[q].at.filter))
Reads(q, phase, rows, count, stamps) ==
    /\ req' = [req EXCEPT ![q] = [phase |-> phase, id |-> req[q].id, at |-> req[q].at,
                                  watched |-> req[q].watched, rows |-> rows, total |-> count,
                                  stamps |-> stamps \cup {Stamp(req[q].at.filter)}]]
    /\ UNCHANGED <<server, nav, newest, view, shared, faults>>

StartReading(q) == /\ req[q].phase = "asked"
                   /\ Reads(q, "reading", Rows(q), Count(q), {})

Answer(q) == /\ req[q].phase = "reading"
             /\ \/ Reads(q, "answered", req[q].rows, Count(q), req[q].stamps)
                \/ Reads(q, "answered", Rows(q), req[q].total, req[q].stamps)

\* requestId === requestIdRef.current
AnyAnswer(q) == TRUE
Current(q) == req[q].id = newest

\* The answer arrives: a stale one is dropped, page 1 replaces the list, a
\* later page is appended to it.
Arrive(q) ==
    /\ req[q].phase = "answered"
    /\ req' = [req EXCEPT ![q] = Idle]
    /\ IF Current(q)
       THEN LET a == req[q] IN
            /\ error' = FALSE /\ loading' = FALSE /\ landed' = TRUE
            /\ list' = IF a.at.page = 1 THEN a.rows ELSE list \o a.rows
            /\ made' = IF a.at.page = 1 THEN a.stamps ELSE made \cup a.stamps
            /\ odd' = IF a.at.page = 1 /\ a.at = url THEN {} ELSE odd
            /\ total' = a.total
       ELSE UNCHANGED <<error, loading, landed, list, made, odd, total>>
    /\ UNCHANGED <<server, nav, newest, game, shared, faults>>

\* The request fails, or its answer never comes.
Fail(q) == /\ req[q].phase \in {"asked", "reading", "answered"} /\ Trouble < MaxTrouble
           /\ req' = [req EXCEPT ![q] = Idle]
           /\ error' = (error \/ Current(q))
           /\ loading' = (loading /\ ~Current(q))
           /\ faults' = faults + 1
           /\ UNCHANGED <<server, nav, newest, list, total, game, made, odd, landed, shared>>

\* Giving up a request ends the loading state, for the newest one.
StillLoading(q) == loading
GivesUp(q) == loading /\ ~Current(q)

\* A request that hangs is never answered; its watchdog still fires.
Hang(q) == /\ req[q].phase = "asked" /\ Trouble < MaxTrouble
           /\ req' = [req EXCEPT ![q].phase = "hung"]
           /\ faults' = faults + 1
           /\ UNCHANGED <<server, nav, newest, view, shared>>

\* 12 s: the newest request is reported as failed and stays accepted.
Watchdog(q) == /\ req[q] # Idle /\ req[q].watched
               /\ req' = [req EXCEPT ![q] = IF req[q].phase = "hung" THEN Idle
                                            ELSE [req[q] EXCEPT !.watched = FALSE]]
               /\ error' = (error \/ Current(q))
               /\ loading' = GivesUp(q)
               /\ UNCHANGED <<server, nav, newest, list, total, game, made, odd, landed, shared,
                              faults>>

\* The waiting game is shown after an error, or 4 s of an empty loading page.
ShowGame == /\ ~game /\ (error \/ (loading /\ list = <<>>))
            /\ game' = TRUE
            /\ UNCHANGED <<server, nav, req, newest, list, total, loading, error, made, odd,
                           landed, shared, faults>>

-----------------------------------------------------------------------------
(* The shared quote (?quote=<id>): asked for once when the loaded list     *)
(* does not hold it, and prepended.                                        *)
AskLink == /\ url.quote # None /\ ~loading /\ linked # url.quote
           /\ \A i \in DOMAIN list : list[i] # url.quote
           /\ linked' = url.quote
           /\ link' = url.quote
           /\ UNCHANGED <<server, nav, req, newest, view, faults>>

\* Its answer: total counts one more even when the list holds it by now.
ArriveLink == /\ link # None
              /\ IF Readable(link)
                 THEN /\ list' = IF \E i \in DOMAIN list : list[i] = link THEN list
                                 ELSE <<link>> \o list
                      /\ total' = total + 1
                      /\ odd' = odd \cup {"linked"}
                 ELSE UNCHANGED <<list, total, odd>>
              /\ link' = None
              /\ UNCHANGED <<server, nav, req, newest, loading, error, game, made, landed, linked,
                             faults>>

Next == \/ \E n \in Quote : Approve(n) \/ Archive(n) \/ Restore(n) \/ Erase(n) \/ Scores(n)
        \/ ChooseFilter \/ LoadMore \/ Back \/ Clear
        \/ \E q \in Request : \/ StartFetch(q) \/ Retry(q) \/ GameReady(q) \/ StartReading(q)
                              \/ Answer(q) \/ Arrive(q) \/ Fail(q) \/ Hang(q) \/ Watchdog(q)
        \/ ShowGame \/ AskLink \/ ArriveLink

Spec == Init /\ [][Next]_vars

-----------------------------------------------------------------------------
TypeOK == /\ approved \subseteq Quote /\ trashed \subseteq approved
          /\ url \in [filter : Filter, page : Nat \ {0}, quote : Quote \cup {None}]
          /\ list \in Seq(Quote) /\ total \in Nat
          /\ {loading, error, game, clearing, starting, landed} \subseteq BOOLEAN
          /\ odd \subseteq {"entered", "back", "again", "linked", "hurried"}
          /\ score \in [Quote -> Nat]

InFlight == {q \in Request : req[q] # Idle}
Settled == InFlight = {} /\ ~clearing /\ ~starting /\ ~loading /\ ~error

(***************************************************************************)
(* A feed at rest is exactly the first pages of what its URL asks for: no  *)
(* quote of an earlier filter, none twice, none skipped ("so the list      *)
(* always matches the URL", HomeFeed.tsx:98).  Excepted are lists whose    *)
(* rows or totals were read while the collection, or the order its filter  *)
(* sorts by, changed, that were entered on a later page, that Back led to, *)
(* that the waiting game fetched once more, whose next page was asked for  *)
(* twice, or that a shared quote heads.                                    *)
(***************************************************************************)
FeedIsPrefix ==
    Settled /\ odd = {} /\ made = {Stamp(url.filter)}
      => /\ list = First(Ranked(url.filter), url.page * Limit)
         /\ total = Len(Ranked(url.filter))

(***************************************************************************)
(* What an archived quote's own address no longer shows (GET /:id) is not  *)
(* in a feed read since then either: "soft delete (moves to trash)",       *)
(* admin.ts:555.                                                           *)
(* A claim the code does not keep (README, Disagreements).                 *)
(***************************************************************************)
TrashIsHidden == Settled /\ made = {Stamp(url.filter)} => \A i \in DOMAIN list : list[i] \notin trashed

(***************************************************************************)
(* The page never stays in its loading state: while it loads, its request  *)
(* is about to be sent, or the newest request's watchdog is still to fire. *)
(***************************************************************************)
LoadingWatched == loading => starting \/ \E q \in InFlight : Current(q) /\ req[q].watched
=============================================================================
