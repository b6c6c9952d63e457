----------------------------- MODULE Collections -----------------------------
(***************************************************************************)
(* Likes and collections of one member: the routes (server/src/routes/     *)
(* collections.ts, the likes of quotes.ts) and the cards that show one     *)
(* quote in several tabs (client/src/components/QuoteCard.tsx), with the   *)
(* collections tab of the profile (client/src/app/profile/page.tsx).  A    *)
(* request is sent, carried out by the server and answered in three steps; *)
(* the answer may be lost, a request given up may still be carried out,    *)
(* lists arrive late and out of order, other members like the quote too,   *)
(* and an administrator may withdraw the quote.                            *)
(*                                                                         *)
(* A collection is the sequence of its quotes, newest first.  A card has   *)
(* one busy flag for adding to a listed collection (or liking) and one for *)
(* creating a collection, and none for listing them.  Likes and            *)
(* collections touch no common row: a behaviour is about one of the two    *)
(* topics.                                                                 *)
(***************************************************************************)
EXTENDS Naturals, Sequences, SequencesExt, FiniteSets

CONSTANTS Card,      \* cards of the quote, each in a tab of the member
          Col,       \* collections the member may own
          Quote, Other, \* the quote of the cards and any other quote
          Preview,   \* the newest quotes a listed collection carries; 3 in the code
          Listing,   \* requests for the member's collections that may be in flight
          Topics,    \* what behaviours are about: "likes", "collections"
          None, MaxOthers,
          MaxFaults  \* answers lost, and times the quote is withdrawn

BoundsAssumption == MaxOthers \in Nat /\ MaxFaults \in Nat

VARIABLES topic,
          liked, others,  \* the stored like of the member, and the likes of other members
          public,         \* the quote is approved and not deleted
          col,            \* the stored collections, or None
          shown,          \* what a card shows: liked, count
          picker,         \* the previews a card's picker lists a collection with
          overrides,      \* memberOverrides
          job,            \* the requests cards wait for
          lists,          \* GET /collections/mine in flight
          late,           \* requests given up that are still to be carried out
          astray,         \* cards whose like was changed elsewhere, or whose answer was lost
          drifted,        \* cards whose count misses such a change, or a like of another member
          excused,        \* collections that lost the quote without a card being told
          outdated,       \* those that lost it since the list a card shows was read
          faults

stored == <<topic, liked, others, public, col>>
cards == <<shown, picker, overrides, job, lists>>
likes == <<astray, drifted>>
history == <<likes, excused, outdated>>
vars == <<stored, cards, late, history, faults>>

StoredCollection == Seq({Quote, Other})
Likes == others + (IF liked THEN 1 ELSE 0)
Newest(c) == {col[c][i] : i \in DOMAIN col[c] \cap 1..Preview}
Listed == [c \in Col |-> IF col[c] = None THEN {} ELSE {Newest(c)}]
Member(c) == col[c] # None /\ Quote \in ToSet(col[c])

\* busy or collectionsBusy, and creatingCollection, of each card.
Call == Card \X {"toggle", "create"}
Idle == [kind |-> "idle"]
About(r, c) == r.kind \in {"collect", "create"} /\ r.col = c
Unlisted == [c \in Col |-> {}]
AtRest(k) == job[<<k, "toggle">>] = Idle /\ job[<<k, "create">>] = Idle

Init == /\ topic \in Topics
        /\ liked = FALSE /\ others = 0 /\ public = TRUE
        /\ col = [c \in Col |-> None]
        /\ shown = [k \in Card |-> [liked |-> FALSE, count |-> 0]]
        /\ picker = [k \in Card |-> Unlisted]
        /\ overrides = [k \in Card |-> {}]
        /\ job = [j \in Call |-> Idle]
        /\ lists = [q \in Listing |-> Idle] /\ late = {}
        /\ astray = {} /\ drifted = {}
        /\ excused = [k \in Card |-> {}] /\ outdated = [k \in Card |-> {}]
        /\ faults = 0

-----------------------------------------------------------------------------
\* The picker of a card starts without a list.
Empties(k) == /\ picker' = [picker EXCEPT ![k] = Unlisted]
              /\ outdated' = [outdated EXCEPT ![k] = {}]

(* A card is mounted with the quote as the server has it (toPublicQuote);  *)
(* it is there from then on.  Lists asked for by an earlier one are for    *)
(* nobody.                                                                 *)
Mount(k) == /\ AtRest(k) /\ public
            /\ shown' = [shown EXCEPT ![k] = [liked |-> liked, count |-> Likes]]
            /\ Empties(k)
            /\ overrides' = [overrides EXCEPT ![k] = {}]
            /\ lists' = [q \in Listing |-> IF lists[q].kind # "idle" /\ lists[q].card = k THEN Idle
                                           ELSE lists[q]]
            /\ astray' = astray \ {k} /\ drifted' = drifted \ {k}
            /\ excused' = [excused EXCEPT ![k] = {}]
            /\ UNCHANGED <<stored, job, late, faults>>

\* openCollectionPicker empties the list, keeps the overrides, and asks.
OpenPicker(k, q) ==
    /\ topic = "collections" /\ lists[q] = Idle
    /\ Empties(k)
    /\ lists' = [lists EXCEPT ![q] = [kind |-> "asked", card |-> k]]
    /\ UNCHANGED <<stored, shown, overrides, job, late, likes, excused, faults>>

ReadLists(q) ==
    /\ lists[q].kind = "asked"
    /\ lists' = [lists EXCEPT ![q] = [kind |-> "read", card |-> lists[q].card, rows |-> Listed,
                                      outdated |-> {}]]
    /\ UNCHANGED <<stored, shown, picker, overrides, job, late, history, faults>>

\* setCollections, whatever was pressed or asked for in between.
ArriveLists(q) ==
    /\ lists[q].kind = "read"
    /\ picker' = [picker EXCEPT ![lists[q].card] = lists[q].rows]
    /\ outdated' = [outdated EXCEPT ![lists[q].card] =
                       {c \in lists[q].outdated : lists[q].rows[c] # {}}]
    /\ lists' = [lists EXCEPT ![q] = Idle]
    /\ UNCHANGED <<stored, shown, overrides, job, late, likes, excused, faults>>

\* The list could not be loaded.
FailLists(q) == /\ lists[q] # Idle
                /\ lists' = [lists EXCEPT ![q] = Idle]
                /\ UNCHANGED <<stored, shown, picker, overrides, job, late, history, faults>>

\* The button back to the menu.
ClosePicker(k) == /\ Empties(k)
                  /\ UNCHANGED <<stored, shown, overrides, job, lists, late, likes, excused, faults>>

\* isInCollection, of a collection listed with the preview e
IsIn(k, c, e) == c \in overrides[k] \/ Quote \in e

Send(j, new) == /\ job[j] = Idle /\ job' = [job EXCEPT ![j] = new]
                /\ UNCHANGED <<stored, shown, picker, overrides, lists, late, history, faults>>

ToggleLike(k) ==
    /\ topic = "likes"
    /\ Send(<<k, "toggle">>, [kind |-> "like", next |-> ~shown[k].liked, stage |-> "sent"])
ToggleCollection(k) ==
    \E c \in Col : \E e \in picker[k][c] :
        Send(<<k, "toggle">>, [kind |-> "collect", col |-> c, stage |-> "sent",
                               next |-> ~IsIn(k, c, e)])

\* A collection that is created is new to everybody.
Fresh(c) == /\ col[c] = None
            /\ \A k \in Card : picker[k][c] = {} /\ c \notin overrides[k]
            /\ \A r \in late \cup {job[j] : j \in Call} : ~About(r, c)
            /\ \A q \in Listing : lists[q].kind = "read" => lists[q].rows[c] = {}
CreateAndAdd(k) ==
    \E c \in Col : /\ topic = "collections" /\ Fresh(c)
                   /\ Send(<<k, "create">>, [kind |-> "create", col |-> c, stage |-> "sent",
                                             next |-> TRUE])

-----------------------------------------------------------------------------
(* The routes: what request r does, and which cards are told of it.        *)
Allowed(r) == public \/ ~r.next

\* POST and DELETE /quotes/:id/like: both idempotent; only liking needs the quote.
ExecuteLike(r, told) ==
    LET changes == liked # r.next IN
    /\ r.kind = "like"
    /\ IF Allowed(r)
       THEN /\ liked' = r.next
            /\ astray' = IF changes THEN Card \ told ELSE astray \ told
            /\ drifted' = drifted \cup (IF changes THEN Card \ told ELSE told)
       ELSE UNCHANGED <<liked, likes>>
    /\ UNCHANGED <<col, lists, excused, outdated>>

\* A collection has the quote, or no longer has it: what lists tell is right
\* again, or has become wrong, and so are the overrides of cards not told.
Recount(c, has, told) ==
    LET Told(cs) == IF has THEN cs \ {c} ELSE cs \cup {c} IN
    /\ excused' = [k \in Card |-> IF k \in told THEN excused[k] \ {c} ELSE Told(excused[k])]
    /\ outdated' = [k \in Card |-> IF picker[k][c] = {} THEN outdated[k] ELSE Told(outdated[k])]
    /\ lists' = [q \in Listing |-> IF lists[q].kind = "read"
                                   THEN [lists[q] EXCEPT !.outdated = Told(@)] ELSE lists[q]]

\* POST and DELETE /collections/:id/quotes: of a collection that is still there.
\* A collection has a quote once (the @@id of CollectionQuote).
Appended(q, s) == IF q \in ToSet(s) THEN s ELSE <<q>> \o s
Dropped(q, s) == IF q \in ToSet(s) THEN RemoveAt(s, CHOOSE i \in DOMAIN s : s[i] = q) ELSE s
WithQuote(c, q) == [col EXCEPT ![c] = Appended(q, @)]
WithoutQuote(c) == [col EXCEPT ![c] = Dropped(Quote, @)]

Accepted(r) == col[r.col] # None /\ Allowed(r)
ExecuteCollect(r, told) ==
    /\ r.kind = "collect"
    /\ IF Accepted(r)
       THEN /\ col' = IF r.next THEN WithQuote(r.col, Quote) ELSE WithoutQuote(r.col)
            /\ Recount(r.col, r.next, told)
       ELSE UNCHANGED <<col, lists, excused, outdated>>
    /\ UNCHANGED <<liked, likes>>

\* POST /collections
ExecuteCreate(r) ==
    /\ r.kind = "create"
    /\ col' = [col EXCEPT ![r.col] = <<>>]
    /\ UNCHANGED <<liked, likes, lists, excused, outdated>>

routed == <<topic, others, public, shown, picker, overrides, faults>>
Sent(j) == job[j] # Idle /\ job[j].stage = "sent"
Decided(j, ok) == job' = [job EXCEPT ![j].stage = IF ok THEN "ok" ELSE "refused"]

ServeLike(j) == /\ Sent(j) /\ ExecuteLike(job[j], {j[1]})
                /\ Decided(j, Allowed(job[j]))
                /\ UNCHANGED <<routed, late>>

\* Not told is a card that will take the quote for added by its other request.
Carries(i, c, added) == About(job[i], c) /\ job[i].stage = "ok" /\ job[i].next = added
ServeCollect(j) == /\ Sent(j)
                   /\ ExecuteCollect(job[j], IF Carries(<<j[1], "create">>, job[j].col, TRUE) THEN {}
                                             ELSE {j[1]})
                   /\ Decided(j, Accepted(job[j]))
                   /\ UNCHANGED <<routed, late>>

\* createCollectionAndAdd then adds the quote by a second request.
ServeCreate(j) == /\ Sent(j) /\ ExecuteCreate(job[j])
                  /\ job' = [job EXCEPT ![j].kind = "collect"]
                  /\ UNCHANGED <<routed, late>>

\* A request nobody waits for any more.
ServeLate(r) == /\ ExecuteLike(r, {}) \/ ExecuteCollect(r, {}) \/ ExecuteCreate(r)
                /\ late' = late \ {r}
                /\ UNCHANGED <<routed, job>>

-----------------------------------------------------------------------------
(* The answers.                                                            *)
LikeAnswered(was, next, ok) ==
    IF ~ok THEN was
    ELSE [liked |-> next,
          count |-> IF next THEN was.count + 1 ELSE IF was.count = 0 THEN 0 ELSE was.count - 1]

Answered(j, kind) == job[j].kind = kind /\ job[j].stage # "sent" /\ job' = [job EXCEPT ![j] = Idle]

AnswerLike(j) == /\ Answered(j, "like")
                 /\ shown' = [shown EXCEPT ![j[1]] =
                                LikeAnswered(@, job[j].next, job[j].stage = "ok")]
                 /\ UNCHANGED <<stored, picker, overrides, lists, late, history, faults>>

\* A removal takes the override away; the preview the picker has listed stays.
\* A collection that was created is listed once more, without its quotes.
OnlyAdds(was, c, next) == was \cup {c}
Overridden(was, c, next) == IF next THEN was \cup {c} ELSE was \ {c}

AnswerCollect(j) ==
    LET c == job[j].col
        ok == job[j].stage = "ok" IN
    /\ Answered(j, "collect")
    /\ overrides' = IF ok THEN [overrides EXCEPT ![j[1]] = Overridden(@, c, job[j].next)]
                    ELSE overrides
    /\ picker' = IF ok /\ j[2] = "create" THEN [picker EXCEPT ![j[1]][c] = @ \cup {{}}] ELSE picker
    /\ UNCHANGED <<stored, shown, lists, late, history, faults>>

\* The answer does not arrive, 15 s pass or the page is left: the card keeps
\* what it shows, and what was not carried out may be so later.
Lost(j) == /\ job[j] # Idle /\ faults < MaxFaults
           /\ late' = IF Sent(j) THEN late \cup {job[j]} ELSE late
           /\ IF job[j].kind = "like" /\ job[j].stage = "ok"
              THEN astray' = astray \cup {j[1]} /\ drifted' = drifted \cup {j[1]}
              ELSE UNCHANGED likes
           /\ excused' = IF \E c \in Col : Carries(j, c, FALSE)
                         THEN [excused EXCEPT ![j[1]] = @ \cup {job[j].col}] ELSE excused
           /\ job' = [job EXCEPT ![j] = Idle]
           /\ faults' = faults + 1
           /\ UNCHANGED <<stored, shown, picker, overrides, lists, outdated>>

-----------------------------------------------------------------------------
(* Everybody else, and the member elsewhere.                               *)
OtherMember == /\ topic = "likes" /\ public
               /\ \/ others < MaxOthers /\ others' = others + 1
                  \/ others > 0 /\ others' = others - 1
               /\ drifted' = Card
               /\ UNCHANGED <<topic, liked, public, col, cards, late, astray, excused, outdated, faults>>

\* The card of another quote.
CollectOther == \E c \in Col :
    /\ col[c] # None /\ Other \notin ToSet(col[c])
    /\ col' = WithQuote(c, Other)
    /\ UNCHANGED <<topic, liked, others, public, cards, late, history, faults>>

\* The profile: deleteCollection.
DeleteCollection == \E c \in Col :
    /\ col[c] # None
    /\ col' = [col EXCEPT ![c] = None]
    /\ Recount(c, FALSE, {})
    /\ UNCHANGED <<topic, liked, others, public, shown, picker, overrides, job, late, likes, faults>>

\* The quote is rejected or archived, or comes back.
Withdraw == /\ public' = ~public
            /\ IF public THEN faults < MaxFaults /\ faults' = faults + 1 ELSE UNCHANGED faults
            /\ UNCHANGED <<topic, liked, others, col, cards, late, history>>

Next == \/ \E k \in Card : \/ Mount(k) \/ ClosePicker(k)
                           \/ ToggleLike(k) \/ ToggleCollection(k) \/ CreateAndAdd(k)
        \/ \E q \in Listing : \/ \E k \in Card : OpenPicker(k, q)
                              \/ ReadLists(q) \/ ArriveLists(q) \/ FailLists(q)
        \/ \E j \in Call : \/ ServeLike(j) \/ ServeCollect(j) \/ ServeCreate(j)
                           \/ AnswerLike(j) \/ AnswerCollect(j) \/ Lost(j)
        \/ \E r \in late : ServeLate(r)
        \/ OtherMember \/ CollectOther \/ DeleteCollection \/ Withdraw

Spec == Init /\ [][Next]_vars

-----------------------------------------------------------------------------
TypeOK == /\ liked \in BOOLEAN /\ others \in 0..MaxOthers /\ public \in BOOLEAN
          /\ \A c \in Col : col[c] \in StoredCollection \cup {None}
          /\ \A k \in Card : overrides[k] \subseteq Col /\ shown[k].count \in Nat
          /\ astray \subseteq Card /\ drifted \subseteq Card /\ faults \in 0..MaxFaults

(***************************************************************************)
(* A card at rest shows the stored like, unless the like changed in        *)
(* another tab or behind its back, or an answer was lost since; and the    *)
(* count is that of the stored likes, unless one of those, or another      *)
(* member's like, was missed (toggleLike adds and subtracts one instead of *)
(* reading the count again).                                               *)
(***************************************************************************)
LikeShown == \A k \in Card : AtRest(k) =>
               /\ k \notin astray => shown[k].liked = liked
               /\ k \notin drifted /\ k \notin astray => shown[k].count = Likes

(***************************************************************************)
(* What a card has added and not removed since (its override) is in the    *)
(* collection once the card is at rest, unless it was taken out without    *)
(* the card being told: elsewhere, with the answer lost, or before the     *)
(* answer to its creation.  And what a list names is there, however late   *)
(* the list came, unless the quote was taken out after it was read.        *)
(***************************************************************************)
MemberExplained ==
    \A k \in Card, c \in Col : \A e \in picker[k][c] :
      /\ AtRest(k) /\ c \in overrides[k] /\ c \notin excused[k] => Member(c)
      /\ Quote \in e /\ c \notin outdated[k] => Member(c)

(***************************************************************************)
(* The same without any exception, which the code does not keep: with one  *)
(* card and no fault, what the picker shows is so.                         *)
(* A claim the code does not keep (README, Disagreements).                 *)
(***************************************************************************)
InSync == \A k \in Card, c \in Col : \A e \in picker[k][c] :
            AtRest(k) /\ col[c] # None /\ IsIn(k, c, e) => Member(c)
=============================================================================
