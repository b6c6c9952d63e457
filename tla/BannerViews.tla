----------------------------- MODULE BannerViews -----------------------------
(***************************************************************************)
(* One banner slot in a browser tab (client/src/components/BannerWrapper): *)
(* when a view of it is reported, and when it is hidden.  A view counts    *)
(* once a page, after the banner has been in view for a second; a banner   *)
(* that was closed stays hidden for a day, unless its content is edited    *)
(* (client/src/lib/banner-dismiss.ts).                                     *)
(*                                                                         *)
(* The observer's callbacks, the timers and the effect that reads the      *)
(* stored dismissal run later than what causes them.  A cleared timeout    *)
(* whose handle stays in viewTimerRef is a "dead" timer.  The storage may  *)
(* refuse any call, which the code ignores, and other tabs use it too.     *)
(***************************************************************************)
EXTENDS Naturals, FiniteSets

CONSTANTS Page, Content, None

VARIABLES path, content,
          dismissed,   \* contents with a dismissal that has not run out
          visible,     \* what is rendered
          checking,    \* the effect that reads the dismissal is still to run
          closing,     \* the content whose closing fades out, or None
          observed,    \* the observer watches the element that is rendered
          inView,      \* at least half of the banner is in the viewport
          owed,        \* an observer callback is due
          visibleRef, timer, viewedPath,
          reports,     \* views reported since the page was opened
          cut,         \* a page was left, or the banner lost its element, in a way the refs miss
          lapsed       \* hidden without a dismissal: it ran out, was dropped by another tab,
                       \* was refused by the storage, or was another content's

shown == <<dismissed, visible, checking, closing, lapsed>>
tracking == <<observed, owed, visibleRef, timer, viewedPath, reports, cut>>
vars == <<path, content, shown, inView, tracking>>

Init == /\ path \in Page /\ content \in Content
        /\ dismissed = {} /\ visible = TRUE /\ checking = TRUE /\ closing = None
        /\ observed = TRUE /\ inView \in BOOLEAN /\ owed = TRUE
        /\ visibleRef = FALSE /\ timer = "none" /\ viewedPath = None
        /\ reports = 0 /\ cut = FALSE /\ lapsed = FALSE

-----------------------------------------------------------------------------
(* Viewability.                                                            *)
Scroll == /\ inView' = ~inView
          /\ owed' = (observed /\ visible)
          /\ UNCHANGED <<path, content, shown, observed, visibleRef, timer, viewedPath, reports, cut>>

\* The callback of the observer sees whether the element is in view by then.
TimerAfterLeaving(stillVisible) ==
    IF stillVisible /\ timer = "none" /\ viewedPath # path THEN "running" ELSE timer
TimerAfter(stillVisible) ==
    CASE stillVisible /\ timer = "none" /\ viewedPath # path -> "running"
      [] ~stillVisible -> "none"
      [] OTHER -> timer
Observe == /\ observed /\ owed
           /\ LET stillVisible == inView /\ visible IN
              /\ visibleRef' = stillVisible
              /\ timer' = TimerAfter(stillVisible)
              /\ cut' = (cut /\ stillVisible)
           /\ owed' = FALSE
           /\ UNCHANGED <<path, content, shown, inView, observed, viewedPath, reports>>

\* A second has passed.
Forgets == viewedPath
Remembers == path
Viewed == /\ timer = "running"
          /\ timer' = "none"
          /\ IF visibleRef /\ viewedPath # path
             THEN viewedPath' = Remembers /\ reports' = reports + 1
             ELSE UNCHANGED <<viewedPath, reports>>
          /\ UNCHANGED <<path, content, shown, inView, observed, owed, visibleRef, cut>>

\* Another page: the observer is set up anew; a running timer is cleared, its handle kept.
HandleKept == IF timer = "none" THEN "none" ELSE "dead"
Navigate == \E p \in Page \ {path} :
               /\ path' = p
               /\ observed' = visible /\ owed' = visible
               /\ timer' = HandleKept
               /\ cut' = (timer # "none" \/ ~visible)
               /\ reports' = 0
               /\ inView' \in BOOLEAN
               /\ UNCHANGED <<content, shown, visibleRef, viewedPath>>

-----------------------------------------------------------------------------
(* Closing.                                                                *)
Close == /\ visible /\ closing = None
         /\ closing' = content
         /\ UNCHANGED <<path, content, dismissed, visible, checking, lapsed, inView, tracking>>

\* The element goes away, which the observer reports like leaving the viewport.
Show(v) == /\ visible' = v
           /\ observed' = (observed /\ (v = visible))
           /\ IF observed /\ visible /\ ~v
              THEN visibleRef' = FALSE /\ timer' = "none" ELSE UNCHANGED <<visibleRef, timer>>
           /\ cut' = (cut \/ v # visible)
           /\ owed' = (owed /\ v = visible)

\* The fade is over: the content that was closed is dismissed for a day, unless
\* setItem throws.
Faded == /\ closing # None
         /\ Show(FALSE)
         /\ closing' = None
         /\ dismissed' \in {dismissed, dismissed \cup {closing}}
         /\ lapsed' = (closing # content \/ closing \notin dismissed')
         /\ UNCHANGED <<path, content, checking, inView, viewedPath, reports>>

\* The administrator edits the banner: the key of the dismissal is another one.
Edit == \E c \in Content \ {content} :
           /\ content' = c /\ checking' = TRUE
           /\ UNCHANGED <<path, dismissed, visible, closing, lapsed, inView, tracking>>

\* The effect on the key; purgeStaleDismissals drops the dismissals of other
\* contents, up to where removeItem throws.
AnyContent == dismissed # {}
IsDismissed == content \in dismissed
Read == /\ Show(~IsDismissed)
        /\ dismissed' \in (IF IsDismissed THEN {dismissed} ELSE SUBSET dismissed)
        /\ lapsed' = FALSE

\* getItem throws: the banner stays as it is.
ReadFails == /\ lapsed' = ~visible
             /\ UNCHANGED <<dismissed, visible, observed, visibleRef, timer, cut, owed>>

Check == /\ checking /\ checking' = FALSE
         /\ Read \/ ReadFails
         /\ UNCHANGED <<path, content, closing, inView, viewedPath, reports>>

\* The stored dismissals change while the page shows what it shows.
Meanwhile(now) == /\ dismissed' = now
                  /\ lapsed' = (lapsed \/ (~visible /\ content \in dismissed \ now))
                  /\ UNCHANGED <<path, content, visible, checking, closing, inView, tracking>>

\* A day has passed.
RunOut == \E c \in dismissed : Meanwhile(dismissed \ {c})

\* Another tab, which may have loaded another content, closes it or shows it.
OtherTab == \E c \in Content \ dismissed : Meanwhile(dismissed \cup {c}) \/ Meanwhile({})

\* The page is loaded again: everything but the stored dismissals starts anew.
Reload == /\ visible' = TRUE /\ checking' = TRUE /\ closing' = None
          /\ observed' = TRUE /\ owed' = TRUE
          /\ visibleRef' = FALSE /\ timer' = "none" /\ viewedPath' = None
          /\ reports' = 0 /\ cut' = FALSE /\ lapsed' = FALSE
          /\ UNCHANGED <<path, content, dismissed, inView>>

Next == \/ Scroll \/ Observe \/ Viewed \/ Navigate
        \/ Close \/ Faded \/ Edit \/ Check \/ RunOut \/ OtherTab \/ Reload

Spec == Init /\ [][Next]_vars

-----------------------------------------------------------------------------
TypeOK == /\ path \in Page /\ content \in Content /\ dismissed \subseteq Content
          /\ closing \in Content \cup {None} /\ viewedPath \in Page \cup {None}
          /\ timer \in {"none", "running", "dead"} /\ reports \in Nat

\* A banner in view that the observer has seen is counted or about to be,
\* unless its page was entered while a timer was pending or while it was hidden,
\* or it was hidden and shown again: then it is not counted until it leaves the
\* viewport, or not at all.
ViewExplained == visible /\ inView /\ ~owed /\ viewedPath # path /\ timer # "running" => cut

\* No page view reports the banner twice, whatever is scrolled, edited or closed.
OnceAPage == reports <= 1

\* A banner is hidden only while its present content is dismissed, unless the
\* dismissal ran out or another tab dropped it meanwhile, the storage refused to
\* keep or to tell it, or the content was edited during the fade.
HiddenExplained == ~visible /\ ~checking => content \in dismissed \/ lapsed

\* "a banner that stays >= 50% visible for 1000ms counts as one view": no page
\* shows it to a visitor uncounted.
\* A claim the code does not keep (README, Disagreements).
EveryViewCounts == visible /\ inView /\ ~owed /\ observed /\ viewedPath # path => timer = "running"
=============================================================================
