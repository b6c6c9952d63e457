------------------------------- MODULE Quizzes -------------------------------
(***************************************************************************)
(* A quiz from the form that composes it to the results of its takers:     *)
(* the editor of questions (client/src/app/tests/create/page.tsx), the     *)
(* submission, the moderation by two administrators at once                *)
(* (server/src/routes/adminQuizzes.ts), the catalog, grading and the       *)
(* revealing of answers (server/src/routes/quizzes.ts), and the page of a  *)
(* taker, who may have it open in two tabs (client/src/app/tests/page.tsx).*)
(*                                                                         *)
(* One quiz of one question; an option is a model value, and which option  *)
(* the author has marked is remembered beside the index the form keeps.    *)
(***************************************************************************)
EXTENDS Naturals, Sequences, SequencesExt

CONSTANTS Option,     \* texts of options
          Blank,      \* an option not filled in yet
          Taker, Tab, Admin, None,
          Trusted,    \* is the author an administrator or super-approved?
          MaxOptions, \* bound; 8 in the form
          MaxEdits, MaxDecisions, MaxAttempts

VARIABLES draft,      \* the question in the form: options and correctIndex
          marked,     \* the option the author has marked in it
          shifted,    \* an option before the marked one was removed after marking
          quiz,       \* the stored quiz, or None
          decision,   \* what an administrator's request has read and is about to write
          result,     \* the stored result of a taker, or None
          page,       \* a taker's tab
          overwritten, \* tabs whose review was overtaken by another attempt of the same taker
          attempted,  \* takers that have been graded
          edits, decisions, attempts

author == <<draft, marked, shifted>>
server == <<quiz, decision, result>>
takers == <<page, overwritten, attempted>>
bounds == <<edits, decisions, attempts>>
vars == <<author, server, takers, bounds>>

Tabs == Taker \X Tab
StoredQuiz == [options : Seq(Option \cup {Blank}), correctIndex : Nat,
               status : {"PENDING", "APPROVED", "REJECTED"},
               rejectionReason : BOOLEAN, deleted : BOOLEAN]
Closed == [phase |-> "closed", key |-> None, review |-> None]

\* emptyQuestion
Init == /\ draft = [options |-> <<Blank, Blank>>, correctIndex |-> 1]
        /\ marked = None /\ shifted = FALSE
        /\ quiz = None
        /\ decision = [a \in Admin |-> None]
        /\ result = [u \in Taker |-> None]
        /\ page = [t \in Tabs |-> Closed]
        /\ overwritten = {} /\ attempted = {}
        /\ edits = 0 /\ decisions = 0 /\ attempts = 0

-----------------------------------------------------------------------------
(* Composing.                                                              *)
Edit(new) == /\ quiz = None /\ edits < MaxEdits
             /\ draft' = new /\ edits' = edits + 1
             /\ UNCHANGED <<server, takers, decisions, attempts>>

AddOption == /\ Len(draft.options) < MaxOptions
             /\ Edit([draft EXCEPT !.options = Append(@, Blank)])
             /\ UNCHANGED <<marked, shifted>>

\* Typing replaces the text of an option; the marked one is still the marked one.
TypeOption == \E i \in DOMAIN draft.options, o \in Option \ ToSet(draft.options) :
                /\ Edit([draft EXCEPT !.options[i] = o])
                /\ marked' = IF marked # None /\ i = draft.correctIndex /\ ~shifted THEN o ELSE marked
                /\ UNCHANGED shifted

Mark == \E i \in DOMAIN draft.options :
          /\ Edit([draft EXCEPT !.correctIndex = i])
          /\ marked' = draft.options[i] /\ shifted' = FALSE

\* The index is kept as it is, and reset only where it points past the end.
AlwaysUp(index, removed, len) == IF index > 1 THEN index - 1 ELSE 1
KeptOrFirst(index, removed, len) == IF index > len THEN 1 ELSE index

RemoveOption ==
    \E i \in DOMAIN draft.options :
       /\ Len(draft.options) > 2
       /\ LET rest == RemoveAt(draft.options, i) IN
          Edit([options |-> rest,
                correctIndex |-> KeptOrFirst(draft.correctIndex, i, Len(rest))])
       /\ marked' = IF i = draft.correctIndex THEN None ELSE marked
       /\ shifted' = (shifted \/ i < draft.correctIndex)

\* validate and quizCreateSchema, then POST /quizzes: trusted authors skip moderation.
Complete(d) == Blank \notin ToSet(d.options) /\ d.correctIndex \in DOMAIN d.options
Payload == [options |-> draft.options, correctIndex |-> draft.correctIndex]
Submit == /\ quiz = None /\ Complete(draft)
          /\ quiz' = [options |-> Payload.options, correctIndex |-> Payload.correctIndex,
                      status |-> IF Trusted THEN "APPROVED" ELSE "PENDING",
                      rejectionReason |-> FALSE, deleted |-> FALSE]
          /\ UNCHANGED <<author, decision, result, takers, bounds>>

-----------------------------------------------------------------------------
(* Moderation: the row is read, then written without looking at it again.  *)
Consider(a, verdict) ==
    /\ quiz # None /\ ~quiz.deleted /\ decision[a] = None /\ decisions < MaxDecisions
    /\ decision' = [decision EXCEPT ![a] = verdict]
    /\ decisions' = decisions + 1
    /\ UNCHANGED <<author, quiz, result, takers, edits, attempts>>

Decide(a, verdict, new) ==
    /\ decision[a] = verdict
    /\ quiz' = new
    /\ decision' = [decision EXCEPT ![a] = None]
    /\ UNCHANGED <<author, result, takers, bounds>>

Approve(a) == Decide(a, "approve", [quiz EXCEPT !.status = "APPROVED", !.rejectionReason = FALSE])
Reject(a) == Decide(a, "reject", [quiz EXCEPT !.status = "REJECTED", !.rejectionReason = TRUE])
Delete(a) == Decide(a, "delete", [quiz EXCEPT !.deleted = TRUE])

-----------------------------------------------------------------------------
(* Taking.                                                                 *)
Approachable == quiz # None /\ quiz.status = "APPROVED" /\ ~quiz.deleted

\* GET /quizzes: the catalog links to the quiz, and may be old when it is followed.
Browse(t) == /\ page[t].phase = "closed" /\ Approachable
             /\ page' = [page EXCEPT ![t].phase = "listed"]
             /\ UNCHANGED <<author, server, overwritten, attempted, bounds>>

\* GET /quizzes/:id for a member who is neither the author nor an administrator.
RevealAlways(u) == TRUE
Reveals(u) == result[u] # None
KeyShown(u) == IF Reveals(u) THEN quiz.correctIndex ELSE None
Open(t) == /\ page[t].phase = "listed"
           /\ page' = [page EXCEPT ![t] =
                 IF Approachable
                 THEN [phase |-> IF Reveals(t[1]) THEN "reviewing" ELSE "answering",
                       key |-> KeyShown(t[1]), review |-> result[t[1]]]
                 ELSE Closed]
           /\ UNCHANGED <<author, server, overwritten, attempted, bounds>>

\* submit: every question answered, the button disabled while the request runs.
Answer(t) == /\ page[t].phase = "answering" /\ attempts < MaxAttempts
             /\ \E i \in DOMAIN quiz.options :
                  page' = [page EXCEPT ![t] = [phase |-> "submitting", key |-> i, review |-> None]]
             /\ attempts' = attempts + 1
             /\ UNCHANGED <<author, server, overwritten, attempted, edits, decisions>>

\* The quiz must be approachable when it is read; grading needs nothing else.
Grade(t) == /\ page[t].phase = "submitting"
            /\ page' = [page EXCEPT ![t] =
                  IF Approachable
                  THEN [phase |-> "graded", key |-> page[t].key,
                        review |-> [answer |-> page[t].key, correct |-> page[t].key = quiz.correctIndex]]
                  ELSE [phase |-> "answering", key |-> None, review |-> None]]
            /\ UNCHANGED <<author, server, overwritten, attempted, bounds>>

\* One row for a quiz and a user: a later attempt overwrites it.
FirstStays(u, r) == IF result[u] = None THEN r ELSE result[u]
Upserted(u, r) == r
Store(t) == /\ page[t].phase = "graded"
            /\ result' = [result EXCEPT ![t[1]] = Upserted(t[1], page[t].review)]
            /\ page' = [page EXCEPT ![t].phase = "reviewing", ![t].key = quiz.correctIndex]
            /\ overwritten' = (overwritten \ {t}) \cup {s \in Tabs : /\ s # t /\ s[1] = t[1]
                                                                     /\ page[s].phase = "reviewing"}
            /\ attempted' = attempted \cup {t[1]}
            /\ UNCHANGED <<author, quiz, decision, bounds>>

\* Leaving the page, or reloading it.
Close(t) == /\ page[t].phase \in {"reviewing", "answering"}
            /\ page' = [page EXCEPT ![t] = Closed]
            /\ overwritten' = overwritten \ {t}
            /\ UNCHANGED <<author, server, attempted, bounds>>

Next == \/ AddOption \/ TypeOption \/ Mark \/ RemoveOption \/ Submit
        \/ \E a \in Admin : \/ \E verdict \in {"approve", "reject", "delete"} : Consider(a, verdict)
                            \/ Approve(a) \/ Reject(a) \/ Delete(a)
        \/ \E t \in Tabs : Browse(t) \/ Open(t) \/ Answer(t) \/ Grade(t) \/ Store(t) \/ Close(t)

Spec == Init /\ [][Next]_vars

-----------------------------------------------------------------------------
TypeOK == /\ draft.options \in Seq(Option \cup {Blank}) /\ draft.correctIndex \in DOMAIN draft.options
          /\ quiz \in StoredQuiz \cup {None}
          /\ marked \in Option \cup {Blank, None} /\ shifted \in BOOLEAN
          /\ \A t \in Tabs : page[t].phase \in {"closed", "listed", "answering", "submitting", "graded", "reviewing"}
          /\ overwritten \subseteq Tabs /\ attempted \subseteq Taker

\* The option the stored quiz takes for correct is the one the author marked,
\* unless the author removed an option above it afterwards: removeOption keeps
\* the index, which then points one option further down.
KeyExplained == quiz # None /\ marked # None /\ ~shifted => quiz.options[quiz.correctIndex] = marked

\* What a tab reviews is the stored result of its user, unless another tab of
\* that user was graded since: POST /:id/attempt shows what it stores.
ReviewExplained == \A t \in Tabs : page[t].phase = "reviewing" /\ t \notin overwritten
                                     => page[t].review = result[t[1]]

\* The same without the exception, which the code does not keep: the form asks to
\* mark the correct answer, and that answer should be the one that is stored.
KeyIsMarked == quiz # None /\ marked # None => quiz.options[quiz.correctIndex] = marked

\* Nobody sees the correct answer before an attempt of their own was graded,
\* whatever tabs are open and however the moderation goes (GET /:id).
KeyIsEarned == \A t \in Tabs : page[t].phase = "reviewing" => t[1] \in attempted
=============================================================================
