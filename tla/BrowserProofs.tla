--------------------------- MODULE BrowserProofs ---------------------------
(***************************************************************************)
(* What the visitor's side keeps for every value of its constants: one     *)
(* inductive invariant for each part of Browser, about the variables of    *)
(* that part only.                                                         *)
(***************************************************************************)
EXTENDS Browser, FiniteSetTheorems, FunctionTheorems, SequenceTheorems, TLAPS

(***************************************************************************)
(* Banners (BannerWrapper.tsx).                                            *)
(***************************************************************************)
BannerTypes ==
    /\ Banner!TypeOK
    /\ visible \in BOOLEAN /\ checking \in BOOLEAN /\ lapsed \in BOOLEAN
    /\ observed \in BOOLEAN /\ inView \in BOOLEAN /\ owed \in BOOLEAN
    /\ visibleRef \in BOOLEAN /\ cut \in BOOLEAN

\* A running timer saw the banner; a dead one was left over from another page;
\* without an observer the refs have missed something.
TimersExplained == /\ timer = "running" => visibleRef
                   /\ timer = "dead" => cut
                   /\ observed => visible
                   /\ ~observed => cut

\* The page a view was reported for is remembered.
ReportRemembered == viewedPath # path => reports = 0

BannerIInv == /\ BannerTypes
              /\ TimersExplained
              /\ ReportRemembered
              /\ Banner!ViewExplained
              /\ Banner!OnceAPage
              /\ Banner!HiddenExplained

BannerInductive == part = "banner" => BannerIInv

LEMMA BannerStarts == Init /\ part = "banner" => Banner!Init
  BY DEF Init

LEMMA BannerMoves ==
  ASSUME [Next]_all, part' = "banner"
  PROVE  part = "banner" /\ [Banner!Next]_(Banner!vars)
<1>1. CASE UNCHANGED all
  BY <1>1 DEF all, Banner!vars, Banner!shown, Banner!tracking
<1>2. CASE Next
  BY <1>2 DEF Next
<1> QED BY <1>1, <1>2

LEMMA BannerInit == Banner!Init => BannerIInv
<1> SUFFICES ASSUME Banner!Init PROVE BannerIInv
  OBVIOUS
<1> USE DEF Banner!Init
<1>1. Banner!TypeOK
  BY DEF Banner!TypeOK
<1>2. BannerTypes
  BY <1>1, Zenon DEF BannerTypes
<1>3. TimersExplained /\ Banner!ViewExplained /\ Banner!HiddenExplained
  BY Zenon DEF TimersExplained, Banner!ViewExplained, Banner!HiddenExplained
<1>4. ReportRemembered /\ Banner!OnceAPage
  BY DEF ReportRemembered, Banner!OnceAPage
<1> QED BY <1>1, <1>2, <1>3, <1>4 DEF BannerIInv

LEMMA BannerStep == BannerIInv /\ [Banner!Next]_(Banner!vars) => BannerIInv'
<1> SUFFICES ASSUME BannerIInv, [Banner!Next]_(Banner!vars) PROVE BannerIInv'
  OBVIOUS
<1> USE DEF BannerIInv, BannerTypes, TimersExplained, ReportRemembered, Banner!TypeOK,
            Banner!ViewExplained, Banner!OnceAPage, Banner!HiddenExplained,
            Banner!vars, Banner!shown, Banner!tracking
<1>0. CASE UNCHANGED Banner!vars
  BY <1>0
<1>1. CASE Banner!Scroll
  BY <1>1 DEF Banner!Scroll
<1>2. CASE Banner!Observe
  BY <1>2 DEF Banner!Observe, Banner!TimerAfter
<1>3. CASE Banner!Viewed
  BY <1>3 DEF Banner!Viewed, Banner!Remembers
<1>4. CASE Banner!Navigate
  BY <1>4 DEF Banner!Navigate, Banner!HandleKept
<1>5. CASE Banner!Close
  BY <1>5 DEF Banner!Close
<1>6. CASE Banner!Faded
  BY <1>6 DEF Banner!Faded, Banner!Show
<1>7. CASE Banner!Edit
  BY <1>7 DEF Banner!Edit
<1>8. CASE Banner!Check
  <2>1. CASE Banner!Read
    <3>1. dismissed' \subseteq dismissed /\ (Banner!IsDismissed => dismissed' = dismissed)
      BY <2>1 DEF Banner!Read
    <3> QED BY <1>8, <2>1, <3>1 DEF Banner!Check, Banner!Read, Banner!Show, Banner!IsDismissed
  <2>2. CASE Banner!ReadFails
    BY <1>8, <2>2 DEF Banner!Check, Banner!ReadFails
  <2> QED BY <1>8, <2>1, <2>2 DEF Banner!Check
<1>9. CASE Banner!RunOut \/ Banner!OtherTab
  <2>1. PICK now \in SUBSET Content : Banner!Meanwhile(now)
    BY <1>9 DEF Banner!RunOut, Banner!OtherTab
  <2> QED BY <2>1 DEF Banner!Meanwhile
<1>10. CASE Banner!Reload
  <2> USE <1>10 DEF Banner!Reload
  <2>1. Banner!TypeOK'
    OBVIOUS
  <2>2. BannerTypes'
    BY <2>1, Zenon
  <2>3. TimersExplained' /\ Banner!ViewExplained' /\ Banner!HiddenExplained'
    BY Zenon
  <2>4. ReportRemembered' /\ Banner!OnceAPage'
    OBVIOUS
  <2> QED BY <2>1, <2>2, <2>3, <2>4
<1> QED BY <1>0, <1>1, <1>2, <1>3, <1>4, <1>5, <1>6, <1>7, <1>8, <1>9, <1>10 DEF Banner!Next

(* Whatever pages and contents there are, a page reports at most one view  *)
(* of a banner, none for one not seen for a second, and hides only content *)
(* that was dismissed (BannerWrapper.tsx).                                 *)
THEOREM BannerHolds == Spec => []BannerCorrect
<1>1. Init => BannerInductive
  BY BannerStarts, BannerInit DEF BannerInductive
<1>2. BannerInductive /\ [Next]_all => BannerInductive'
  BY BannerMoves, BannerStep DEF BannerInductive
<1>3. BannerInductive => BannerCorrect
  BY DEF BannerInductive, BannerIInv, BannerTypes, BannerCorrect
<1> QED BY <1>1, <1>2, <1>3, PTL DEF Spec

(***************************************************************************)
(* Quizzes (tests/create/page.tsx, adminQuizzes.ts, quizzes.ts).           *)
(***************************************************************************)
Choice == Option \cup {Blank}
Question == [options : Seq(Choice), correctIndex : Nat]
Verdict == {"approve", "reject", "delete"}
Attempt == [answer : Nat, correct : BOOLEAN]
AnyPage == [phase : {"closed", "listed", "answering", "submitting", "graded", "reviewing"},
            key : Nat \cup {None}, review : Attempt \cup {None}]
TakerPage == {p \in AnyPage : p.phase \in {"submitting", "graded"} => p.key \in Nat}

QuizTypes == /\ Quiz!TypeOK
             /\ draft \in Question
             /\ decision \in [Admin -> Verdict \cup {None}]
             /\ result \in [Taker -> Attempt \cup {None}]
             /\ page \in [Quiz!Tabs -> TakerPage]

\* The form keeps the option that was marked, until one above it is removed.
MarkKept == marked # None /\ ~shifted => draft.options[draft.correctIndex] = marked

\* The form is closed by the submission, which stores what it showed.
StoredAsSubmitted == quiz # None => /\ quiz.options = draft.options
                                    /\ quiz.correctIndex = draft.correctIndex
DecidesStored == \A a \in Admin : decision[a] \in Verdict => quiz \in Quiz!StoredQuiz

TakenIsStored == \A t \in Quiz!Tabs : page[t].phase # "closed" => quiz \in Quiz!StoredQuiz

\* A result belongs to a taker who was graded.
ResultsEarned == \A u \in Taker : result[u] # None => u \in attempted

QuizIInv == /\ QuizTypes
            /\ MarkKept
            /\ StoredAsSubmitted /\ DecidesStored /\ TakenIsStored
            /\ ResultsEarned
            /\ Quiz!KeyExplained
            /\ Quiz!ReviewExplained
            /\ Quiz!KeyIsEarned

QuizInductive == part = "quizzes" => QuizIInv

LEMMA QuizStarts == Init /\ part = "quizzes" => Quiz!Init
  BY DEF Init

LEMMA QuizMoves ==
  ASSUME [Next]_all, part' = "quizzes"
  PROVE  part = "quizzes" /\ [Quiz!Next]_(Quiz!vars)
<1>1. CASE UNCHANGED all
  BY <1>1 DEF all, Quiz!vars, Quiz!author, Quiz!server, Quiz!takers, Quiz!bounds
<1>2. CASE Next
  BY <1>2 DEF Next
<1> QED BY <1>1, <1>2

LEMMA RemoveAtShifts ==
  ASSUME NEW S, NEW s \in Seq(S), NEW i \in DOMAIN s
  PROVE  /\ Quiz!RemoveAt(s, i) \in Seq(S)
         /\ Len(Quiz!RemoveAt(s, i)) = Len(s) - 1
         /\ \A j \in 1..(i - 1) : Quiz!RemoveAt(s, i)[j] = s[j]
<1> DEFINE front == SubSeq(s, 1, i - 1)
           back == SubSeq(s, i + 1, Len(s))
<1>1. Len(s) \in Nat /\ i \in 1..Len(s) /\ \A j \in 1..Len(s) : s[j] \in S
  BY LenProperties, ElementOfSeq
<1>2. front \in Seq(S) /\ Len(front) = i - 1 /\ \A j \in 1..(i - 1) : front[j] = s[j]
  <2>1. \A j \in 1..(i - 1) : s[j] \in S
    BY <1>1
  <2>2. 1 \in Int /\ i - 1 \in Int
    BY <1>1
  <2>3. /\ front \in Seq(S)
        /\ Len(front) = IF 1 <= i - 1 THEN (i - 1) - 1 + 1 ELSE 0
        /\ \A j \in 1..((i - 1) - 1 + 1) : front[j] = s[1 + j - 1]
    BY <2>1, <2>2, SubSeqProperties
  <2> QED BY <2>3, <1>1
<1>3. back \in Seq(S) /\ Len(back) = Len(s) - i
  <2>1. \A j \in (i + 1)..Len(s) : s[j] \in S
    BY <1>1
  <2>2. i + 1 \in Int /\ Len(s) \in Int
    BY <1>1
  <2>3. /\ back \in Seq(S)
        /\ Len(back) = IF i + 1 <= Len(s) THEN Len(s) - (i + 1) + 1 ELSE 0
    BY <2>1, <2>2, SubSeqProperties
  <2> QED BY <2>3, <1>1
<1> HIDE DEF front, back
<1>4. /\ front \o back \in Seq(S)
      /\ Len(front \o back) = Len(front) + Len(back)
      /\ \A j \in 1..(Len(front) + Len(back)) :
            (front \o back)[j] = IF j <= Len(front) THEN front[j] ELSE back[j - Len(front)]
  BY <1>2, <1>3, ConcatProperties
<1>5. Quiz!RemoveAt(s, i) = front \o back
  BY DEF front, back, Quiz!RemoveAt
<1>6. Len(front) + Len(back) = Len(s) - 1
  BY <1>1, <1>2, <1>3
<1>7. \A j \in 1..(i - 1) : (front \o back)[j] = s[j]
  <2> SUFFICES ASSUME NEW j \in 1..(i - 1) PROVE (front \o back)[j] = s[j]
    OBVIOUS
  <2>1. j \in 1..(Len(front) + Len(back)) /\ j <= Len(front)
    BY <1>1, <1>2, <1>6
  <2> QED BY <1>2, <1>4, <2>1
<1> QED BY <1>4, <1>5, <1>6, <1>7

LEMMA NullIsNoVerdict == None \notin Verdict
  BY NullsAssumption DEF Verdict

LEMMA QuizInit == Quiz!Init => QuizIInv
<1> SUFFICES ASSUME Quiz!Init PROVE QuizIInv
  OBVIOUS
<1> USE DEF Quiz!Init
<1>1. draft \in Question /\ draft.correctIndex \in DOMAIN draft.options
  BY DEF Question, Choice
<1>2. \A t \in Quiz!Tabs : page[t].phase = "closed"
  BY DEF Quiz!Closed
<1>3. Quiz!TypeOK
  BY <1>1, <1>2 DEF Quiz!TypeOK, Question, Choice
<1>4. page \in [Quiz!Tabs -> TakerPage]
  BY DEF Quiz!Closed, TakerPage, AnyPage
<1>5. QuizTypes
  BY <1>1, <1>3, <1>4 DEF QuizTypes
<1>6. MarkKept /\ StoredAsSubmitted /\ DecidesStored /\ ResultsEarned
  BY NullIsNoVerdict DEF MarkKept, StoredAsSubmitted, DecidesStored, ResultsEarned
<1>7. TakenIsStored /\ Quiz!KeyExplained /\ Quiz!ReviewExplained /\ Quiz!KeyIsEarned
  BY <1>2 DEF TakenIsStored, Quiz!KeyExplained, Quiz!ReviewExplained, Quiz!KeyIsEarned
<1> QED BY <1>5, <1>6, <1>7 DEF QuizIInv

LEMMA OnePage ==
  ASSUME page \in [Quiz!Tabs -> TakerPage], NEW t \in Quiz!Tabs, NEW pg \in TakerPage,
         page' = [page EXCEPT ![t] = pg]
  PROVE  /\ page' \in [Quiz!Tabs -> TakerPage]
         /\ page'[t] = pg
         /\ \A s \in Quiz!Tabs : s # t => page'[s] = page[s]
  OBVIOUS

LEMMA QuizStep == QuizIInv /\ [Quiz!Next]_(Quiz!vars) => QuizIInv'
<1> SUFFICES ASSUME QuizIInv, [Quiz!Next]_(Quiz!vars) PROVE QuizIInv'
  OBVIOUS
<1> USE DEF QuizIInv, Quiz!author, Quiz!server, Quiz!takers, Quiz!bounds
<1> DEFINE FormOK == /\ draft \in Question /\ draft.correctIndex \in DOMAIN draft.options
                     /\ marked \in Choice \cup {None} /\ shifted \in BOOLEAN
           ServerOK == /\ quiz \in Quiz!StoredQuiz \cup {None}
                       /\ decision \in [Admin -> Verdict \cup {None}]
           TakersOK == /\ page \in [Quiz!Tabs -> TakerPage]
                       /\ result \in [Taker -> Attempt \cup {None}]
                       /\ overwritten \subseteq Quiz!Tabs /\ attempted \subseteq Taker
\* The form, the server and the takers keep apart.
<1>a. FormOK /\ ServerOK /\ TakersOK
  BY DEF QuizTypes, Quiz!TypeOK, Choice
<1>b. FormOK' /\ ServerOK' /\ TakersOK' => QuizTypes'
  BY DEF QuizTypes, Quiz!TypeOK, Choice, Question, TakerPage, AnyPage
<1>c. UNCHANGED <<draft, marked, shifted>> => FormOK' /\ MarkKept'
  BY <1>a DEF MarkKept
<1>d. UNCHANGED <<quiz, decision>> => ServerOK' /\ DecidesStored'
  BY <1>a DEF DecidesStored
<1>e. UNCHANGED <<draft, marked, shifted, quiz>> => StoredAsSubmitted' /\ Quiz!KeyExplained'
  BY DEF StoredAsSubmitted, Quiz!KeyExplained
<1>f. UNCHANGED <<page, result, overwritten, attempted>>
        /\ (quiz' = quiz \/ quiz' \in Quiz!StoredQuiz) =>
        TakersOK' /\ TakenIsStored' /\ ResultsEarned' /\ Quiz!ReviewExplained' /\ Quiz!KeyIsEarned'
  BY <1>a DEF TakenIsStored, ResultsEarned, Quiz!ReviewExplained, Quiz!KeyIsEarned
<1> HIDE DEF FormOK, ServerOK, TakersOK
<1>0. CASE UNCHANGED Quiz!vars
  BY <1>0, <1>b, <1>c, <1>d, <1>e, <1>f DEF Quiz!vars
\* Composing: only the form changes, and nothing is stored yet.
<1>g. ASSUME quiz = None, UNCHANGED <<quiz, decision, page, result, overwritten, attempted>>,
             FormOK', MarkKept'
      PROVE  QuizIInv'
  BY <1>g, <1>b, <1>d, <1>f DEF StoredAsSubmitted, Quiz!KeyExplained
<1>j. ASSUME NEW d \in Question, draft' = d, quiz = None, d.correctIndex \in DOMAIN d.options,
             UNCHANGED <<quiz, decision, page, result, overwritten, attempted>>,
             marked' \in Choice \cup {None}, shifted' \in BOOLEAN,
             marked' # None /\ ~shifted' => d.options[d.correctIndex] = marked'
      PROVE  QuizIInv'
  <2>1. FormOK' /\ MarkKept'
    BY <1>j DEF FormOK, MarkKept
  <2> QED BY <1>g, <1>j, <2>1
<1>k. /\ draft = [options |-> draft.options, correctIndex |-> draft.correctIndex]
      /\ draft.options \in Seq(Choice) /\ Len(draft.options) \in Nat
      /\ draft.correctIndex \in Nat /\ draft.correctIndex \in 1..Len(draft.options)
      /\ DOMAIN draft.options = 1..Len(draft.options)
      /\ \A i \in DOMAIN draft.options : draft.options[i] \in Choice
  BY <1>a, LenProperties, ElementOfSeq DEF FormOK, Question
<1>1. CASE Quiz!AddOption
  <2> DEFINE options == Append(draft.options, Blank)
             d == [options |-> options, correctIndex |-> draft.correctIndex]
  <2>1. /\ options \in Seq(Choice) /\ DOMAIN options = 1..(Len(draft.options) + 1)
        /\ options[draft.correctIndex] = draft.options[draft.correctIndex]
    BY <1>k, AppendProperties DEF Choice
  <2> HIDE DEF options
  <2>2. d \in Question /\ d.correctIndex \in DOMAIN d.options
    BY <1>k, <2>1 DEF Question
  <2>3. draft' = d
    BY <1>1, <1>k DEF Quiz!AddOption, Quiz!Edit, options
  <2>4. d.options[d.correctIndex] = draft.options[draft.correctIndex]
    BY <2>1
  <2> HIDE DEF d
  <2> QED BY <1>1, <1>a, <1>j, <2>2, <2>3, <2>4 DEF Quiz!AddOption, Quiz!Edit, FormOK, MarkKept
<1>2. CASE Quiz!TypeOption
  <2>1. PICK i \in DOMAIN draft.options, o \in Option :
          /\ Quiz!Edit([draft EXCEPT !.options[i] = o])
          /\ marked' = IF marked # None /\ i = draft.correctIndex /\ ~shifted THEN o ELSE marked
          /\ UNCHANGED shifted
    BY <1>2 DEF Quiz!TypeOption
  <2> DEFINE options == [draft.options EXCEPT ![i] = o]
             d == [options |-> options, correctIndex |-> draft.correctIndex]
  <2>2. /\ options \in Seq(Choice) /\ DOMAIN options = 1..Len(draft.options)
        /\ \A j \in 1..Len(draft.options) : options[j] = IF j = i THEN o ELSE draft.options[j]
    BY <1>k, ExceptSeq DEF Choice
  <2> HIDE DEF options
  <2>3. d \in Question /\ d.correctIndex \in DOMAIN d.options
    BY <1>k, <2>2 DEF Question
  <2>4. draft' = d
    BY <2>1, <1>k, Zenon DEF Quiz!Edit, options
  <2>5. d.options[d.correctIndex] = IF draft.correctIndex = i THEN o ELSE draft.options[draft.correctIndex]
    BY <1>k, <2>2
  <2> HIDE DEF d
  <2> QED BY <1>a, <1>j, <2>1, <2>3, <2>4, <2>5 DEF Quiz!Edit, FormOK, MarkKept, Choice
<1>3. CASE Quiz!Mark
  <2>1. PICK i \in DOMAIN draft.options :
          /\ Quiz!Edit([draft EXCEPT !.correctIndex = i])
          /\ marked' = draft.options[i] /\ shifted' = FALSE
    BY <1>3 DEF Quiz!Mark
  <2> DEFINE d == [options |-> draft.options, correctIndex |-> i]
  <2>2. d \in Question /\ d.correctIndex \in DOMAIN d.options /\ d.options[d.correctIndex] = draft.options[i]
    BY <1>k DEF Question
  <2>3. draft' = d
    BY <2>1, <1>k, Zenon DEF Quiz!Edit
  <2> HIDE DEF d
  <2> QED BY <1>k, <1>j, <2>1, <2>2, <2>3 DEF Quiz!Edit
<1>4. CASE Quiz!RemoveOption
  <2>1. PICK i \in DOMAIN draft.options :
       /\ Len(draft.options) > 2
       /\ LET rest == Quiz!RemoveAt(draft.options, i) IN
          Quiz!Edit([options |-> rest,
                correctIndex |-> Quiz!KeptOrFirst(draft.correctIndex, i, Len(rest))])
       /\ marked' = IF i = draft.correctIndex THEN None ELSE marked
       /\ shifted' = (shifted \/ i < draft.correctIndex)
    BY <1>4 DEF Quiz!RemoveOption
  <2> DEFINE rest == Quiz!RemoveAt(draft.options, i)
             index == Quiz!KeptOrFirst(draft.correctIndex, i, Len(rest))
             d == [options |-> rest, correctIndex |-> index]
  <2>2. /\ rest \in Seq(Choice) /\ Len(rest) = Len(draft.options) - 1
        /\ \A j \in 1..(i - 1) : rest[j] = draft.options[j]
    BY <1>k, RemoveAtShifts
  <2>3. draft' = d
    BY <2>1 DEF Quiz!Edit
  <2> HIDE DEF rest
  <2>4. DOMAIN rest = 1..Len(rest)
    BY <2>2, LenProperties
  <2>5. index \in Nat /\ index \in 1..Len(rest)
    BY <1>k, <2>1, <2>2 DEF Quiz!KeptOrFirst
  <2>6. draft.correctIndex < i => index = draft.correctIndex /\ rest[index] = draft.options[draft.correctIndex]
    BY <1>k, <2>2 DEF Quiz!KeptOrFirst
  <2> HIDE DEF index
  <2>7. d \in Question /\ d.correctIndex \in DOMAIN d.options /\ d.options[d.correctIndex] = rest[index]
    BY <2>2, <2>4, <2>5 DEF Question
  <2> HIDE DEF d
  <2>8. marked' # None /\ ~shifted' => draft.correctIndex < i
    <3>1. marked' # None /\ ~shifted' => i # draft.correctIndex /\ ~(i < draft.correctIndex)
      BY <2>1, Zenon
    <3>2. i \in Nat
      BY <1>k
    <3> QED BY <1>k, <3>1, <3>2
  <2>9. marked' # None /\ ~shifted' => d.options[d.correctIndex] = marked'
    BY <1>a, <2>1, <2>6, <2>7, <2>8 DEF FormOK, MarkKept
  <2>10. marked' \in Choice \cup {None} /\ shifted' \in BOOLEAN
    BY <1>a, <2>1 DEF FormOK
  <2> QED BY <1>j, <2>1, <2>3, <2>7, <2>9, <2>10 DEF Quiz!Edit
\* Submission and moderation.
<1>l. ASSUME quiz' \in Quiz!StoredQuiz, quiz'.options = draft.options,
             quiz'.correctIndex = draft.correctIndex, decision' \in [Admin -> Verdict \cup {None}],
             UNCHANGED <<draft, marked, shifted, page, result, overwritten, attempted>>
      PROVE  QuizIInv'
  <2>1. ServerOK' /\ DecidesStored' /\ StoredAsSubmitted'
    BY <1>l DEF ServerOK, DecidesStored, StoredAsSubmitted
  <2>2. Quiz!KeyExplained'
    BY <1>l DEF Quiz!KeyExplained, MarkKept
  <2> QED BY <1>l, <1>b, <1>c, <1>f, <2>1, <2>2
<1>5. CASE Quiz!Submit
  <2> DEFINE status == IF Trusted THEN "APPROVED" ELSE "PENDING"
             row == [options |-> draft.options, correctIndex |-> draft.correctIndex,
                     status |-> status, rejectionReason |-> FALSE, deleted |-> FALSE]
  <2>1. quiz' = row
    BY <1>5 DEF Quiz!Submit, Quiz!Payload
  <2>2. status \in {"PENDING", "APPROVED", "REJECTED"}
    OBVIOUS
  <2> HIDE DEF status
  <2>3. /\ row \in Quiz!StoredQuiz /\ row.options = draft.options
        /\ row.correctIndex = draft.correctIndex
    BY <1>k, <2>2 DEF Quiz!StoredQuiz, Choice
  <2> HIDE DEF row
  <2> QED BY <1>5, <1>a, <1>l, <2>1, <2>3 DEF Quiz!Submit, ServerOK
<1>6. ASSUME NEW a \in Admin, NEW verdict \in Verdict, Quiz!Consider(a, verdict) PROVE QuizIInv'
  BY <1>6, <1>a, <1>b, <1>c, <1>e, <1>f DEF Quiz!Consider, ServerOK, DecidesStored
<1>7. ASSUME NEW a \in Admin, Quiz!Approve(a) \/ Quiz!Reject(a) \/ Quiz!Delete(a) PROVE QuizIInv'
  <2>1. /\ decision[a] \in Verdict /\ decision' = [decision EXCEPT ![a] = None]
        /\ UNCHANGED <<draft, marked, shifted, page, result, overwritten, attempted>>
    BY <1>7 DEF Quiz!Approve, Quiz!Reject, Quiz!Delete, Quiz!Decide, Verdict
  <2>2. quiz \in Quiz!StoredQuiz /\ quiz # None /\ quiz.options = draft.options
        /\ quiz.correctIndex = draft.correctIndex
    BY <2>1, NullsAssumption DEF DecidesStored, StoredAsSubmitted
  <2>3. quiz' \in {[quiz EXCEPT !.status = "APPROVED", !.rejectionReason = FALSE],
                   [quiz EXCEPT !.status = "REJECTED", !.rejectionReason = TRUE],
                   [quiz EXCEPT !.deleted = TRUE]}
    BY <1>7, Zenon DEF Quiz!Approve, Quiz!Reject, Quiz!Delete, Quiz!Decide
  <2>4. quiz' \in Quiz!StoredQuiz /\ quiz'.options = quiz.options /\ quiz'.correctIndex = quiz.correctIndex
    BY <2>2, <2>3 DEF Quiz!StoredQuiz
  <2>5. decision' \in [Admin -> Verdict \cup {None}]
    BY <1>a, <2>1 DEF ServerOK
  <2> QED BY <1>l, <2>1, <2>2, <2>4, <2>5
\* Taking: only the pages change, and the results.
<1>h. ASSUME UNCHANGED <<draft, marked, shifted, quiz, decision>>, TakersOK', TakenIsStored', ResultsEarned',
             Quiz!ReviewExplained', Quiz!KeyIsEarned'
      PROVE  QuizIInv'
  BY <1>h, <1>b, <1>c, <1>d, <1>e
<1>i. ASSUME NEW t \in Quiz!Tabs, NEW pg \in TakerPage, page' = [page EXCEPT ![t] = pg],
             UNCHANGED <<draft, marked, shifted, quiz, decision, result, attempted>>,
             overwritten' \in {overwritten, overwritten \ {t}},
             pg.phase # "closed" => quiz \in Quiz!StoredQuiz,
             pg.phase = "reviewing" => pg.review = result[t[1]] /\ result[t[1]] # None
      PROVE  QuizIInv'
  <2>1. page \in [Quiz!Tabs -> TakerPage] /\ t[1] \in Taker
    BY <1>a DEF TakersOK, Quiz!Tabs
  <2>2. /\ page' \in [Quiz!Tabs -> TakerPage]
        /\ page'[t] = pg
        /\ \A s \in Quiz!Tabs : s # t => page'[s] = page[s]
    BY <1>i, <2>1, OnePage
  <2>3. TakersOK' /\ TakenIsStored' /\ ResultsEarned'
    BY <1>i, <1>a, <2>2 DEF TakersOK, TakenIsStored, ResultsEarned
  <2>4. Quiz!ReviewExplained' /\ Quiz!KeyIsEarned'
    BY <1>i, <2>1, <2>2 DEF Quiz!ReviewExplained, Quiz!KeyIsEarned, ResultsEarned
  <2> QED BY <1>i, <2>3, <2>4, <1>h
<1>8. ASSUME NEW t \in Quiz!Tabs, Quiz!Browse(t) PROVE QuizIInv'
  <2> DEFINE pg == [page[t] EXCEPT !.phase = "listed"]
  <2>1. pg \in TakerPage /\ pg.phase = "listed"
    BY <1>a DEF TakersOK, TakerPage, AnyPage
  <2>2. page' = [page EXCEPT ![t] = pg]
    BY <1>8 DEF Quiz!Browse
  <2> HIDE DEF pg
  <2> QED BY <1>8, <1>a, <1>i, <2>1, <2>2 DEF Quiz!Browse, Quiz!Approachable, ServerOK
<1>9. ASSUME NEW t \in Quiz!Tabs, Quiz!Open(t) PROVE QuizIInv'
  <2> DEFINE pg == IF Quiz!Approachable
                   THEN [phase |-> IF Quiz!Reveals(t[1]) THEN "reviewing" ELSE "answering",
                         key |-> Quiz!KeyShown(t[1]), review |-> result[t[1]]]
                   ELSE Quiz!Closed
  <2>1. t[1] \in Taker /\ result[t[1]] \in Attempt \cup {None}
    BY <1>a DEF TakersOK, Quiz!Tabs
  <2>2. Quiz!Approachable => Quiz!KeyShown(t[1]) \in Nat \cup {None}
    BY <1>a DEF ServerOK, Quiz!Approachable, Quiz!KeyShown, Quiz!StoredQuiz
  <2>3. pg \in TakerPage
    BY <2>1, <2>2 DEF TakerPage, AnyPage, Quiz!Closed
  <2>4. pg.phase = "reviewing" => pg.review = result[t[1]] /\ result[t[1]] # None
    BY DEF Quiz!Closed, Quiz!Reveals
  <2>5. page' = [page EXCEPT ![t] = pg]
    BY <1>9 DEF Quiz!Open
  <2>6. pg.phase # "closed" => quiz \in Quiz!StoredQuiz
    BY <1>a DEF Quiz!Closed, Quiz!Approachable, ServerOK
  <2> HIDE DEF pg
  <2> QED BY <1>9, <1>i, <2>3, <2>4, <2>5, <2>6 DEF Quiz!Open
<1>10. ASSUME NEW t \in Quiz!Tabs, Quiz!Answer(t) PROVE QuizIInv'
  <2>1. PICK i \in DOMAIN quiz.options :
          page' = [page EXCEPT ![t] = [phase |-> "submitting", key |-> i, review |-> None]]
    BY <1>10 DEF Quiz!Answer
  <2> DEFINE pg == [phase |-> "submitting", key |-> i, review |-> None]
  <2>2. quiz \in Quiz!StoredQuiz
    BY <1>10 DEF Quiz!Answer, TakenIsStored
  <2>3. i \in Nat
    BY <2>2, LenProperties DEF Quiz!StoredQuiz
  <2>4. pg \in TakerPage /\ pg.phase = "submitting"
    BY <2>3 DEF TakerPage, AnyPage
  <2>5. page' = [page EXCEPT ![t] = pg]
    BY <2>1
  <2> HIDE DEF pg
  <2> QED BY <1>10, <1>i, <2>2, <2>4, <2>5 DEF Quiz!Answer
<1>11. ASSUME NEW t \in Quiz!Tabs, Quiz!Grade(t) PROVE QuizIInv'
  <2> DEFINE correct == page[t].key = quiz.correctIndex
             review == [answer |-> page[t].key, correct |-> correct]
             pg == IF Quiz!Approachable
                   THEN [phase |-> "graded", key |-> page[t].key, review |-> review]
                   ELSE [phase |-> "answering", key |-> None, review |-> None]
  <2>1. page[t].key \in Nat
    BY <1>11, <1>a DEF TakersOK, TakerPage, Quiz!Grade
  <2>2. review \in Attempt
    BY <2>1 DEF Attempt
  <2>3. page' = [page EXCEPT ![t] = pg]
    BY <1>11 DEF Quiz!Grade
  <2> HIDE DEF review
  <2>4. pg \in TakerPage /\ pg.phase # "reviewing"
    BY <2>1, <2>2 DEF TakerPage, AnyPage
  <2>5. quiz \in Quiz!StoredQuiz
    BY <1>11 DEF Quiz!Grade, TakenIsStored
  <2> HIDE DEF pg
  <2> QED BY <1>11, <1>i, <2>3, <2>4, <2>5 DEF Quiz!Grade
<1>12. ASSUME NEW t \in Quiz!Tabs, Quiz!Store(t) PROVE QuizIInv'
  <2> DEFINE pg == [page[t] EXCEPT !.phase = "reviewing", !.key = quiz.correctIndex]
  <2>1. page[t] \in TakerPage /\ t[1] \in Taker
    BY <1>a DEF TakersOK, Quiz!Tabs
  <2>2. quiz \in Quiz!StoredQuiz
    BY <1>12 DEF Quiz!Store, TakenIsStored
  <2>3. pg \in TakerPage /\ pg.phase = "reviewing" /\ pg.review = page[t].review
    BY <2>1, <2>2 DEF TakerPage, AnyPage, Quiz!StoredQuiz
  <2>4. page' = [page EXCEPT ![t] = pg]
    BY <1>12, Zenon DEF Quiz!Store
  <2>5. page[t].review \in Attempt \cup {None}
    BY <2>1 DEF TakerPage, AnyPage
  <2>6. /\ result' = [result EXCEPT ![t[1]] = page[t].review]
        /\ overwritten' = (overwritten \ {t}) \cup {s \in Quiz!Tabs : /\ s # t /\ s[1] = t[1]
                                                                     /\ page[s].phase = "reviewing"}
        /\ attempted' = attempted \cup {t[1]}
        /\ UNCHANGED <<draft, marked, shifted, quiz, decision>>
    BY <1>12 DEF Quiz!Store, Quiz!Upserted
  <2> HIDE DEF pg
  <2>7. /\ page' \in [Quiz!Tabs -> TakerPage]
        /\ page'[t] = pg
        /\ \A s \in Quiz!Tabs : s # t => page'[s] = page[s]
    BY <1>a, <2>3, <2>4, OnePage DEF TakersOK
  <2>8. /\ result' \in [Taker -> Attempt \cup {None}]
        /\ result'[t[1]] = page[t].review
        /\ \A u \in Taker : u # t[1] => result'[u] = result[u]
    BY <1>a, <2>1, <2>5, <2>6 DEF TakersOK
  <2>9. TakersOK' /\ TakenIsStored' /\ ResultsEarned'
    BY <1>a, <2>1, <2>2, <2>6, <2>7, <2>8 DEF TakersOK, TakenIsStored, ResultsEarned
  <2>10. Quiz!ReviewExplained'
    <3> SUFFICES ASSUME NEW s \in Quiz!Tabs, page'[s].phase = "reviewing", s \notin overwritten'
                 PROVE  page'[s].review = result'[s[1]]
      BY DEF Quiz!ReviewExplained
    <3>1. CASE s = t
      BY <3>1, <2>3, <2>7, <2>8
    <3>2. CASE s # t
      <4>1. page[s].phase = "reviewing" /\ page'[s] = page[s]
        BY <3>2, <2>7
      <4>2. s[1] # t[1] /\ s \notin overwritten
        BY <3>2, <4>1, <2>6
      <4>3. s[1] \in Taker
        BY DEF Quiz!Tabs
      <4> QED BY <4>1, <4>2, <4>3, <2>8 DEF Quiz!ReviewExplained
    <3> QED BY <3>1, <3>2
  <2>11. Quiz!KeyIsEarned'
    BY <2>6, <2>7 DEF Quiz!KeyIsEarned
  <2> QED BY <1>h, <2>6, <2>9, <2>10, <2>11
<1>13. ASSUME NEW t \in Quiz!Tabs, Quiz!Close(t) PROVE QuizIInv'
  <2>1. Quiz!Closed \in TakerPage /\ Quiz!Closed.phase = "closed"
    BY DEF Quiz!Closed, TakerPage, AnyPage
  <2> QED BY <1>13, <1>i, <2>1 DEF Quiz!Close
<1> QED BY <1>0, <1>1, <1>2, <1>3, <1>4, <1>5, <1>6, <1>7, <1>8, <1>9, <1>10, <1>11, <1>12,
           <1>13 DEF Quiz!Next, Verdict

(* For any number of options, takers, tabs and administrators the stored   *)
(* key is the option the author marked, unless one above it was removed; a *)
(* review shows the stored attempt, unless another tab overwrote it; and   *)
(* nobody is shown the key before an attempt was graded                    *)
(* (tests/create/page.tsx, quizzes.ts).                                    *)
THEOREM QuizzesHold == Spec => []QuizzesCorrect
<1>1. Init => QuizInductive
  BY QuizStarts, QuizInit DEF QuizInductive
<1>2. QuizInductive /\ [Next]_all => QuizInductive'
  BY QuizMoves, QuizStep DEF QuizInductive
<1>3. QuizInductive => QuizzesCorrect
  BY DEF QuizInductive, QuizIInv, QuizTypes, QuizzesCorrect
<1> QED BY <1>1, <1>2, <1>3, PTL DEF Spec

(***************************************************************************)
(* Signing in (auth.tsx, api.ts, login/page.tsx).                          *)
(***************************************************************************)
Holder == Account \cup {None}
Kind == {"form", "read", "here", "left", "post", "delete"}
Flow == [phase : {"idle", "sent", "renewing", "failed"}, kind : Kind \cup {None},
         sent : Holder, again : BOOLEAN, late : BOOLEAN]
Running(f) == flow[f].phase # "idle"

SignInTypes ==
    /\ token \in Holder /\ user \in Holder /\ cookie \in Holder /\ leaving \in Holder
    /\ stored \subseteq Account
    /\ flow \in [Tab!Flows -> Flow]
    /\ renewal \in Tab!Renewal \cup {None}
    /\ loading \in BOOLEAN /\ visiting \in BOOLEAN /\ latch \in BOOLEAN
    /\ out \in BOOLEAN /\ fromOther \in BOOLEAN
    /\ \A f \in Tab!Flows : flow[f].phase = "renewing" => renewal # None

\* While nothing has torn them apart, the calls in time carry the token, and the
\* cookie of this tab, and a renewal with it, are the token's account.
CallsCarryToken == \A f \in Tab!Flows : Running(f) /\ ~flow[f].late => flow[f].sent = token
CookieIsOurs == cookie # None /\ token # None /\ ~fromOther => cookie = token
RenewalIsOurs == renewal # None => \/ renewal.late \/ renewal.foreign
                                   \/ renewal.account \in {None, token}
Joined == why = {} => CallsCarryToken /\ CookieIsOurs /\ RenewalIsOurs
CookieKept == SameOrigin \/ cookie = None
BootReads == Running("boot") => flow["boot"].kind = "read"

\* Once signed out, whatever could sign the tab in again is late.
OutKnown == out /\ "late" \notin why =>
              /\ user = None /\ token = None
              /\ \A f \in Tab!Flows : Running(f) /\ ~flow[f].late => flow[f].sent = None
              /\ renewal # None => renewal.late

\* A quick login of this visit holds the latch, and there is one of them.
Here(q) == Running(q) /\ flow[q].kind = "here"
LoopLatched == /\ \A q \in Tab!Quick : Running(q) => flow[q].kind \in {"here", "left"}
               /\ \A q \in Tab!Quick : Here(q) => latch
               /\ \A q, r \in Tab!Quick : Here(q) /\ Here(r) => q = r

SignInIInv == /\ SignInTypes
              /\ Joined /\ CookieKept /\ BootReads
              /\ OutKnown
              /\ LoopLatched
              /\ Tab!SessionExplained

SignInInductive == part = "signin" => SignInIInv

LEMMA SignInStarts == Init /\ part = "signin" => Tab!Init
  BY DEF Init

LEMMA SignInMoves ==
  ASSUME [Next]_all, part' = "signin"
  PROVE  part = "signin" /\ [Tab!Next]_(Tab!vars)
<1>1. CASE UNCHANGED all
  BY <1>1 DEF all, Tab!vars, Tab!session, Tab!server, Tab!loginPage, Tab!ghost, Tab!bounds
<1>2. CASE Next
  BY <1>2 DEF Next
<1> QED BY <1>1, <1>2

LEMMA IdleIsFlow == Tab!Idle \in Flow /\ Tab!Idle.phase = "idle" /\ Tab!Idle.sent = None
  BY DEF Tab!Idle, Flow, Holder

LEMMA SentIsFlow ==
  ASSUME NEW kind \in Kind, NEW tok \in Holder
  PROVE  /\ Tab!Sent(kind, tok) \in Flow
         /\ Tab!Sent(kind, tok).phase = "sent" /\ Tab!Sent(kind, tok).kind = kind
         /\ Tab!Sent(kind, tok).sent = tok /\ ~Tab!Sent(kind, tok).late
  BY DEF Tab!Sent, Tab!Idle, Flow, Holder

LEMMA OneFlow ==
  ASSUME NEW fl \in [Tab!Flows -> Flow], NEW f \in Tab!Flows, NEW new \in Flow
  PROVE  LET fl2 == [fl EXCEPT ![f] = new] IN
         /\ fl2 \in [Tab!Flows -> Flow]
         /\ fl2[f] = new
         /\ \A g \in Tab!Flows : g # f => fl2[g] = fl[g]
  OBVIOUS

LEMMA OvertakenFlows ==
  ASSUME NEW fl \in [Tab!Flows -> Flow]
  PROVE  /\ Tab!Overtaken(fl) \in [Tab!Flows -> Flow]
         /\ \A f \in Tab!Flows :
              /\ Tab!Overtaken(fl)[f].phase = fl[f].phase
              /\ fl[f].phase # "idle" => /\ Tab!Overtaken(fl)[f].late
                                         /\ Tab!Overtaken(fl)[f].kind = fl[f].kind
<1> DEFINE over(f) == IF fl[f].phase = "idle" THEN Tab!Idle ELSE [fl[f] EXCEPT !.late = TRUE]
<1>1. ASSUME NEW f \in Tab!Flows
      PROVE  /\ over(f) \in Flow /\ over(f).phase = fl[f].phase
             /\ fl[f].phase # "idle" => over(f).late /\ over(f).kind = fl[f].kind
  <2>1. fl[f] \in Flow
    OBVIOUS
  <2> QED BY <2>1, IdleIsFlow DEF Flow
<1>2. Tab!Overtaken(fl) = [f \in Tab!Flows |-> over(f)]
  BY DEF Tab!Overtaken
<1> HIDE DEF over
<1> QED BY <1>1, <1>2

LEMMA OvertakenRenewalIsLate ==
  ASSUME renewal \in Tab!Renewal \cup {None}
  PROVE  /\ Tab!OvertakenRenewal \in Tab!Renewal \cup {None}
         /\ renewal # None <=> Tab!OvertakenRenewal # None
         /\ Tab!OvertakenRenewal # None => Tab!OvertakenRenewal.late
<1>1. CASE renewal = None
  BY <1>1 DEF Tab!OvertakenRenewal
<1>2. CASE renewal # None
  <2>1. Tab!OvertakenRenewal = [renewal EXCEPT !.late = TRUE]
    BY <1>2 DEF Tab!OvertakenRenewal
  <2>2. [renewal EXCEPT !.late = TRUE] \in Tab!Renewal /\ [renewal EXCEPT !.late = TRUE].late
    BY <1>2 DEF Tab!Renewal
  <2> QED BY <1>2, <2>1, <2>2, NullsAssumption
<1> QED BY <1>1, <1>2

LEMMA SignInInit == Tab!Init => SignInIInv
<1> SUFFICES ASSUME Tab!Init PROVE SignInIInv
  OBVIOUS
<1>1. flow \in [Tab!Flows -> Flow] /\ \A f \in Tab!Flows : flow[f].phase = "idle"
  BY IdleIsFlow DEF Tab!Init
<1>2. {"boot", "quick1", "quick2"} \subseteq Tab!Flows
  BY DEF Tab!Flows, Tab!Quick
<1>3. SignInTypes
  BY <1>1, Zenon DEF Tab!Init, SignInTypes, Holder
<1>4. Joined /\ CookieKept /\ BootReads /\ OutKnown /\ Tab!SessionExplained
  BY <1>1, <1>2, Zenon DEF Tab!Init, Joined, CallsCarryToken, CookieIsOurs, RenewalIsOurs, CookieKept,
     BootReads, OutKnown, Tab!SessionExplained, Running
<1>5. LoopLatched
  BY <1>1, <1>2, Zenon DEF LoopLatched, Here, Running, Tab!Quick
<1> QED BY <1>3, <1>4, <1>5 DEF SignInIInv

\* What a step must keep of the session.
SessionKept == /\ SignInTypes
               /\ Joined /\ CookieKept /\ BootReads
               /\ OutKnown
               /\ Tab!SessionExplained

\* A step that changes one call and nothing of the session.
LEMMA OneCall ==
  ASSUME SignInIInv, NEW f \in Tab!Flows, NEW new \in Flow, flow' = [flow EXCEPT ![f] = new],
         UNCHANGED <<token, user, renewal, cookie, stored, leaving, fromOther, out, why>>,
         loading' \in BOOLEAN, visiting' \in BOOLEAN, latch' \in BOOLEAN,
         new.phase # "renewing",
         new.phase # "idle" => \/ new.sent = token
                               \/ Running(f) /\ new.sent = flow[f].sent /\ new.late = flow[f].late,
         f = "boot" => new.phase # "idle" /\ new.kind = "read"
  PROVE  /\ SessionKept'
         /\ flow'[f] = new /\ \A g \in Tab!Flows : g # f => flow'[g] = flow[g]
<1>1. /\ flow' \in [Tab!Flows -> Flow]
      /\ flow'[f] = new /\ \A g \in Tab!Flows : g # f => flow'[g] = flow[g]
  BY OneFlow DEF SignInIInv, SignInTypes
<1>2. "boot" \in Tab!Flows
  BY DEF Tab!Flows
<1>3. SignInTypes'
  BY <1>1 DEF SignInIInv, SignInTypes
<1>4. CookieKept' /\ BootReads'
  BY <1>1, <1>2 DEF SignInIInv, CookieKept, BootReads, Running
<1>5. Joined'
  BY <1>1 DEF SignInIInv, Joined, CallsCarryToken, CookieIsOurs, RenewalIsOurs, Running
<1>6. OutKnown'
  BY <1>1 DEF SignInIInv, OutKnown, Running
<1>7. Tab!SessionExplained'
  BY <1>1, <1>2 DEF SignInIInv, Tab!SessionExplained
<1> QED BY <1>1, <1>3, <1>4, <1>5, <1>6, <1>7 DEF SessionKept

\* A step that changes who is signed in: every call under way will be late.
LEMMA SessionChanged ==
  ASSUME SignInIInv, NEW fl \in [Tab!Flows -> Flow], flow' = Tab!Overtaken(fl),
         \A f \in Tab!Flows : fl[f] = flow[f] \/ fl[f].phase = "idle",
         renewal' = Tab!OvertakenRenewal,
         token' \in Holder, user' \in Holder, cookie' \in Holder, leaving' \in Holder,
         stored' \subseteq Account, loading' \in BOOLEAN, visiting' \in BOOLEAN,
         latch' \in BOOLEAN, out' \in BOOLEAN, fromOther' \in BOOLEAN,
         SameOrigin \/ cookie' = None,
         why' = {} => CookieIsOurs',
         user' = token' \/ why' # {},
         out' /\ "late" \notin why' => user' = None /\ token' = None
  PROVE  /\ SessionKept'
         /\ \A f \in Tab!Flows : Running(f)' => Running(f) /\ fl[f] = flow[f]
                                                /\ flow'[f].kind = flow[f].kind
<1>1. /\ flow' \in [Tab!Flows -> Flow]
      /\ \A f \in Tab!Flows : /\ flow'[f].phase = fl[f].phase
                              /\ fl[f].phase # "idle" => flow'[f].late /\ flow'[f].kind = fl[f].kind
  BY OvertakenFlows
<1>2. \A f \in Tab!Flows : Running(f)' => /\ Running(f) /\ fl[f] = flow[f]
                                        /\ flow'[f].late /\ flow'[f].kind = flow[f].kind
  BY <1>1 DEF Running
<1>3. /\ renewal' \in Tab!Renewal \cup {None}
      /\ renewal # None => renewal' # None
      /\ renewal' # None => renewal'.late
  BY OvertakenRenewalIsLate DEF SignInIInv, SignInTypes
<1>4. \A f \in Tab!Flows : flow'[f].phase = "renewing" => renewal' # None
  BY <1>1, <1>3 DEF SignInIInv, SignInTypes
<1>5. SignInTypes'
  BY <1>1, <1>3, <1>4 DEF SignInTypes
<1>6. "boot" \in Tab!Flows
  BY DEF Tab!Flows
<1>7. CookieKept' /\ BootReads'
  BY <1>2, <1>6 DEF SignInIInv, CookieKept, BootReads, Running
<1>8. Joined'
  BY <1>2, <1>3 DEF Joined, CallsCarryToken, RenewalIsOurs, Running
<1>9. OutKnown'
  BY <1>2, <1>3 DEF OutKnown, Running
<1>10. Tab!SessionExplained'
  BY DEF Tab!SessionExplained
<1> QED BY <1>2, <1>5, <1>7, <1>8, <1>9, <1>10 DEF SessionKept

\* A step that starts no quick login: the latch is given up only by the last of this visit.
LEMMA LoopsKept ==
  ASSUME LoopLatched,
         \A q \in Tab!Quick : Running(q)' => Running(q) /\ flow'[q].kind \in {flow[q].kind, "left"},
         latch' = latch \/ \A q \in Tab!Quick : ~Here(q)'
  PROVE  LoopLatched'
<1>1. \A q \in Tab!Quick : Here(q)' => Here(q)
  BY DEF Here
<1> QED BY <1>1 DEF LoopLatched

\* Nor does one that ends a quick login and releases the latch.
LEMMA LoopReleased ==
  ASSUME LoopLatched, NEW q \in Tab!Quick, Running(q), ~Running(q)',
         \A r \in Tab!Quick : Running(r)' => Running(r) /\ flow'[r].kind = flow[r].kind,
         latch' = (latch /\ flow[q].kind = "left")
  PROVE  LoopLatched'
<1>1. CASE flow[q].kind = "left"
  <2>1. Here(q) = FALSE /\ (\A r \in Tab!Quick : Here(r)' => Here(r) /\ r # q)
    BY <1>1 DEF Here
  <2> QED BY <1>1, <2>1 DEF LoopLatched
<1>2. CASE flow[q].kind # "left"
  <2>1. Here(q)
    BY <1>2 DEF LoopLatched, Here
  <2>2. \A r \in Tab!Quick : ~Here(r)'
    BY <2>1 DEF LoopLatched, Here
  <2> QED BY <2>2 DEF LoopLatched, Here
<1> QED BY <1>1, <1>2

LEMMA SignInStep == SignInIInv /\ [Tab!Next]_(Tab!vars) => SignInIInv'
<1> SUFFICES ASSUME SignInIInv, [Tab!Next]_(Tab!vars) PROVE SignInIInv'
  OBVIOUS
<1> USE DEF Tab!session, Tab!server, Tab!loginPage, Tab!ghost, Tab!bounds
<1>t. /\ SignInTypes /\ LoopLatched
      /\ token \in Holder /\ user \in Holder /\ cookie \in Holder /\ leaving \in Holder
      /\ stored \subseteq Account /\ flow \in [Tab!Flows -> Flow]
      /\ loading \in BOOLEAN /\ visiting \in BOOLEAN /\ latch \in BOOLEAN
      /\ out \in BOOLEAN /\ fromOther \in BOOLEAN
  BY DEF SignInIInv, SignInTypes
<1>f. /\ Tab!Quick \subseteq Tab!Flows /\ {"boot", "login", "me", "act"} \subseteq Tab!Flows
      /\ Tab!Quick \cap {"boot", "login", "me", "act"} = {}
  BY DEF Tab!Flows, Tab!Quick
<1>q. SessionKept' /\ LoopLatched' => SignInIInv'
  BY DEF SessionKept, SignInIInv
<1>0. CASE UNCHANGED Tab!vars
  <2> USE <1>0 DEF Tab!vars
  <2>1. SignInTypes'
    BY DEF SignInIInv, SignInTypes
  <2>2. Joined' /\ CookieKept' /\ BootReads'
    BY DEF SignInIInv, Joined, CallsCarryToken, CookieIsOurs, RenewalIsOurs, CookieKept, BootReads, Running
  <2>3. OutKnown' /\ Tab!SessionExplained'
    BY DEF SignInIInv, OutKnown, Running, Tab!SessionExplained
  <2>4. LoopLatched'
    BY DEF SignInIInv, LoopLatched, Here, Running
  <2> QED BY <2>1, <2>2, <2>3, <2>4 DEF SignInIInv

\* Calls: one of them changes.
<1>c. ASSUME NEW f \in Tab!Flows, NEW new \in Flow, flow' = [flow EXCEPT ![f] = new],
             UNCHANGED <<token, user, renewal, cookie, stored, leaving, fromOther, out, why>>,
             loading' \in BOOLEAN, visiting' \in BOOLEAN, UNCHANGED latch,
             new.phase # "renewing",
             new.phase # "idle" => \/ new.sent = token
                                   \/ Running(f) /\ new.sent = flow[f].sent /\ new.late = flow[f].late,
             f = "boot" => new.phase # "idle" /\ new.kind = "read",
             f \in Tab!Quick => new.phase = "idle" \/ (Running(f) /\ new.kind = flow[f].kind)
      PROVE  SignInIInv'
  <2>1. SessionKept' /\ flow'[f] = new /\ \A g \in Tab!Flows : g # f => flow'[g] = flow[g]
    BY <1>c, <1>t, OneCall
  <2>2. LoopLatched'
    BY <1>c, <1>f, <1>t, <2>1, LoopsKept DEF Running
  <2> QED BY <1>q, <2>1, <2>2
\* Calls other than quick logins begin with the token.
<1>b. ASSUME NEW f \in {"login", "me", "act"}, NEW kind \in Kind, Tab!Begin(f, kind),
             UNCHANGED <<token, user, loading, renewal, cookie, stored, leaving, fromOther,
                         visiting, latch, out, why>>
      PROVE  SignInIInv'
  <2> DEFINE new == Tab!Sent(kind, token)
  <2>1. new \in Flow /\ new.phase = "sent" /\ new.sent = token
    BY <1>t, SentIsFlow
  <2>2. f \in Tab!Flows /\ f \notin Tab!Quick /\ f # "boot" /\ flow' = [flow EXCEPT ![f] = new]
    BY <1>b, <1>f DEF Tab!Begin
  <2> HIDE DEF new
  <2> QED BY <1>b, <1>c, <1>t, <2>1, <2>2
<1>1. CASE Tab!Login
  BY <1>1, <1>b DEF Tab!Login, Kind
<1>2. CASE Tab!Refresh
  BY <1>2, <1>b DEF Tab!Refresh, Kind
<1>3. ASSUME NEW kind \in {"post", "delete"}, Tab!Act(kind) PROVE SignInIInv'
  BY <1>3, <1>b DEF Tab!Act, Kind
<1>4. CASE Tab!Acted
  <2> DEFINE new == IF token = None THEN Tab!Idle ELSE Tab!Sent("read", token)
  <2>1. /\ new \in Flow /\ new.phase # "renewing"
        /\ new.phase # "idle" => new.sent = token
    BY <1>t, SentIsFlow, IdleIsFlow DEF Kind
  <2>2. /\ flow' = [flow EXCEPT !["act"] = new]
        /\ UNCHANGED <<token, user, loading, renewal, cookie, stored, leaving, fromOther,
                       visiting, latch, out, why>>
    BY <1>4 DEF Tab!Acted
  <2> HIDE DEF new
  <2> QED BY <1>c, <1>f, <1>t, <2>1, <2>2
<1>5. ASSUME NEW f \in Tab!Flows, Tab!Lost(f) PROVE SignInIInv'
  <2>0. flow[f] \in Flow /\ flow[f].phase = "sent" /\ Running(f)
    BY <1>5, <1>t DEF Tab!Lost, Running
  <2>1. PICK new \in {[flow[f] EXCEPT !.sent = token], [flow[f] EXCEPT !.phase = "failed"]} :
          flow' = [flow EXCEPT ![f] = new]
    BY <1>5, Zenon DEF Tab!Lost
  <2>2. /\ new \in Flow /\ new.phase \in {"sent", "failed"} /\ new.kind = flow[f].kind
        /\ new.late = flow[f].late /\ (new.sent = token \/ new.sent = flow[f].sent)
    BY <1>t, <2>0 DEF Flow
  <2>3. f = "boot" => new.kind = "read"
    BY <2>0, <2>2 DEF SignInIInv, BootReads
  <2> QED BY <1>5, <1>c, <1>t, <2>0, <2>1, <2>2, <2>3 DEF Tab!Lost
<1>6. ASSUME NEW f \in Tab!Flows, Tab!Refused(f) PROVE SignInIInv'
  <2>0. /\ flow[f] \in Flow /\ flow[f].phase = "sent" /\ Running(f) /\ f \notin Tab!Quick
        /\ f = "boot" => flow[f].kind = "read"
        /\ UNCHANGED <<token, user, loading, cookie, stored, leaving, fromOther,
                       visiting, latch, out, why>>
    BY <1>6, <1>t DEF Tab!Refused, Running, SignInIInv, BootReads
  <2>1. CASE ~Tab!Renews(f)
    <3> DEFINE new == [flow[f] EXCEPT !.phase = "failed"]
    <3>1. /\ new \in Flow /\ new.phase = "failed" /\ new.kind = flow[f].kind
          /\ new.late = flow[f].late /\ new.sent = flow[f].sent
      BY <2>0 DEF Flow
    <3>2. flow' = [flow EXCEPT ![f] = new] /\ UNCHANGED renewal
      BY <1>6, <2>1, Zenon DEF Tab!Refused
    <3> HIDE DEF new
    <3> QED BY <1>c, <1>t, <2>0, <3>1, <3>2
  <2>2. CASE Tab!Renews(f)
    <3> DEFINE new == [flow[f] EXCEPT !.phase = "renewing", !.again = TRUE]
               asked == [account |-> cookie, foreign |-> fromOther, late |-> flow[f].late]
    <3>1. /\ new \in Flow /\ new.phase = "renewing" /\ new.kind = flow[f].kind
          /\ new.late = flow[f].late /\ new.sent = flow[f].sent
      BY <2>0 DEF Flow
    <3>2. /\ flow' = [flow EXCEPT ![f] = new]
          /\ renewal' = IF renewal # None THEN renewal ELSE asked
      BY <1>6, <2>2, Zenon DEF Tab!Refused
    <3>3. /\ asked \in Tab!Renewal /\ asked.account = cookie /\ asked.foreign = fromOther
          /\ asked.late = flow[f].late
      BY <1>t, <2>0 DEF Tab!Renewal, Flow, Holder
    <3> HIDE DEF new, asked
    <3>4. /\ flow' \in [Tab!Flows -> Flow]
          /\ flow'[f] = new /\ \A g \in Tab!Flows : g # f => flow'[g] = flow[g]
      BY <1>t, <3>1, <3>2, OneFlow
    <3>5. renewal' \in Tab!Renewal /\ renewal' # None
      BY <3>2, <3>3, NullsAssumption DEF SignInIInv, SignInTypes
    <3>6. SignInTypes'
      BY <1>t, <2>0, <3>4, <3>5 DEF SignInTypes
    <3>7. CookieKept' /\ BootReads'
      BY <1>f, <2>0, <3>1, <3>4 DEF SignInIInv, CookieKept, BootReads, Running
    <3>8. Tab!SessionExplained'
      BY <1>f, <2>0, <3>1, <3>4 DEF SignInIInv, Tab!SessionExplained
    <3>9. flow[f].sent # None
      BY <2>2 DEF Tab!Renews
    <3>10. Joined'
      <4> SUFFICES ASSUME why = {} PROVE CallsCarryToken' /\ CookieIsOurs' /\ RenewalIsOurs'
        BY <2>0 DEF Joined
      <4>1. CallsCarryToken /\ CookieIsOurs /\ RenewalIsOurs
        BY DEF SignInIInv, Joined
      <4>2. CallsCarryToken' /\ CookieIsOurs'
        BY <2>0, <3>1, <3>4, <4>1 DEF CallsCarryToken, CookieIsOurs, Running
      <4>0. token' = token
        BY <2>0
      <4>3. ASSUME renewal # None PROVE RenewalIsOurs'
        BY <3>2, <4>0, <4>1, <4>3, Zenon DEF RenewalIsOurs
      <4>4. ASSUME renewal = None PROVE RenewalIsOurs'
        <5>1. flow[f].late \/ fromOther \/ cookie \in {None, token}
          BY <2>0, <3>9, <4>1 DEF CallsCarryToken, CookieIsOurs
        <5>2. renewal' = asked
          BY <3>2, <4>4
        <5> QED BY <3>3, <4>0, <5>1, <5>2, Zenon DEF RenewalIsOurs
      <4> QED BY <4>2, <4>3, <4>4
    <3>11. OutKnown'
      BY <2>0, <3>1, <3>2, <3>3, <3>4, <3>9 DEF SignInIInv, OutKnown, Running
    <3>12. LoopLatched'
      BY <1>f, <1>t, <2>0, <3>4, LoopsKept DEF Running
    <3> QED BY <1>q, <3>6, <3>7, <3>8, <3>10, <3>11, <3>12 DEF SessionKept
  <2> QED BY <2>1, <2>2
<1>7. ASSUME NEW f \in Tab!Flows, Tab!CallFails(f) PROVE SignInIInv'
  <2>0. /\ Running(f) /\ f # "boot" /\ flow' = [flow EXCEPT ![f] = Tab!Idle]
        /\ UNCHANGED <<token, user, loading, renewal, cookie, stored, leaving, fromOther, visiting, out, why>>
    BY <1>7 DEF Tab!CallFails, Tab!Released, Running, SignInIInv, BootReads
  <2>1. CASE f \notin Tab!Quick
    BY <1>7, <1>c, <1>t, <2>0, <2>1, IdleIsFlow DEF Tab!CallFails
  <2>2. CASE f \in Tab!Quick
    <3>1. latch' = (latch /\ flow[f].kind = "left")
      BY <1>7, <2>2 DEF Tab!CallFails, Tab!Released
    <3>2. SessionKept' /\ flow'[f] = Tab!Idle /\ \A g \in Tab!Flows : g # f => flow'[g] = flow[g]
      BY <1>t, <2>0, <3>1, OneCall, IdleIsFlow
    <3>3. LoopLatched'
      BY <1>f, <1>t, <2>0, <2>2, <3>1, <3>2, IdleIsFlow, LoopReleased DEF Running
    <3> QED BY <1>q, <3>2, <3>3
  <2> QED BY <2>1, <2>2
<1>8. ASSUME NEW q \in Tab!Quick, Tab!QuickEnds(q) PROVE SignInIInv'
  <2>1. /\ Running(q) /\ q \in Tab!Flows /\ q # "boot" /\ flow' = [flow EXCEPT ![q] = Tab!Idle]
        /\ UNCHANGED <<token, user, loading, renewal, cookie, stored, leaving, fromOther, visiting, out, why>>
        /\ latch' = (latch /\ flow[q].kind = "left")
    BY <1>8, <1>f DEF Tab!QuickEnds, Tab!Released, Running
  <2>2. SessionKept' /\ flow'[q] = Tab!Idle /\ \A g \in Tab!Flows : g # q => flow'[g] = flow[g]
    BY <1>t, <2>1, OneCall, IdleIsFlow
  <2>3. LoopLatched'
    BY <1>f, <1>t, <2>1, <2>2, IdleIsFlow, LoopReleased DEF Running
  <2> QED BY <1>q, <2>2, <2>3
<1>9. ASSUME NEW q \in Tab!Quick, Tab!QuickLogin(q) PROVE SignInIInv'
  <2> DEFINE new == Tab!Sent("here", token)
  <2>1. /\ ~Running(q) /\ q \in Tab!Flows /\ q # "boot" /\ ~latch /\ latch' = TRUE
        /\ flow' = [flow EXCEPT ![q] = new]
        /\ UNCHANGED <<token, user, loading, renewal, cookie, stored, leaving, fromOther, visiting, out, why>>
    BY <1>9, <1>f DEF Tab!QuickLogin, Tab!Begin, Tab!Latched, Running
  <2>2. new \in Flow /\ new.phase = "sent" /\ new.kind = "here" /\ new.sent = token
    BY <1>t, SentIsFlow DEF Kind
  <2> HIDE DEF new
  <2>3. SessionKept' /\ flow'[q] = new /\ \A g \in Tab!Flows : g # q => flow'[g] = flow[g]
    BY <1>t, <2>1, <2>2, OneCall
  <2>4. \A r \in Tab!Quick : /\ ~Here(r)
                             /\ r # q => (Running(r)' <=> Running(r)) /\ flow'[r].kind = flow[r].kind
    BY <1>f, <1>t, <2>1, <2>3 DEF LoopLatched, Running
  <2>5. LoopLatched'
    BY <1>t, <2>1, <2>2, <2>3, <2>4 DEF LoopLatched, Here
  <2> QED BY <1>q, <2>3, <2>5

\* Signing in and out.
<1>s. ASSUME NEW f \in {"login"} \cup Tab!Quick, NEW a \in Account, Tab!SignedIn(f, a),
             UNCHANGED visiting, latch' \in BOOLEAN
      PROVE  /\ SessionKept' /\ Running(f) /\ ~Running(f)'
             /\ \A g \in Tab!Flows : Running(g)' => Running(g) /\ flow'[g].kind = flow[g].kind
  <2> DEFINE fl == [flow EXCEPT ![f] = Tab!Idle]
  <2>1. /\ f \in Tab!Flows /\ flow[f].phase = "sent" /\ flow' = Tab!Overtaken(fl)
        /\ token' = a /\ user' = a /\ loading' = loading /\ leaving' = leaving
        /\ stored' = stored \cup {a} /\ renewal' = Tab!OvertakenRenewal
        /\ out' = (out /\ flow[f].late) /\ why' = IF flow[f].late THEN why \cup {"late"} ELSE {}
    BY <1>s, <1>f DEF Tab!SignedIn
  <2>2. \/ SameOrigin /\ cookie' = a /\ fromOther' = FALSE
        \/ ~SameOrigin /\ cookie' = cookie /\ fromOther' = fromOther
    BY <1>s DEF Tab!SignedIn
  <2>3. /\ fl \in [Tab!Flows -> Flow]
        /\ fl[f] = Tab!Idle /\ \A g \in Tab!Flows : g # f => fl[g] = flow[g]
    BY <1>t, <2>1, IdleIsFlow, OneFlow
  <2> HIDE DEF fl
  <2>4. a \in Holder /\ flow[f].late \in BOOLEAN /\ (SameOrigin \/ cookie = None)
    BY <1>t, <2>1 DEF Holder, Flow, SignInIInv, CookieKept
  <2>5. /\ cookie' \in Holder /\ fromOther' \in BOOLEAN /\ (SameOrigin \/ cookie' = None)
        /\ CookieIsOurs'
    BY <1>t, <2>1, <2>2, <2>4 DEF CookieIsOurs
  <2>6. out' \in BOOLEAN /\ ~(out' /\ "late" \notin why')
    BY <1>t, <2>1, <2>4
  <2>7. /\ SessionKept'
        /\ \A g \in Tab!Flows : Running(g)' => Running(g) /\ fl[g] = flow[g] /\ flow'[g].kind = flow[g].kind
    BY <1>s, <1>t, <2>1, <2>3, <2>4, <2>5, <2>6, IdleIsFlow, SessionChanged
  <2>8. ~Running(f)'
    BY <2>1, <2>3, <2>7, IdleIsFlow
  <2> QED BY <2>1, <2>7, <2>8 DEF Running
<1>10. ASSUME NEW a \in Account, Tab!LoggedIn(a) PROVE SignInIInv'
  <2>1. Tab!SignedIn("login", a) /\ UNCHANGED <<visiting, latch>>
    BY <1>10 DEF Tab!LoggedIn
  <2>2. SessionKept' /\ \A g \in Tab!Flows : Running(g)' => Running(g) /\ flow'[g].kind = flow[g].kind
    BY <1>s, <1>t, <2>1
  <2>3. LoopLatched'
    BY <1>f, <1>t, <2>1, <2>2, LoopsKept
  <2> QED BY <1>q, <2>2, <2>3
<1>11. ASSUME NEW q \in Tab!Quick, NEW a \in Account, Tab!QuickCompletes(q, a) PROVE SignInIInv'
  <2>1. Tab!SignedIn(q, a) /\ UNCHANGED visiting /\ latch' = (latch /\ flow[q].kind = "left")
    BY <1>11 DEF Tab!QuickCompletes, Tab!Released
  <2>2. /\ SessionKept' /\ Running(q) /\ ~Running(q)'
        /\ \A g \in Tab!Flows : Running(g)' => Running(g) /\ flow'[g].kind = flow[g].kind
    BY <1>s, <1>t, <2>1
  <2>3. LoopLatched'
    BY <1>f, <1>t, <2>1, <2>2, LoopReleased
  <2> QED BY <1>q, <2>2, <2>3
<1>o. ASSUME NEW fl \in [Tab!Flows -> Flow], \A f \in Tab!Flows : fl[f] = flow[f] \/ fl[f].phase = "idle",
             flow' = Tab!Overtaken(fl), renewal' = Tab!OvertakenRenewal,
             token' = None, user' \in {None, user}, user' = None \/ why' # {},
             cookie' = cookie, fromOther' = fromOther, leaving' \in Holder,
             stored' \subseteq stored, loading' \in BOOLEAN, out' \in BOOLEAN,
             out' /\ "late" \notin why' => user' = None,
             UNCHANGED <<visiting, latch>>
      PROVE  SignInIInv'
  <2>1. None \in Holder /\ CookieIsOurs' /\ (SameOrigin \/ cookie' = None)
    BY <1>o DEF Holder, CookieIsOurs, SignInIInv, CookieKept
  <2>2. /\ SessionKept'
        /\ \A g \in Tab!Flows : Running(g)' => Running(g) /\ fl[g] = flow[g] /\ flow'[g].kind = flow[g].kind
    BY <1>o, <1>t, <2>1, SessionChanged
  <2>3. LoopLatched'
    BY <1>o, <1>f, <1>t, <2>2, LoopsKept
  <2> QED BY <1>q, <2>2, <2>3
<1>12. CASE Tab!Logout
  BY <1>12, <1>o, <1>t DEF Tab!Logout, Tab!LogsOut, Tab!Cleared, Holder
<1>i. ASSUME NEW f \in Tab!Flows
      PROVE  LET fl == [flow EXCEPT ![f] = Tab!Idle] IN
             /\ fl \in [Tab!Flows -> Flow]
             /\ \A g \in Tab!Flows : fl[g] = flow[g] \/ fl[g].phase = "idle"
             /\ fl[f].phase = "idle" /\ \A g \in Tab!Flows : g # f => fl[g] = flow[g]
  BY <1>t, IdleIsFlow, OneFlow
<1>13. CASE Tab!Deleted
  <2> DEFINE fl == [flow EXCEPT !["act"] = Tab!Idle]
  <2>1. fl \in [Tab!Flows -> Flow] /\ \A g \in Tab!Flows : fl[g] = flow[g] \/ fl[g].phase = "idle"
    BY <1>i, <1>f
  <2>2. Tab!LogsOut(fl) /\ stored' \subseteq stored /\ UNCHANGED <<cookie, fromOther, visiting, latch>>
    BY <1>13 DEF Tab!Deleted
  <2> HIDE DEF fl
  <2> QED BY <1>o, <1>t, <2>1, <2>2 DEF Tab!LogsOut, Tab!Cleared, Holder
<1>14. CASE Tab!BootFails
  <2> DEFINE fl == [flow EXCEPT !["boot"] = Tab!Idle]
  <2>1. fl \in [Tab!Flows -> Flow] /\ \A g \in Tab!Flows : fl[g] = flow[g] \/ fl[g].phase = "idle"
    BY <1>i, <1>f
  <2>2. /\ token' = None /\ loading' = FALSE /\ user' = user /\ flow' = Tab!Overtaken(fl)
        /\ renewal' = Tab!OvertakenRenewal /\ UNCHANGED <<cookie, fromOther, leaving, stored, visiting, latch, out>>
        /\ why \subseteq why' /\ (user # None => "bootstrap" \in why')
    BY <1>14 DEF Tab!BootFails
  <2> HIDE DEF fl
  <2>3. out' /\ "late" \notin why' => user' = None
    BY <2>2 DEF SignInIInv, OutKnown
  <2> QED BY <1>o, <1>t, <2>1, <2>2, <2>3
<1>15. ASSUME NEW f \in Tab!Flows, Tab!RefreshFails(f) PROVE SignInIInv'
  <2> DEFINE fl == [flow EXCEPT ![f] = Tab!Idle]
  <2>1. fl \in [Tab!Flows -> Flow] /\ \A g \in Tab!Flows : fl[g] = flow[g] \/ fl[g].phase = "idle"
    BY <1>i
  <2>2. /\ token' = None /\ user' = None /\ loading' = loading /\ flow' = Tab!Overtaken(fl)
        /\ renewal' = Tab!OvertakenRenewal /\ UNCHANGED <<cookie, fromOther, leaving, stored, visiting, latch, out>>
    BY <1>15 DEF Tab!RefreshFails, Tab!RefreshClears, Tab!Cleared
  <2> HIDE DEF fl
  <2> QED BY <1>o, <1>t, <2>1, <2>2

\* Steps that leave the calls alone.
<1>16. CASE Tab!RevokedCookie \/ Tab!Visit \/ Tab!Render
  <2>1. /\ UNCHANGED <<token, user, loading, flow, renewal, out, why, latch>>
        /\ visiting' \in BOOLEAN /\ stored' \subseteq stored
        /\ \/ UNCHANGED <<cookie, fromOther, leaving>>
           \/ cookie' = None /\ fromOther' = FALSE /\ leaving' = None
    BY <1>16, <1>t DEF Tab!RevokedCookie, Tab!Visit, Tab!Render, Tab!Change
  <2>2. SignInTypes'
    BY <1>t, <2>1 DEF SignInTypes, Holder
  <2>3. Joined' /\ CookieKept' /\ BootReads'
    BY <2>1 DEF SignInIInv, Joined, CallsCarryToken, CookieIsOurs, RenewalIsOurs, CookieKept, BootReads, Running
  <2>4. OutKnown' /\ Tab!SessionExplained'
    BY <2>1 DEF SignInIInv, OutKnown, Running, Tab!SessionExplained
  <2>5. LoopLatched'
    BY <1>t, <2>1 DEF LoopLatched, Here, Running
  <2> QED BY <1>q, <2>2, <2>3, <2>4, <2>5 DEF SessionKept
<1>17. ASSUME NEW a \in Account, Tab!OtherTabSignsIn(a) PROVE SignInIInv'
  <2>1. /\ UNCHANGED <<token, user, loading, flow, renewal, out, why, latch, visiting, leaving>>
        /\ SameOrigin /\ cookie' = a /\ fromOther' = TRUE /\ stored' = stored \cup {a}
    BY <1>17 DEF Tab!OtherTabSignsIn
  <2>2. SignInTypes'
    BY <1>t, <2>1 DEF SignInTypes, Holder
  <2>3. Joined' /\ CookieKept' /\ BootReads'
    BY <2>1 DEF SignInIInv, Joined, CallsCarryToken, CookieIsOurs, RenewalIsOurs, CookieKept, BootReads, Running
  <2>4. OutKnown' /\ Tab!SessionExplained'
    BY <2>1 DEF SignInIInv, OutKnown, Running, Tab!SessionExplained
  <2>5. LoopLatched'
    BY <1>t, <2>1 DEF LoopLatched, Here, Running
  <2> QED BY <1>q, <2>2, <2>3, <2>4, <2>5 DEF SessionKept
<1>18. CASE Tab!Leave
  <2> DEFINE left(f) == IF f \in Tab!Quick /\ flow[f].phase # "idle"
                        THEN [flow[f] EXCEPT !.kind = "left"] ELSE flow[f]
  <2>1. ASSUME NEW f \in Tab!Flows
        PROVE  /\ left(f) \in Flow /\ left(f).phase = flow[f].phase /\ left(f).sent = flow[f].sent
               /\ left(f).late = flow[f].late /\ left(f).kind \in {flow[f].kind, "left"}
               /\ f \notin Tab!Quick => left(f) = flow[f]
               /\ f \in Tab!Quick /\ Running(f) => left(f).kind = "left"
    <3>1. flow[f] \in Flow
      BY <1>t
    <3> QED BY <3>1 DEF Flow, Kind, Running
  <2>2. /\ UNCHANGED <<token, user, loading, renewal, out, why, cookie, fromOther, leaving, stored>>
        /\ visiting' = FALSE /\ latch' = FALSE /\ flow' = [f \in Tab!Flows |-> left(f)]
    BY <1>18, Zenon DEF Tab!Leave
  <2> HIDE DEF left
  <2>3. /\ flow' \in [Tab!Flows -> Flow]
        /\ \A f \in Tab!Flows : /\ flow'[f].phase = flow[f].phase /\ flow'[f].sent = flow[f].sent
                                /\ flow'[f].late = flow[f].late /\ flow'[f].kind \in {flow[f].kind, "left"}
                                /\ f \notin Tab!Quick => flow'[f] = flow[f]
                                /\ f \in Tab!Quick /\ Running(f) => flow'[f].kind = "left"
    BY <2>1, <2>2
  <2>4. SignInTypes'
    BY <1>t, <2>2, <2>3 DEF SignInTypes
  <2>5. CookieKept' /\ BootReads' /\ Tab!SessionExplained'
    BY <1>f, <2>2, <2>3 DEF SignInIInv, CookieKept, BootReads, Running, Tab!SessionExplained
  <2>6. Joined'
    BY <2>2, <2>3 DEF SignInIInv, Joined, CallsCarryToken, CookieIsOurs, RenewalIsOurs, Running
  <2>7. OutKnown'
    BY <2>2, <2>3 DEF SignInIInv, OutKnown, Running
  <2>8. LoopLatched'
    BY <1>f, <1>t, <2>3, LoopsKept DEF Here, Running
  <2> QED BY <1>q, <2>4, <2>5, <2>6, <2>7, <2>8 DEF SessionKept
<1>19. CASE Tab!Reload
  <2> DEFINE boots(f) == IF f = "boot" /\ token # None THEN Tab!Sent("read", token) ELSE Tab!Idle
  <2>1. ASSUME NEW f \in Tab!Flows
        PROVE  /\ boots(f) \in Flow /\ boots(f).phase # "renewing"
               /\ boots(f).phase # "idle" => boots(f).sent = token /\ boots(f).kind = "read" /\ f = "boot"
               /\ f = "boot" /\ token # None => boots(f).phase # "idle"
    BY <1>t, SentIsFlow, IdleIsFlow DEF Kind
  <2>2. /\ UNCHANGED <<token, out, cookie, fromOther, leaving, stored>>
        /\ user' = None /\ renewal' = None /\ loading' = (token # None)
        /\ visiting' = FALSE /\ latch' = FALSE /\ flow' = [f \in Tab!Flows |-> boots(f)]
        /\ why' = (IF out \/ cookie \notin {None, token} THEN why ELSE {})
    BY <1>19, Zenon DEF Tab!Reload
  <2> HIDE DEF boots
  <2>3. /\ flow' \in [Tab!Flows -> Flow]
        /\ \A f \in Tab!Flows :
             /\ flow'[f].phase # "renewing"
             /\ flow'[f].phase # "idle" => flow'[f].sent = token /\ flow'[f].kind = "read" /\ f = "boot"
             /\ f = "boot" /\ token # None => flow'[f].phase # "idle"
    BY <2>1, <2>2
  <2>4. SignInTypes'
    <3>1. loading' \in BOOLEAN /\ user' \in Holder
      BY <2>2 DEF Holder
    <3> QED BY <1>t, <2>2, <2>3, <3>1 DEF SignInTypes
  <2>5. CookieKept' /\ BootReads' /\ Tab!SessionExplained'
    BY <1>f, <2>2, <2>3 DEF SignInIInv, CookieKept, BootReads, Running, Tab!SessionExplained
  <2>6. Joined'
    <3>1. CallsCarryToken' /\ RenewalIsOurs'
      BY <2>2, <2>3 DEF CallsCarryToken, RenewalIsOurs, Running
    <3>2. why' = {} => CookieIsOurs'
      BY <2>2 DEF SignInIInv, Joined, CookieIsOurs
    <3> QED BY <3>1, <3>2 DEF Joined
  <2>7. OutKnown'
    BY <2>2, <2>3 DEF SignInIInv, OutKnown, Running
  <2>8. LoopLatched'
    BY <1>f, <2>3 DEF LoopLatched, Here, Running
  <2> QED BY <1>q, <2>4, <2>5, <2>6, <2>7, <2>8 DEF SessionKept

\* The renewal is answered, or an account is read.
<1>20. CASE Tab!NotRenewed
  <2> DEFINE fails(f) == IF f \in Tab!Waiting THEN [flow[f] EXCEPT !.phase = "failed"] ELSE flow[f]
  <2>1. ASSUME NEW f \in Tab!Flows
        PROVE  /\ fails(f) \in Flow /\ fails(f).phase # "renewing"
               /\ fails(f).phase = "idle" <=> flow[f].phase = "idle"
               /\ fails(f).sent = flow[f].sent /\ fails(f).late = flow[f].late /\ fails(f).kind = flow[f].kind
    <3>1. flow[f] \in Flow
      BY <1>t
    <3> QED BY <3>1 DEF Flow, Tab!Waiting
  <2>2. /\ UNCHANGED <<token, user, loading, out, why, cookie, fromOther, leaving, stored, visiting, latch>>
        /\ renewal' = None /\ flow' = [f \in Tab!Flows |-> fails(f)]
    BY <1>20, Zenon DEF Tab!NotRenewed
  <2> HIDE DEF fails
  <2>3. /\ flow' \in [Tab!Flows -> Flow]
        /\ \A f \in Tab!Flows :
             /\ flow'[f].phase # "renewing" /\ (flow'[f].phase = "idle" <=> flow[f].phase = "idle")
             /\ flow'[f].sent = flow[f].sent /\ flow'[f].late = flow[f].late /\ flow'[f].kind = flow[f].kind
    BY <2>1, <2>2
  <2>4. SignInTypes'
    BY <1>t, <2>2, <2>3 DEF SignInTypes
  <2>5. CookieKept' /\ BootReads' /\ Tab!SessionExplained'
    BY <1>f, <2>2, <2>3 DEF SignInIInv, CookieKept, BootReads, Running, Tab!SessionExplained
  <2>6. Joined'
    BY <2>2, <2>3 DEF SignInIInv, Joined, CallsCarryToken, CookieIsOurs, RenewalIsOurs, Running
  <2>7. OutKnown'
    BY <2>2, <2>3 DEF SignInIInv, OutKnown, Running
  <2>8. LoopLatched'
    BY <1>f, <1>t, <2>2, <2>3, LoopsKept DEF Running
  <2> QED BY <1>q, <2>4, <2>5, <2>6, <2>7, <2>8 DEF SessionKept
<1>21. CASE Tab!Renewed
  <2> DEFINE again(f) == IF f \in Tab!Waiting
                         THEN [flow[f] EXCEPT !.phase = "sent", !.sent = renewal.account] ELSE flow[f]
  <2>0. /\ renewal # None /\ renewal \in Tab!Renewal /\ renewal.account \in Account
        /\ renewal.account \in Holder /\ renewal.account # None
    BY <1>21, <1>t, NullsAssumption DEF Tab!Renewed, SignInTypes, Holder
  <2>1. ASSUME NEW f \in Tab!Flows
        PROVE  /\ again(f) \in Flow /\ again(f).phase # "renewing"
               /\ again(f).phase = "idle" <=> flow[f].phase = "idle"
               /\ again(f).sent \in {flow[f].sent, renewal.account}
               /\ again(f).late = flow[f].late /\ again(f).kind = flow[f].kind
    <3>1. flow[f] \in Flow
      BY <1>t
    <3> QED BY <2>0, <3>1 DEF Flow, Tab!Waiting
  <2>2. /\ UNCHANGED <<user, loading, out, cookie, fromOther, leaving, stored, visiting, latch>>
        /\ token' = renewal.account
        /\ renewal' = None /\ flow' = [f \in Tab!Flows |-> again(f)]
        /\ why' = why \cup (IF renewal.late THEN {"late"} ELSE {})
                      \cup (IF renewal.foreign THEN {"foreign"} ELSE {})
    BY <1>21, Zenon DEF Tab!Renewed
  <2> HIDE DEF again
  <2>3. /\ flow' \in [Tab!Flows -> Flow]
        /\ \A f \in Tab!Flows :
             /\ flow'[f].phase # "renewing" /\ (flow'[f].phase = "idle" <=> flow[f].phase = "idle")
             /\ flow'[f].sent \in {flow[f].sent, token'}
             /\ flow'[f].late = flow[f].late /\ flow'[f].kind = flow[f].kind
    BY <2>1, <2>2
  <2>4. SignInTypes'
    BY <1>t, <2>0, <2>2, <2>3 DEF SignInTypes
  <2>5. /\ why' = {} => why = {} /\ ~renewal.late /\ ~renewal.foreign
        /\ "late" \notin why' => "late" \notin why /\ ~renewal.late
    BY <2>2
  <2>6. why' = {} => token' = token /\ Joined
    BY <2>0, <2>2, <2>5 DEF SignInIInv, Joined, RenewalIsOurs
  <2>7. CookieKept' /\ BootReads'
    BY <1>f, <2>2, <2>3 DEF SignInIInv, CookieKept, BootReads, Running
  <2>8. Tab!SessionExplained'
    BY <1>f, <2>2, <2>3, <2>5, <2>6 DEF SignInIInv, Tab!SessionExplained
  <2>9. Joined'
    BY <2>2, <2>3, <2>5, <2>6 DEF Joined, CallsCarryToken, CookieIsOurs, RenewalIsOurs, Running
  <2>10. OutKnown'
    BY <2>0, <2>2, <2>5 DEF SignInIInv, OutKnown
  <2>11. LoopLatched'
    BY <1>f, <1>t, <2>2, <2>3, LoopsKept DEF Running
  <2> QED BY <1>q, <2>4, <2>7, <2>8, <2>9, <2>10, <2>11 DEF SessionKept
<1>22. ASSUME NEW f \in Tab!Flows, Tab!Read(f) PROVE SignInIInv'
  <2>1. /\ UNCHANGED <<token, renewal, out, cookie, fromOther, leaving, stored, visiting, latch>>
        /\ user' = flow[f].sent /\ loading' \in BOOLEAN /\ flow' = [flow EXCEPT ![f] = Tab!Idle]
        /\ Running(f) /\ flow[f].sent # None
        /\ why' = why \cup (IF flow[f].late THEN {"late"} ELSE {})
    BY <1>22 DEF Tab!Read, Tab!Lateness, Running
  <2>2. /\ flow' \in [Tab!Flows -> Flow] /\ ~Running(f)'
        /\ \A g \in Tab!Flows : g # f => flow'[g] = flow[g]
    BY <1>t, <2>1, IdleIsFlow, OneFlow DEF Running
  <2>3. \A g \in Tab!Flows : Running(g)' => Running(g) /\ flow'[g] = flow[g]
    BY <2>2 DEF Running
  <2>4. SignInTypes'
    <3>1. user' \in Holder
      BY <1>t, <2>1 DEF Flow
    <3>2. \A g \in Tab!Flows : flow'[g].phase = "renewing" => renewal' # None
      BY <1>t, <2>1, <2>3 DEF SignInTypes, Running
    <3> QED BY <1>t, <2>1, <2>2, <3>1, <3>2 DEF SignInTypes
  <2>5. CookieKept' /\ BootReads'
    BY <1>f, <2>1, <2>3 DEF SignInIInv, CookieKept, BootReads
  <2>6. Joined'
    BY <2>1, <2>3 DEF SignInIInv, Joined, CallsCarryToken, CookieIsOurs, RenewalIsOurs
  <2>7. Tab!SessionExplained'
    BY <2>1 DEF SignInIInv, Joined, CallsCarryToken, Tab!SessionExplained
  <2>8. OutKnown'
    BY <2>1 DEF SignInIInv, OutKnown
  <2>9. LoopLatched'
    BY <1>f, <1>t, <2>1, <2>3, LoopsKept
  <2> QED BY <1>q, <2>4, <2>5, <2>6, <2>7, <2>8, <2>9 DEF SessionKept
<1> QED BY <1>0, <1>1, <1>2, <1>3, <1>4, <1>5, <1>6, <1>7, <1>8, <1>9, <1>10, <1>11, <1>12, <1>13,
           <1>14, <1>15, <1>16, <1>17, <1>18, <1>19, <1>20, <1>21, <1>22 DEF Tab!Next

LEMMA OneLoop == LoopLatched => Tab!OneLoopAVisit
<1> SUFFICES ASSUME LoopLatched PROVE Tab!OneLoopAVisit
  OBVIOUS
<1> DEFINE S == {q \in Tab!Quick : flow[q].phase # "idle" /\ flow[q].kind = "here"}
<1>1. \A q, r \in S : q = r
  BY DEF LoopLatched, Here, Running
<1>2. Tab!OneLoopAVisit <=> Cardinality(S) <= 1
  BY Zenon DEF Tab!OneLoopAVisit, Tab!Cardinality, Cardinality
<1>3. CASE S = {}
  <2>1. Cardinality(S) = 0
    BY <1>3, FS_EmptySet
  <2> HIDE DEF S
  <2> QED BY <1>2, <2>1
<1>4. ASSUME NEW q \in S PROVE Tab!OneLoopAVisit
  <2>1. S = {q}
    BY <1>1
  <2>2. Cardinality(S) = 1
    BY <2>1, FS_Singleton
  <2> HIDE DEF S
  <2> QED BY <1>2, <2>2
<1> QED BY <1>3, <1>4

LEMMA SignInGoal == SignInIInv => Tab!TypeOK /\ Tab!SessionExplained /\ Tab!LogoutHolds /\ Tab!OneLoopAVisit
<1> SUFFICES ASSUME SignInIInv PROVE Tab!TypeOK /\ Tab!LogoutHolds
  BY OneLoop DEF SignInIInv
<1>1. Tab!TypeOK
  <2>1. \A f \in Tab!Flows : flow[f].phase \in {"idle", "sent", "renewing", "failed"}
    BY DEF SignInIInv, SignInTypes, Flow
  <2> QED BY <2>1 DEF SignInIInv, SignInTypes, Tab!TypeOK, Tab!Waiting, Holder
<1>2. Tab!LogoutHolds
  BY DEF SignInIInv, OutKnown, Tab!LogoutHolds
<1> QED BY <1>1, <1>2

(* For any accounts and any interleaving of calls, a tab shows the account *)
(* its token belongs to, but while it starts and after the answers SignIn  *)
(* names; it stays signed out after signing out, unless a call begun       *)
(* before is answered late; and one visit to the sign-in page runs one     *)
(* quick login (auth.tsx, api.ts, login/page.tsx).                         *)
THEOREM SignInHolds == Spec => []SignInCorrect
<1>1. Init => SignInInductive
  BY SignInStarts, SignInInit DEF SignInInductive
<1>2. SignInInductive /\ [Next]_all => SignInInductive'
  BY SignInMoves, SignInStep DEF SignInInductive
<1>3. SignInInductive => SignInCorrect
  BY SignInGoal DEF SignInInductive, SignInCorrect
<1> QED BY <1>1, <1>2, <1>3, PTL DEF Spec

(***************************************************************************)
(* The profile (QuoteForm.tsx, profile/page.tsx).                          *)
(***************************************************************************)
Hashtag == [name : Tag, draft : Nat]
Analysis == [text : Text, touched : BOOLEAN, draft : Nat]
Privacy == {"private", "public"}
Row == Privacy \cup {None}
CollectionJob == [kind : {"load", "create", "patch", "delete"}, col : ProfileCol \cup {None}, next : Row,
             stage : {"sent", "served", "refused", "left"},
             base : [ProfileCol -> Seq(Privacy)], seen : [ProfileCol -> Row]]

FormTypes == /\ text \in Text \cup {Blank} /\ locale \in Language /\ touched \in BOOLEAN
             /\ result \in Text \cup {None} /\ drafts \in Nat
             /\ analyzing \in Analysis \cup {None}
             /\ tags \subseteq Hashtag /\ IsFiniteSet(tags) /\ Cardinality(tags) <= MaxTags
TagsOnce == \A t, u \in tags : t.name = u.name => t = u
ChosenIsTouched == chosen # None => touched

FormIInv == /\ FormTypes /\ TagsOnce /\ ChosenIsTouched
            /\ Profile!TagsOfDraft
            /\ Profile!ChosenLanguageKept

\* A request for the list, and the one a collection waits for.
Loads == {j \in jobs : j.kind = "load"}
PendingOn(c) == {j \in jobs : j.kind # "load" /\ j.col = c /\ j.stage # "left"}

JobOK(j) == /\ j \in CollectionJob
            /\ j.kind # "load" => j.col \in ProfileCol
            /\ j.kind = "load" => j.stage \in {"sent", "served"}
            /\ j.kind \in {"create", "patch"} => j.next \in Privacy
            /\ j.kind = "delete" => j.next = None

ListTypes == /\ tab \in {"quotes", "collections"}
             /\ rows \in [ProfileCol -> Row] /\ shown \in [ProfileCol -> Seq(Privacy)]
             /\ \A j \in jobs : JobOK(j)
             /\ \A j, k \in Loads : j = k
             /\ tab = "quotes" => /\ shown = Profile!NoEntries
                                  /\ \A j \in jobs : j.stage = "left"

\* What the request of a collection still has to do.
Tracks(c, j) ==
    CASE j.stage # "served" /\ j.kind # "create" -> shown[c] = Profile!Entry(rows[c])
      [] j.stage # "served" /\ j.kind = "create" -> shown[c] = <<>> /\ rows[c] = None /\ j.stage = "sent"
      [] j.stage = "served" /\ j.kind = "create" -> shown[c] = <<>> /\ rows[c] = j.next
      [] j.stage = "served" /\ j.kind = "patch" -> Len(shown[c]) = 1 /\ rows[c] = j.next
      [] j.stage = "served" /\ j.kind = "delete" -> rows[c] = None

\* What is known of a collection that nothing excuses: at most one request of the tab is about
\* it, none while the list loads, and the entry is the row once there is no request.
ListKnown(c) ==
    /\ \A j, k \in PendingOn(c) : j = k
    /\ Loads # {} => PendingOn(c) = {} /\ shown[c] = <<>>
    /\ \A j \in Loads : j.stage = "served" => j.seen[c] = rows[c]
    /\ Loads = {} /\ PendingOn(c) = {} => shown[c] = Profile!Entry(rows[c])
    /\ \A j \in PendingOn(c) : Tracks(c, j)

ListIInv == /\ ListTypes
            /\ tab = "collections" => \A c \in ProfileCol \ excused : ListKnown(c)

ProfileIInv == FormIInv /\ ListIInv
ProfileInductive == part = "profile" => ProfileIInv

LEMMA ProfileStarts == Init /\ part = "profile" => Profile!Init
  BY DEF Init

LEMMA ProfileMoves ==
  ASSUME [Next]_all, part' = "profile"
  PROVE  part = "profile" /\ [Profile!Next]_(Profile!vars)
<1>1. CASE UNCHANGED all
  BY <1>1 DEF all, Profile!vars, Profile!form, Profile!draft, Profile!collections, Profile!bounds
<1>2. CASE Next
  BY <1>2 DEF Next
<1> QED BY <1>1, <1>2

LEMMA SameCardinality ==
  ASSUME NEW S PROVE Profile!Cardinality(S) = Cardinality(S)
  BY Zenon DEF Profile!Cardinality, Cardinality

LEMMA SameFiniteness ==
  ASSUME NEW S PROVE Profile!IsFiniteSet(S) <=> IsFiniteSet(S)
  BY Zenon DEF Profile!IsFiniteSet, IsFiniteSet

LEMMA AnalysisFacts ==
  /\ Default \in Language /\ LanguageOf \in [Text -> Language]
  /\ TagsOf \in [Text -> SUBSET Tag] /\ IsFiniteSet(Tag) /\ MaxTags \in Nat
<1>1. Profile!AnalysisAssumption
  BY ProfileAssumption
<1> QED BY <1>1, SameFiniteness DEF Profile!AnalysisAssumption

\* The hashtags carry different names, so there are as many names.
LEMMA NamesCounted ==
  ASSUME FormTypes, TagsOnce
  PROVE  Cardinality(Profile!Names(tags)) = Cardinality(tags) /\ Profile!Names(tags) \subseteq Tag
<1> DEFINE f == [t \in tags |-> t.name]
<1>1. f \in Bijection(tags, Profile!Names(tags))
  <2>1. \A t, u \in tags : f[t] = f[u] => t = u
    BY DEF TagsOnce
  <2>2. \A y \in Profile!Names(tags) : \E t \in tags : f[t] = y
    BY DEF Profile!Names
  <2>3. f \in [tags -> Profile!Names(tags)]
    BY DEF Profile!Names
  <2> HIDE DEF f
  <2> QED BY <2>1, <2>2, <2>3, Fun_IsBij
<1>2. Cardinality(tags) = Cardinality(Profile!Names(tags))
  BY <1>1, FS_Bijection DEF FormTypes, ExistsBijection
<1>3. Profile!Names(tags) \subseteq Tag
  BY DEF Profile!Names, FormTypes, Hashtag
<1> QED BY <1>2, <1>3

LEMMA ProfileInit == Profile!Init => ProfileIInv
<1> SUFFICES ASSUME Profile!Init PROVE ProfileIInv
  OBVIOUS
<1>1. FormTypes
  <2>1. IsFiniteSet({}) /\ Cardinality({}) <= MaxTags
    BY AnalysisFacts, FS_EmptySet
  <2>2. tags = {} /\ touched = FALSE
    BY DEF Profile!Init
  <2>3. touched \in BOOLEAN
    BY <2>2
  <2>4. IsFiniteSet(tags) /\ Cardinality(tags) <= MaxTags /\ tags \subseteq Hashtag
    BY <2>1, <2>2
  <2> QED BY <2>3, <2>4, AnalysisFacts DEF Profile!Init, FormTypes
<1>2. TagsOnce /\ ChosenIsTouched /\ Profile!TagsOfDraft /\ Profile!ChosenLanguageKept
  BY DEF Profile!Init, TagsOnce, ChosenIsTouched, Profile!TagsOfDraft, Profile!ChosenLanguageKept
<1>3. rows \in [ProfileCol -> Row] /\ shown \in [ProfileCol -> Seq(Privacy)]
  BY DEF Profile!Init, Profile!NoRows, Profile!NoEntries, Row
<1>4. ListIInv
  BY <1>3 DEF Profile!Init, ListIInv, ListTypes, Loads
<1> QED BY <1>1, <1>2, <1>4 DEF ProfileIInv, FormIInv

-----------------------------------------------------------------------------
(* The form.                                                               *)
LEMMA FormUnchanged ==
  FormIInv /\ UNCHANGED <<text, tags, locale, touched, result, analyzing, submitting, drafts, chosen, crossed>>
    => FormIInv'
  BY DEF FormIInv, FormTypes, TagsOnce, ChosenIsTouched, Profile!TagsOfDraft, Profile!ChosenLanguageKept

\* The analysis adds hashtags, up to the limit, none of a name the form has.
LEMMA FilledTags ==
  ASSUME FormTypes, TagsOnce, NEW found \in SUBSET Tag, NEW d \in Nat, NEW ts \in Profile!Filled(tags, found, d)
  PROVE  /\ ts \subseteq Hashtag /\ IsFiniteSet(ts) /\ Cardinality(ts) <= MaxTags
         /\ \A t, u \in ts : t.name = u.name => t = u
         /\ \A t \in ts : t \in tags \/ t.draft = d
<1>1. PICK new \in SUBSET (found \ Profile!Names(tags)) :
        /\ Cardinality(new) <= MaxTags - Cardinality(tags)
        /\ ts = tags \cup {Profile!Meant(t, d) : t \in new}
  BY SameCardinality DEF Profile!Filled
<1> DEFINE added == {Profile!Meant(t, d) : t \in new}
           f == [t \in new |-> Profile!Meant(t, d)]
<1>2. IsFiniteSet(new) /\ new \subseteq Tag /\ Cardinality(new) \in Nat
  BY AnalysisFacts, FS_Subset, FS_CardinalityType
<1>3. f \in Surjection(new, added)
  <2>1. f \in [new -> added] /\ \A y \in added : \E t \in new : f[t] = y
    OBVIOUS
  <2> HIDE DEF f, added
  <2> QED BY <2>1, Fun_IsSurj
<1>4. IsFiniteSet(added) /\ Cardinality(added) <= Cardinality(new)
  BY <1>2, <1>3, FS_Surjection DEF ExistsSurjection
<1>5. added \subseteq Hashtag /\ (\A t \in added : t.draft = d /\ t.name \in new)
  BY <1>2 DEF Profile!Meant, Hashtag
<1>6. \A t, u \in added : t.name = u.name => t = u
  BY DEF Profile!Meant
<1>7. \A t \in tags : t.name \in Profile!Names(tags)
  BY DEF Profile!Names
<1> HIDE DEF f, added
<1>8. ts = tags \cup added
  BY <1>1 DEF added
<1>9. IsFiniteSet(ts) /\ Cardinality(ts) <= Cardinality(tags) + Cardinality(added)
  <2>1. IsFiniteSet(tags) /\ Cardinality(tags) \in Nat /\ Cardinality(added) \in Nat
    BY <1>4, FS_CardinalityType DEF FormTypes
  <2>2. IsFiniteSet(tags \cap added) /\ Cardinality(tags \cap added) \in Nat
    BY <2>1, FS_Intersection, FS_CardinalityType
  <2>3. /\ IsFiniteSet(ts)
        /\ Cardinality(ts) = Cardinality(tags) + Cardinality(added) - Cardinality(tags \cap added)
    BY <1>4, <1>8, <2>1, FS_Union
  <2> QED BY <2>1, <2>2, <2>3
<1>10. Cardinality(ts) <= MaxTags
  <2>1. Cardinality(tags) \in Nat /\ Cardinality(added) \in Nat /\ Cardinality(ts) \in Nat
    BY <1>4, <1>9, FS_CardinalityType DEF FormTypes
  <2> QED BY <1>1, <1>2, <1>4, <1>9, <2>1, AnalysisFacts
<1>11. \A t, u \in ts : t.name = u.name => t = u
  BY <1>1, <1>5, <1>6, <1>7, <1>8 DEF TagsOnce
<1> QED BY <1>5, <1>8, <1>9, <1>10, <1>11 DEF FormTypes

LEMMA FormStep ==
  ASSUME FormIInv, Profile!OnForm
  PROVE  FormIInv' /\ UNCHANGED tab
<1> USE DEF FormIInv, Profile!Click, Profile!Answer, Profile!Fault
<1> DEFINE DraftKept == UNCHANGED <<text, tags, locale, touched>>
<1>1. ASSUME NEW x \in Text, Profile!Type(x) PROVE FormIInv' /\ UNCHANGED tab
  BY <1>1 DEF Profile!Type, FormTypes, TagsOnce, ChosenIsTouched, Profile!TagsOfDraft, Profile!ChosenLanguageKept
<1>2. ASSUME NEW t \in Tag, Profile!AddTag(t) PROVE FormIInv' /\ UNCHANGED tab
  <2> DEFINE new == Profile!Meant(t, drafts)
  <2>1. /\ tags' = tags \cup {new} /\ t \notin Profile!Names(tags) /\ Cardinality(tags) < MaxTags
        /\ UNCHANGED <<tab, text, locale, touched, result, analyzing, submitting, drafts, chosen, crossed>>
    BY <1>2, SameCardinality DEF Profile!AddTag
  <2>2. new \in Hashtag /\ new.name = t /\ new.draft = drafts
    BY DEF Profile!Meant, Hashtag, FormTypes
  <2>3. \A u \in tags : u.name # t
    BY <2>1 DEF Profile!Names
  <2> HIDE DEF new
  <2>4. new \notin tags
    BY <2>2, <2>3
  <2>5. IsFiniteSet(tags') /\ Cardinality(tags') = Cardinality(tags) + 1
    BY <2>1, <2>4, FS_AddElement DEF FormTypes
  <2>6. Cardinality(tags') <= MaxTags
    <3>1. Cardinality(tags) \in Nat
      BY FS_CardinalityType DEF FormTypes
    <3> QED BY <2>1, <2>5, <3>1, AnalysisFacts
  <2>7. FormTypes'
    BY <2>1, <2>2, <2>5, <2>6 DEF FormTypes
  <2>8. TagsOnce' /\ Profile!TagsOfDraft'
    BY <2>1, <2>2, <2>3 DEF TagsOnce, Profile!TagsOfDraft
  <2>9. ChosenIsTouched' /\ Profile!ChosenLanguageKept'
    BY <2>1 DEF ChosenIsTouched, Profile!ChosenLanguageKept
  <2> QED BY <2>1, <2>7, <2>8, <2>9
<1>3. ASSUME NEW t \in Tag, Profile!RemoveTag(t) PROVE FormIInv' /\ UNCHANGED tab
  <2>1. /\ tags' \subseteq tags
        /\ UNCHANGED <<tab, text, locale, touched, result, analyzing, submitting, drafts, chosen, crossed>>
    BY <1>3 DEF Profile!RemoveTag
  <2>2. IsFiniteSet(tags') /\ Cardinality(tags') <= MaxTags
    <3>1. IsFiniteSet(tags') /\ Cardinality(tags') <= Cardinality(tags)
      BY <2>1, FS_Subset DEF FormTypes
    <3>2. Cardinality(tags) \in Nat /\ Cardinality(tags') \in Nat
      BY <3>1, FS_CardinalityType DEF FormTypes
    <3> QED BY <3>1, <3>2, AnalysisFacts DEF FormTypes
  <2> QED BY <2>1, <2>2 DEF FormTypes, TagsOnce, ChosenIsTouched, Profile!TagsOfDraft, Profile!ChosenLanguageKept
<1>4. ASSUME NEW l \in Language, Profile!ChooseLanguage(l) PROVE FormIInv' /\ UNCHANGED tab
  BY <1>4 DEF Profile!ChooseLanguage, FormTypes, TagsOnce, ChosenIsTouched, Profile!TagsOfDraft,
     Profile!ChosenLanguageKept
<1>5. CASE Profile!Analyze
  <2>1. analyzing' = [text |-> text, touched |-> touched, draft |-> drafts] /\ text \in Text
    BY <1>5 DEF Profile!Analyze, FormTypes
  <2>2. analyzing' \in Analysis
    BY <2>1 DEF FormTypes, Analysis
  <2> QED BY <1>5, <2>2 DEF Profile!Analyze, Profile!draft, FormTypes, TagsOnce, ChosenIsTouched,
          Profile!TagsOfDraft, Profile!ChosenLanguageKept
<1>6. CASE Profile!Analyzed
  <2>1. /\ analyzing \in Analysis /\ analyzing.text \in Text /\ analyzing.draft \in Nat
        /\ analyzing.touched \in BOOLEAN
    BY <1>6 DEF Profile!Analyzed, FormTypes, Analysis
  <2>2. /\ result' = analyzing.text /\ locale' = Profile!Detected(analyzing) /\ analyzing' = None
        /\ tags' \in Profile!Filled(tags, TagsOf[analyzing.text], analyzing.draft)
        /\ crossed' = crossed \cup (IF analyzing.draft # drafts THEN {"draft"} ELSE {})
                          \cup (IF touched /\ ~analyzing.touched THEN {"language"} ELSE {})
        /\ UNCHANGED <<tab, text, touched, submitting, drafts, chosen>>
    BY <1>6 DEF Profile!Analyzed
  <2>3. /\ tags' \subseteq Hashtag /\ IsFiniteSet(tags') /\ Cardinality(tags') <= MaxTags
        /\ \A t, u \in tags' : t.name = u.name => t = u
        /\ \A t \in tags' : t \in tags \/ t.draft = analyzing.draft
    <3>1. TagsOf[analyzing.text] \in SUBSET Tag
      BY <2>1, AnalysisFacts
    <3> QED BY <2>1, <2>2, <3>1, FilledTags
  <2>4. locale' \in Language
    BY <2>1, <2>2, AnalysisFacts DEF Profile!Detected, FormTypes
  <2>5. FormTypes'
    BY <2>1, <2>2, <2>3, <2>4 DEF FormTypes
  <2>6. TagsOnce' /\ Profile!TagsOfDraft'
    BY <2>2, <2>3 DEF TagsOnce, Profile!TagsOfDraft
  <2>7. ChosenIsTouched' /\ Profile!ChosenLanguageKept'
    BY <2>1, <2>2 DEF ChosenIsTouched, Profile!ChosenLanguageKept, Profile!Detected, FormTypes
  <2> QED BY <2>2, <2>5, <2>6, <2>7
<1>7. CASE Profile!AnalysisFails \/ Profile!Submit \/ Profile!SubmissionFails
  BY <1>7 DEF Profile!AnalysisFails, Profile!Submit, Profile!SubmissionFails, Profile!draft, FormTypes,
     TagsOnce, ChosenIsTouched, Profile!TagsOfDraft, Profile!ChosenLanguageKept
<1>8. CASE Profile!Submitted
  <2>1. IsFiniteSet({}) /\ Cardinality({}) <= MaxTags
    BY FS_EmptySet, AnalysisFacts
  <2> QED BY <1>8, <2>1 DEF Profile!Submitted, Profile!Emptied, FormTypes, TagsOnce, ChosenIsTouched,
          Profile!TagsOfDraft, Profile!ChosenLanguageKept
<1> QED BY <1>1, <1>2, <1>3, <1>4, <1>5, <1>6, <1>7, <1>8 DEF Profile!OnForm

-----------------------------------------------------------------------------
(* The collections.                                                        *)
\* What happens to other collections does not concern this one.
LEMMA NotConcerned ==
  ASSUME NEW c \in ProfileCol, ListKnown(c), shown'[c] = shown[c], rows'[c] = rows[c],
         PendingOn(c)' = PendingOn(c), Loads' = Loads
  PROVE  ListKnown(c)'
  BY DEF ListKnown, Tracks, Profile!Entry

LEMMA ListUnchanged ==
  ListIInv /\ UNCHANGED <<tab, rows, shown, jobs, excused>> => ListIInv'
<1> SUFFICES ASSUME ListIInv, UNCHANGED <<tab, rows, shown, jobs, excused>> PROVE ListIInv'
  OBVIOUS
<1>1. Loads' = Loads
  BY DEF Loads
<1>2. ListTypes'
  BY <1>1 DEF ListIInv, ListTypes
<1>3. ASSUME NEW c \in ProfileCol \ excused', tab = "collections" PROVE ListKnown(c)'
  <2>1. PendingOn(c)' = PendingOn(c)
    BY DEF PendingOn
  <2> QED BY <1>1, <1>3, <2>1, NotConcerned DEF ListIInv
<1> QED BY <1>2, <1>3 DEF ListIInv

LEMMA EntryFacts ==
  /\ Profile!Entry(None) = <<>>
  /\ \A p \in Privacy : Profile!Entry(p) = <<p>> /\ p # None /\ Profile!Other(p) \in Privacy
  /\ \A r \in Row : Profile!Entry(r) \in Seq(Privacy)
<1>1. None \notin Privacy
  BY NullsAssumption DEF Privacy
<1>2. Profile!Entry(None) = <<>>
  BY DEF Profile!Entry
<1>3. ASSUME NEW p \in Privacy
      PROVE  Profile!Entry(p) = <<p>> /\ p # None /\ Profile!Other(p) \in Privacy
  <2>1. Profile!Other(p) \in {"private", "public"}
    BY DEF Profile!Other
  <2> QED BY <1>1, <2>1 DEF Profile!Entry, Privacy
<1>4. ASSUME NEW r \in Row PROVE Profile!Entry(r) \in Seq(Privacy)
  <2>1. CASE r = None
    BY <1>2, <2>1
  <2>2. CASE r \in Privacy
    BY <1>3, <2>2
  <2> QED BY <2>1, <2>2 DEF Row
<1> QED BY <1>2, <1>3, <1>4

LEMMA JobFacts ==
  ASSUME NEW j, JobOK(j)
  PROVE  /\ j.kind \in {"load", "create", "patch", "delete"}
         /\ j.stage \in {"sent", "served", "refused", "left"}
         /\ j.next \in Row /\ j.seen \in [ProfileCol -> Row]
  BY DEF JobOK, CollectionJob

LEMMA NewJob ==
  ASSUME ListTypes, NEW kind \in {"load", "create", "patch", "delete"},
         NEW c \in ProfileCol \cup {None}, NEW next \in Row,
         kind # "load" => c \in ProfileCol,
         kind \in {"create", "patch"} => next \in Privacy,
         kind = "delete" => next = None
  PROVE  LET j == Profile!Job(kind, c, next) IN
         JobOK(j) /\ j.kind = kind /\ j.col = c /\ j.next = next /\ j.stage = "sent"
<1>1. Profile!NoRows \in [ProfileCol -> Row] /\ shown \in [ProfileCol -> Seq(Privacy)]
  BY DEF Profile!NoRows, Row, ListTypes
<1> QED BY <1>1 DEF Profile!Job, JobOK, CollectionJob

\* A request that begins, for a collection nobody waits for.
LEMMA JobBegins ==
  ASSUME ListIInv, tab = "collections", NEW new, JobOK(new), new.kind # "load", new.stage = "sent",
         jobs' = jobs \cup {new}, UNCHANGED <<tab, rows, shown>>, excused \subseteq excused',
         new.col \notin excused' => Loads = {} /\ PendingOn(new.col) = {} /\ Tracks(new.col, new)
  PROVE  ListIInv'
<1>1. Loads' = Loads
  BY DEF Loads
<1>2. ListTypes'
  BY <1>1 DEF ListIInv, ListTypes
<1>3. ASSUME NEW c \in ProfileCol \ excused' PROVE ListKnown(c)'
  <2>1. ListKnown(c) /\ shown'[c] = shown[c] /\ rows'[c] = rows[c]
    BY <1>3 DEF ListIInv
  <2>2. CASE c # new.col
    <3>1. PendingOn(c)' = PendingOn(c)
      BY <2>2 DEF PendingOn
    <3> QED BY <1>1, <2>1, <3>1, NotConcerned
  <2>3. CASE c = new.col
    <3>1. PendingOn(c)' = {new} /\ Loads' = {}
      BY <1>1, <1>3, <2>3 DEF PendingOn
    <3>2. Tracks(c, new)'
      BY <1>3, <2>1, <2>3 DEF Tracks, Profile!Entry
    <3> QED BY <3>1, <3>2 DEF ListKnown
  <2> QED BY <2>2, <2>3
<1> QED BY <1>2, <1>3 DEF ListIInv

\* A request of a collection that ends, or is given up.
LEMMA JobEnds ==
  ASSUME ListIInv, NEW j \in jobs, j.kind # "load", jobs' = jobs \ {j}, UNCHANGED tab,
         excused \subseteq excused',
         rows' \in [ProfileCol -> Row], shown' \in [ProfileCol -> Seq(Privacy)],
         tab = "quotes" => UNCHANGED shown,
         \A c \in ProfileCol : c # j.col => shown'[c] = shown[c] /\ rows'[c] = rows[c],
         tab = "collections" /\ j.col \notin excused' =>
           j.stage # "left" /\ shown'[j.col] = Profile!Entry(rows'[j.col])
  PROVE  ListIInv'
<1>1. Loads' = Loads
  BY DEF Loads
<1>2. ListTypes'
  BY <1>1 DEF ListIInv, ListTypes
<1>3. ASSUME tab = "collections", NEW c \in ProfileCol \ excused' PROVE ListKnown(c)'
  <2>1. ListKnown(c)
    BY <1>3 DEF ListIInv
  <2>2. CASE c # j.col
    <3>1. PendingOn(c)' = PendingOn(c)
      BY <2>2 DEF PendingOn
    <3> QED BY <1>1, <2>1, <2>2, <3>1, NotConcerned
  <2>3. CASE c = j.col
    <3>1. j \in PendingOn(c)
      BY <1>3, <2>3 DEF PendingOn
    <3>2. PendingOn(c)' = {} /\ Loads' = {}
      BY <1>1, <2>1, <3>1 DEF ListKnown, PendingOn
    <3>3. shown'[c] = Profile!Entry(rows'[c])
      BY <1>3, <2>3
    <3> QED BY <3>2, <3>3 DEF ListKnown, Profile!Entry
  <2> QED BY <2>2, <2>3
<1> QED BY <1>2, <1>3 DEF ListIInv

\* A tab whose collections nobody looks at has no request left to apply.
LEMMA StillOpen ==
  ASSUME ListIInv, NEW j \in jobs, j.stage # "left"
  PROVE  tab = "collections" /\ JobOK(j)
  BY DEF ListIInv, ListTypes

LEMMA CarriedRows ==
  ASSUME ListIInv, NEW j \in jobs
  PROVE  /\ Profile!Carried(j) \in [ProfileCol -> Row]
         /\ \A c \in ProfileCol : c # j.col => Profile!Carried(j)[c] = rows[c]
         /\ j.kind = "load" => Profile!Carried(j) = rows
         /\ j.kind # "load" => Profile!Carried(j)[j.col] = IF Profile!Gone(j) THEN rows[j.col] ELSE j.next
<1>1. JobOK(j) /\ rows \in [ProfileCol -> Row]
  BY DEF ListIInv, ListTypes
<1>2. j.next \in Row /\ (j.kind # "load" => j.col \in ProfileCol)
  BY <1>1, JobFacts DEF JobOK
<1>3. CASE j.kind = "load" \/ Profile!Gone(j)
  BY <1>1, <1>3 DEF Profile!Carried
<1>4. CASE ~(j.kind = "load" \/ Profile!Gone(j))
  <2>1. Profile!Carried(j) = [rows EXCEPT ![j.col] = j.next]
    BY <1>4 DEF Profile!Carried
  <2> QED BY <1>1, <1>2, <1>4, <2>1
<1> QED BY <1>3, <1>4

LEMMA LoadServed ==
  ASSUME ListIInv, NEW j \in jobs, Profile!Serve(j), j.kind = "load"
  PROVE  ListIInv'
<1> SUFFICES ASSUME NEW k, k = [j EXCEPT !.stage = "served", !.seen = rows] PROVE ListIInv'
  OBVIOUS
<1>1. rows \in [ProfileCol -> Row] /\ j.stage = "sent"
  BY DEF ListIInv, ListTypes, Profile!Serve
<1>2. tab = "collections" /\ JobOK(j)
  BY <1>1, StillOpen
<1>3. /\ rows' = rows /\ jobs' = (jobs \ {j}) \cup {k}
      /\ UNCHANGED <<shown, excused, tab>>
  <2>1. ~Profile!Gone(j)
    BY DEF Profile!Gone
  <2> QED BY <2>1, CarriedRows DEF Profile!Serve, Profile!Answer
<1>4. JobOK(k) /\ k.kind = "load" /\ k.stage = "served" /\ k.seen = rows
  BY <1>1, <1>2 DEF JobOK, CollectionJob
<1>5. Loads' = {k} /\ Loads # {}
  <2>1. j \in Loads /\ \A i \in Loads : i = j
    BY DEF Loads, ListIInv, ListTypes
  <2> QED BY <1>3, <1>4, <2>1 DEF Loads
<1>6. ListTypes'
  BY <1>2, <1>3, <1>4, <1>5 DEF ListIInv, ListTypes
<1>7. ASSUME NEW c \in ProfileCol \ excused PROVE ListKnown(c)'
  <2>1. ListKnown(c)
    BY <1>2, <1>7 DEF ListIInv
  <2>2. PendingOn(c)' = {} /\ shown'[c] = <<>>
    BY <1>3, <1>4, <1>5, <2>1 DEF ListKnown, PendingOn
  <2> QED BY <1>3, <1>4, <1>5, <2>2 DEF ListKnown
<1> QED BY <1>3, <1>6, <1>7 DEF ListIInv

\* The row takes what the request carries; the list waits for the answer.
LEMMA ChangeServed ==
  ASSUME ListIInv, NEW j \in jobs, Profile!Serve(j), j.kind # "load"
  PROVE  ListIInv'
<1> SUFFICES ASSUME NEW stage, stage = (IF Profile!Gone(j) THEN "refused" ELSE "served"),
                    NEW k, k = [j EXCEPT !.stage = stage, !.seen = Profile!Carried(j)]
             PROVE  ListIInv'
  OBVIOUS
<1>1. /\ rows' = Profile!Carried(j) /\ jobs' = (jobs \ {j}) \cup {k} /\ j.stage = "sent"
      /\ UNCHANGED <<shown, excused, tab>>
  BY DEF Profile!Serve, Profile!Answer
<1>2. tab = "collections" /\ JobOK(j) /\ j.col \in ProfileCol
  BY <1>1, StillOpen DEF JobOK
<1>3. stage \in {"served", "refused"}
  OBVIOUS
<1>4. stage = "served" <=> ~Profile!Gone(j)
  OBVIOUS
<1>5. JobOK(k) /\ k.kind = j.kind /\ k.col = j.col /\ k.next = j.next /\ k.stage = stage
  <2>1. Profile!Carried(j) \in [ProfileCol -> Row] /\ j.stage = "sent"
    BY <1>1, CarriedRows
  <2> QED BY <1>2, <1>3, <1>4, <2>1 DEF JobOK, CollectionJob, Profile!Gone
<1>6. Loads' = Loads
  BY <1>1, <1>5 DEF Loads
<1>7. ListTypes'
  BY <1>1, <1>2, <1>5, <1>6, CarriedRows DEF ListIInv, ListTypes
<1>8. ASSUME NEW c \in ProfileCol \ excused PROVE ListKnown(c)'
  <2>1. ListKnown(c)
    BY <1>2, <1>8 DEF ListIInv
  <2>2. CASE c # j.col
    <3>1. PendingOn(c)' = PendingOn(c)
      BY <1>1, <1>5, <2>2 DEF PendingOn
    <3>2. shown'[c] = shown[c] /\ rows'[c] = rows[c]
      BY <1>1, <2>2, CarriedRows
    <3> QED BY <1>6, <2>1, <3>1, <3>2, NotConcerned
  <2>3. CASE c = j.col
    <3>1. j \in PendingOn(c)
      BY <1>1, <2>3 DEF PendingOn
    <3>2. Tracks(c, j) /\ Loads' = {}
      BY <1>6, <2>1, <3>1 DEF ListKnown
    <3>3. PendingOn(c)' = {k}
      <4>1. PendingOn(c) = {j}
        BY <2>1, <3>1 DEF ListKnown
      <4>2. k.stage # "left" /\ k.col = c /\ k.kind # "load"
        BY <1>3, <1>5, <2>3
      <4> QED BY <1>1, <4>1, <4>2 DEF PendingOn
    <3>4. /\ shown'[c] = shown[c]
          /\ rows'[c] = IF Profile!Gone(j) THEN rows[c] ELSE j.next
      BY <1>1, <2>3, CarriedRows
    <3>5. j.kind \in {"create", "patch", "delete"} /\ rows[c] \in Row
      BY <1>2, JobFacts DEF ListIInv, ListTypes
    <3>6. CASE Profile!Gone(j)
      <4>1. stage = "refused" /\ j.kind # "create"
        BY <1>3, <1>4, <3>6 DEF Profile!Gone
      <4>2. shown'[c] = Profile!Entry(rows'[c])
        BY <1>1, <3>2, <3>4, <3>6, <4>1 DEF Tracks
      <4>3. Tracks(c, k)'
        BY <1>5, <4>1, <4>2 DEF Tracks, Profile!Entry
      <4> QED BY <3>2, <3>3, <4>3 DEF ListKnown
    <3>7. CASE ~Profile!Gone(j)
      <4>1. stage = "served" /\ rows'[c] = j.next
        BY <1>4, <3>4, <3>7
      <4>2. CASE j.kind = "create"
        <5>1. shown'[c] = <<>>
          BY <1>1, <3>2, <3>4, <4>2 DEF Tracks
        <5>2. Tracks(c, k)'
          BY <1>5, <4>1, <4>2, <5>1 DEF Tracks
        <5> QED BY <3>2, <3>3, <5>2 DEF ListKnown
      <4>3. CASE j.kind = "patch"
        <5>1. rows[c] \in Privacy
          BY <2>3, <3>5, <3>7, <4>3 DEF Profile!Gone, Row
        <5>2. shown[c] = <<rows[c]>>
          BY <1>1, <3>2, <4>3, <5>1, EntryFacts DEF Tracks
        <5>3. Len(shown'[c]) = 1
          BY <3>4, <5>2
        <5>4. Tracks(c, k)'
          BY <1>5, <4>1, <4>3, <5>3 DEF Tracks
        <5> QED BY <3>2, <3>3, <5>4 DEF ListKnown
      <4>4. CASE j.kind = "delete"
        <5>1. rows'[c] = None
          BY <1>2, <4>1, <4>4 DEF JobOK
        <5>2. Tracks(c, k)'
          BY <1>5, <4>1, <4>4, <5>1 DEF Tracks
        <5> QED BY <3>2, <3>3, <5>2 DEF ListKnown
      <4> QED BY <3>5, <4>2, <4>3, <4>4
    <3> QED BY <3>6, <3>7
  <2> QED BY <2>2, <2>3
<1> QED BY <1>1, <1>7, <1>8 DEF ListIInv

LEMMA LeftServed ==
  ASSUME ListIInv, NEW j \in jobs, Profile!ServeLeft(j)
  PROVE  ListIInv'
<1>1. /\ j.stage = "left" /\ rows' = Profile!Carried(j) /\ jobs' = jobs \ {j}
      /\ excused' = excused \cup (IF tab = "collections" THEN {j.col} ELSE {})
      /\ UNCHANGED <<shown, tab>>
  BY DEF Profile!ServeLeft, Profile!Answer
<1>2. JobOK(j) /\ shown \in [ProfileCol -> Seq(Privacy)]
  BY DEF ListIInv, ListTypes
<1>3. j.kind # "load"
  BY <1>1, <1>2 DEF JobOK
<1>4. tab = "collections" => j.col \in excused'
  BY <1>1
<1>5. excused \subseteq excused'
  BY <1>1
<1> QED BY <1>1, <1>2, <1>3, <1>4, <1>5, CarriedRows, JobEnds

\* The list is replaced; until then it was empty and nothing else was pending.
LEMMA LoadEnds ==
  ASSUME ListIInv, NEW j \in jobs, j.kind = "load", jobs' = jobs \ {j}, UNCHANGED <<tab, rows>>,
         shown' \in [ProfileCol -> Seq(Privacy)], excused \subseteq excused',
         \A c \in ProfileCol \ excused' : shown'[c] = Profile!Entry(j.seen[c]) /\ j.stage = "served"
  PROVE  ListIInv'
<1>1. JobOK(j) /\ tab = "collections"
  BY StillOpen DEF ListIInv, ListTypes, JobOK
<1>2. Loads' = {} /\ j \in Loads
  BY DEF Loads, ListIInv, ListTypes
<1>3. ListTypes'
  BY <1>1, <1>2 DEF ListIInv, ListTypes
<1>4. ASSUME NEW c \in ProfileCol \ excused' PROVE ListKnown(c)'
  <2>1. ListKnown(c)
    BY <1>1, <1>4 DEF ListIInv
  <2>2. PendingOn(c)' = {}
    BY <1>2, <2>1 DEF ListKnown, PendingOn
  <2>3. shown'[c] = Profile!Entry(rows'[c])
    BY <1>2, <1>4, <2>1 DEF ListKnown
  <2> QED BY <1>2, <2>2, <2>3 DEF ListKnown, Profile!Entry
<1> QED BY <1>3, <1>4 DEF ListIInv

\* An answer makes the entry of its collection what its row has been since it was served.
LEMMA AnswerApplied ==
  ASSUME ListIInv, NEW j \in jobs, Profile!Apply(j), UNCHANGED rows
  PROVE  ListIInv'
<1>1. /\ j.stage \in {"served", "refused"} /\ jobs' = jobs \ {j} /\ UNCHANGED <<excused, tab>>
      /\ j.stage = "refused" => shown' = shown
      /\ j.stage = "served" => shown' = Profile!Answered(j)
  BY DEF Profile!Apply, Profile!Answer
<1>2. tab = "collections" /\ JobOK(j) /\ shown \in [ProfileCol -> Seq(Privacy)] /\ rows \in [ProfileCol -> Row]
  BY <1>1, StillOpen DEF ListIInv, ListTypes
<1>3. CASE j.kind = "load"
  <2>1. j.stage = "served"
    BY <1>1, <1>2, <1>3 DEF JobOK
  <2>2. shown' = [c \in ProfileCol |-> Profile!Entry(j.seen[c])]
    BY <1>1, <1>3, <2>1 DEF Profile!Answered
  <2>3. shown' \in [ProfileCol -> Seq(Privacy)]
    <3>1. \A c \in ProfileCol : j.seen[c] \in Row
      BY <1>2, JobFacts
    <3> QED BY <2>2, <3>1, EntryFacts
  <2> QED BY <1>1, <1>3, <2>1, <2>2, <2>3, LoadEnds
<1>4. CASE j.kind # "load"
  <2> DEFINE c == j.col
  <2>1. c \in ProfileCol /\ shown[c] \in Seq(Privacy) /\ j.kind \in {"create", "patch", "delete"}
    BY <1>2, <1>4, JobFacts DEF JobOK
  <2>2. PICK entries \in Seq(Privacy) :
          /\ shown' = [shown EXCEPT ![c] = entries]
          /\ c \notin excused => entries = Profile!Entry(rows[c])
    <3>0. c \notin excused => Tracks(c, j)
      <4>1. j \in PendingOn(c)
        BY <1>1, <1>4 DEF PendingOn
      <4> QED BY <1>2, <2>1, <4>1 DEF ListIInv, ListKnown
    <3>1. CASE j.stage = "refused"
      <4>1. shown' = [shown EXCEPT ![c] = shown[c]]
        BY <1>1, <1>2, <2>1, <3>1
      <4>2. c \notin excused => shown[c] = Profile!Entry(rows[c])
        BY <3>0, <3>1 DEF Tracks
      <4> QED BY <2>1, <4>1, <4>2
    <3>2. CASE j.stage = "served" /\ j.kind = "create"
      <4>1. shown' = [shown EXCEPT ![c] = <<j.next>> \o shown[c]] /\ j.next \in Privacy
        BY <1>1, <1>2, <3>2 DEF Profile!Answered, Profile!Previous, JobOK
      <4>2. <<j.next>> \o shown[c] \in Seq(Privacy)
        BY <2>1, <4>1
      <4>3. ASSUME c \notin excused PROVE <<j.next>> \o shown[c] = Profile!Entry(rows[c])
        <5>1. shown[c] = <<>> /\ rows[c] = j.next
          BY <3>0, <3>2, <4>3 DEF Tracks
        <5>2. <<j.next>> \o <<>> = <<j.next>>
          OBVIOUS
        <5> QED BY <4>1, <5>1, <5>2, EntryFacts
      <4> QED BY <4>1, <4>2, <4>3
    <3>3. CASE j.stage = "served" /\ j.kind = "patch"
      <4> DEFINE renamed == [i \in DOMAIN shown[c] |-> j.next]
      <4>1. shown' = [shown EXCEPT ![c] = renamed]
        <5>1. shown' = Profile!Answered(j)
          BY <1>1, <3>3
        <5>2. Profile!Answered(j) = [shown EXCEPT ![j.col] = [i \in DOMAIN @ |-> j.next]]
          BY <3>3 DEF Profile!Answered
        <5> QED BY <5>1, <5>2, Zenon
      <4>2. j.next \in Privacy /\ DOMAIN shown[c] = 1..Len(shown[c]) /\ Len(shown[c]) \in Nat
        BY <1>2, <2>1, <3>3 DEF JobOK
      <4>3. renamed \in Seq(Privacy)
        BY <4>2, IsASeq
      <4>4. ASSUME c \notin excused PROVE renamed = Profile!Entry(rows[c])
        <5>1. Len(shown[c]) = 1 /\ rows[c] = j.next
          BY <3>0, <3>3, <4>4 DEF Tracks
        <5>2. renamed = [i \in 1..1 |-> j.next]
          BY <4>2, <5>1
        <5>3. [i \in 1..1 |-> j.next] = <<j.next>>
          OBVIOUS
        <5> QED BY <4>2, <5>1, <5>2, <5>3, EntryFacts
      <4> HIDE DEF renamed
      <4> QED BY <4>1, <4>3, <4>4
    <3>4. CASE j.stage = "served" /\ j.kind = "delete"
      <4>1. shown' = [shown EXCEPT ![c] = <<>>]
        BY <1>1, <3>4 DEF Profile!Answered
      <4>2. c \notin excused => <<>> = Profile!Entry(rows[c])
        BY <3>0, <3>4, EntryFacts DEF Tracks
      <4>3. <<>> \in Seq(Privacy)
        OBVIOUS
      <4> QED BY <4>1, <4>2, <4>3
    <3> QED BY <1>1, <2>1, <3>1, <3>2, <3>3, <3>4
  <2>3. shown' \in [ProfileCol -> Seq(Privacy)] /\ shown'[c] = entries
    BY <1>2, <2>1, <2>2
  <2>4. \A d \in ProfileCol : d # c => shown'[d] = shown[d]
    BY <1>2, <2>2
  <2> QED BY <1>1, <1>2, <1>4, <2>2, <2>3, <2>4, JobEnds
<1> QED BY <1>3, <1>4

LEMMA AnswerLost ==
  ASSUME ListIInv, NEW j \in jobs, Profile!LoseAnswer(j), UNCHANGED rows
  PROVE  ListIInv'
<1>1. /\ j.stage \in {"served", "refused"} /\ jobs' = jobs \ {j} /\ UNCHANGED tab
      /\ shown' = IF j.kind = "load" THEN Profile!NoEntries ELSE shown
      /\ excused' = excused \cup (IF j.kind = "load" THEN ProfileCol ELSE {j.col})
  BY DEF Profile!LoseAnswer, Profile!Fault
<1>2. tab = "collections" /\ JobOK(j) /\ shown \in [ProfileCol -> Seq(Privacy)] /\ rows \in [ProfileCol -> Row]
  BY <1>1, StillOpen DEF ListIInv, ListTypes
<1>3. shown' \in [ProfileCol -> Seq(Privacy)]
  <2>1. Profile!NoEntries \in [ProfileCol -> Seq(Privacy)]
    BY DEF Profile!NoEntries
  <2> QED BY <1>1, <1>2, <2>1
<1>4. CASE j.kind = "load"
  BY <1>1, <1>3, <1>4, LoadEnds
<1>5. CASE j.kind # "load"
  <2>1. shown' = shown /\ j.col \in excused' /\ excused \subseteq excused'
    BY <1>1, <1>5
  <2> QED BY <1>1, <1>2, <1>3, <1>5, <2>1, JobEnds
<1> QED BY <1>4, <1>5

LEMMA ChangedElsewhere ==
  ASSUME ListIInv, NEW c \in ProfileCol, Profile!Elsewhere(c)
  PROVE  ListIInv'
<1>1. /\ rows' \in {[rows EXCEPT ![c] = None], [rows EXCEPT ![c] = Profile!Other(rows[c])]}
      /\ excused' = excused \cup {c} /\ rows[c] # None /\ UNCHANGED <<shown, jobs, tab>>
  BY DEF Profile!Elsewhere, Profile!Fault
<1>2. Loads' = Loads /\ \A d \in ProfileCol : PendingOn(d)' = PendingOn(d)
  BY <1>1 DEF Loads, PendingOn
<1>3. rows' \in [ProfileCol -> Row] /\ \A d \in ProfileCol : d # c => rows'[d] = rows[d]
  <2>1. rows \in [ProfileCol -> Row] /\ rows[c] \in Privacy
    BY <1>1 DEF ListIInv, ListTypes, Row
  <2>2. Profile!Other(rows[c]) \in Row /\ None \in Row
    BY <2>1, EntryFacts DEF Row
  <2> QED BY <1>1, <2>1, <2>2
<1>4. ListTypes'
  BY <1>1, <1>2, <1>3 DEF ListIInv, ListTypes
<1>5. ASSUME NEW d \in ProfileCol \ excused', tab = "collections" PROVE ListKnown(d)'
  BY <1>1, <1>2, <1>3, <1>5, NotConcerned DEF ListIInv
<1> QED BY <1>1, <1>4, <1>5 DEF ListIInv

\* A collection the list shows waits for nothing.
LEMMA NothingPending ==
  ASSUME ListIInv, tab = "collections", ~Profile!Waits({"patch", "delete"}),
         NEW c \in ProfileCol \ excused, shown[c] # <<>>
  PROVE  Loads = {} /\ PendingOn(c) = {} /\ shown[c] = Profile!Entry(rows[c])
<1>1. ListKnown(c)
  BY DEF ListIInv
<1>2. Loads = {}
  BY <1>1 DEF ListKnown
<1>3. ASSUME NEW j \in PendingOn(c) PROVE FALSE
  <2>1. j \in jobs /\ j.kind # "load" /\ j.stage # "left" /\ Tracks(c, j)
    BY <1>1 DEF ListKnown, PendingOn
  <2>2. JobOK(j)
    BY <2>1 DEF ListIInv, ListTypes
  <2>3. j.kind = "create"
    BY <2>1, <2>2, JobFacts DEF Profile!Waits
  <2> QED BY <2>1, <2>3 DEF Tracks
<1> QED BY <1>1, <1>2, <1>3 DEF ListKnown

LEMMA ChangeBegins ==
  ASSUME ListIInv, tab = "collections", ~Profile!Waits({"patch", "delete"}), NEW c \in ProfileCol,
         shown[c] # <<>>, NEW new, JobOK(new), new.kind \in {"patch", "delete"}, new.col = c, new.stage = "sent",
         jobs' = jobs \cup {new}, UNCHANGED <<tab, rows, shown, excused>>
  PROVE  ListIInv'
<1>1. ASSUME c \notin excused PROVE Loads = {} /\ PendingOn(c) = {} /\ Tracks(c, new)
  <2>1. Loads = {} /\ PendingOn(c) = {} /\ shown[c] = Profile!Entry(rows[c])
    BY <1>1, NothingPending
  <2> QED BY <2>1 DEF Tracks
<1> QED BY <1>1, JobBegins

LEMMA ListClicked ==
  ASSUME ListIInv, Profile!OnCollections, UNCHANGED rows
  PROVE  ListIInv'
<1> USE DEF Profile!Click
<1>1. ASSUME NEW c \in ProfileCol, Profile!TogglePrivate(c) PROVE ListIInv'
  <2>1. PICK i \in DOMAIN shown[c] : jobs' = jobs \cup {Profile!Job("patch", c, Profile!Other(shown[c][i]))}
    BY <1>1 DEF Profile!TogglePrivate
  <2>2. /\ tab = "collections" /\ ~Profile!Waits({"patch", "delete"})
        /\ UNCHANGED <<tab, shown, excused>>
    BY <1>1 DEF Profile!TogglePrivate
  <2>3. shown[c] \in Seq(Privacy) /\ shown[c] # <<>> /\ shown[c][i] \in Privacy
    BY <2>1 DEF ListIInv, ListTypes
  <2> DEFINE next == Profile!Other(shown[c][i])
             new == Profile!Job("patch", c, next)
  <2>4. next \in Privacy /\ next \in Row
    BY <2>3, EntryFacts DEF Row
  <2>5. JobOK(new) /\ new.kind = "patch" /\ new.col = c /\ new.stage = "sent"
    BY <2>4, NewJob DEF ListIInv
  <2> HIDE DEF new
  <2>6. jobs' = jobs \cup {new}
    BY <2>1 DEF new
  <2> QED BY <2>2, <2>3, <2>5, <2>6, ChangeBegins
<1>2. ASSUME NEW c \in ProfileCol, Profile!Delete(c) PROVE ListIInv'
  <2> DEFINE new == Profile!Job("delete", c, None)
  <2>1. /\ tab = "collections" /\ ~Profile!Waits({"patch", "delete"}) /\ shown[c] # <<>>
        /\ jobs' = jobs \cup {new} /\ UNCHANGED <<tab, shown, excused>>
    BY <1>2 DEF Profile!Delete
  <2>2. JobOK(new) /\ new.kind = "delete" /\ new.col = c /\ new.stage = "sent"
    BY NewJob DEF ListIInv, Row
  <2> HIDE DEF new
  <2> QED BY <2>1, <2>2, ChangeBegins
<1>3. ASSUME NEW c \in ProfileCol, NEW p \in Privacy, Profile!Create(c, p) PROVE ListIInv'
  <2> DEFINE new == Profile!Job("create", c, p)
  <2>1. /\ tab = "collections" /\ Profile!Fresh(c) /\ jobs' = jobs \cup {new}
        /\ excused' = excused \cup (IF Profile!Waits({"load"}) THEN {c} ELSE {})
        /\ UNCHANGED <<tab, shown>>
    BY <1>3 DEF Profile!Create
  <2>2. JobOK(new) /\ new.kind = "create" /\ new.col = c /\ new.stage = "sent"
    BY NewJob DEF ListIInv, Row
  <2> HIDE DEF new
  <2>3. PendingOn(c) = {} /\ Tracks(c, new)
    BY <2>1, <2>2 DEF Profile!Fresh, PendingOn, Tracks
  <2>4. c \notin excused' => Loads = {}
    <3>1. \A j \in Loads : j \in jobs /\ j.kind = "load" /\ j.stage # "left"
      BY DEF Loads, ListIInv, ListTypes, JobOK
    <3> QED BY <2>1, <3>1 DEF Profile!Waits
  <2>5. excused \subseteq excused'
    BY <2>1
  <2> QED BY <2>1, <2>2, <2>3, <2>4, <2>5, JobBegins
<1> QED BY <1>1, <1>2, <1>3, AnswerApplied, AnswerLost DEF Profile!OnCollections, Privacy

LEMMA ListLeft ==
  ASSUME ListIInv, Profile!OpenQuotes
  PROVE  ListIInv'
<1> DEFINE left(j) == [j EXCEPT !.stage = "left"]
           kept == {i \in jobs : i.stage = "sent" /\ i.kind # "load"}
<1>1. /\ tab' = "quotes" /\ UNCHANGED rows /\ shown' = Profile!NoEntries
      /\ jobs' = {left(j) : j \in kept}
  BY DEF Profile!OpenQuotes
<1>2. ASSUME NEW j \in kept PROVE JobOK(left(j)) /\ left(j).stage = "left" /\ left(j).kind # "load"
  <2>1. JobOK(j) /\ j.kind # "load"
    BY DEF ListIInv, ListTypes
  <2> QED BY <2>1 DEF JobOK, CollectionJob
<1> HIDE DEF left
<1>3. \A j \in jobs' : JobOK(j) /\ j.stage = "left" /\ j.kind # "load"
  BY <1>1, <1>2
<1>4. Loads' = {}
  BY <1>3 DEF Loads
<1>5. shown' \in [ProfileCol -> Seq(Privacy)]
  BY <1>1 DEF Profile!NoEntries
<1> QED BY <1>1, <1>3, <1>4, <1>5 DEF ListIInv, ListTypes

LEMMA ListOpened ==
  ASSUME ListIInv, Profile!OpenCollections
  PROVE  ListIInv'
<1> DEFINE new == Profile!Job("load", None, None)
<1>1. /\ tab = "quotes" /\ tab' = "collections" /\ jobs' = jobs \cup {new}
      /\ UNCHANGED <<rows, shown, excused>>
  BY DEF Profile!OpenCollections
<1>2. JobOK(new) /\ new.kind = "load" /\ new.stage = "sent"
  BY NewJob DEF ListIInv, Row
<1> HIDE DEF new
<1>3. /\ shown = Profile!NoEntries
      /\ \A j \in jobs : JobOK(j) /\ j.stage = "left" /\ j.kind # "load"
  BY <1>1 DEF ListIInv, ListTypes, JobOK
<1>4. Loads' = {new}
  BY <1>1, <1>2, <1>3 DEF Loads
<1>5. ListTypes'
  BY <1>1, <1>2, <1>3, <1>4 DEF ListIInv, ListTypes
<1>6. ASSUME NEW c \in ProfileCol PROVE ListKnown(c)'
  <2>1. PendingOn(c)' = {} /\ shown'[c] = <<>>
    BY <1>1, <1>2, <1>3 DEF PendingOn, Profile!NoEntries
  <2> QED BY <1>2, <1>4, <2>1 DEF ListKnown
<1> QED BY <1>5, <1>6 DEF ListIInv

LEMMA ProfileStep == ProfileIInv /\ [Profile!Next]_(Profile!vars) => ProfileIInv'
<1> SUFFICES ASSUME ProfileIInv, [Profile!Next]_(Profile!vars) PROVE ProfileIInv'
  OBVIOUS
<1> USE DEF ProfileIInv
<1>1. CASE UNCHANGED Profile!vars
  BY <1>1, FormUnchanged, ListUnchanged
     DEF Profile!vars, Profile!form, Profile!draft, Profile!collections
<1>2. CASE Profile!OnForm /\ UNCHANGED <<rows, shown, jobs, excused>>
  BY <1>2, FormStep, ListUnchanged
<1>3. CASE Profile!OnCollections /\ UNCHANGED <<Profile!form, rows>>
  BY <1>3, ListClicked, FormUnchanged DEF Profile!form, Profile!draft
<1>4. ASSUME NEW j \in jobs, Profile!Serve(j), UNCHANGED Profile!form PROVE ProfileIInv'
  BY <1>4, LoadServed, ChangeServed, FormUnchanged DEF Profile!form, Profile!draft
<1>5. ASSUME NEW j \in jobs, Profile!ServeLeft(j), UNCHANGED Profile!form PROVE ProfileIInv'
  BY <1>5, LeftServed, FormUnchanged DEF Profile!form, Profile!draft
<1>6. ASSUME NEW c \in ProfileCol, Profile!Elsewhere(c), UNCHANGED Profile!form PROVE ProfileIInv'
  BY <1>6, ChangedElsewhere, FormUnchanged DEF Profile!form, Profile!draft
<1>7. CASE Profile!OpenQuotes
  <2>1. UNCHANGED Profile!form
    BY <1>7 DEF Profile!OpenQuotes
  <2> QED BY <1>7, <2>1, ListLeft, FormUnchanged DEF Profile!form, Profile!draft
<1>8. CASE Profile!OpenCollections
  <2>1. FormIInv'
    <3>1. IsFiniteSet({}) /\ Cardinality({}) <= MaxTags
      BY AnalysisFacts, FS_EmptySet
    <3>2. /\ text' = Blank /\ tags' = {} /\ locale' = Default /\ touched' = FALSE /\ result' = None
          /\ analyzing' = None /\ drafts' = 0 /\ chosen' = None
      BY <1>8 DEF Profile!OpenCollections
    <3>3. FormTypes'
      <4>1. IsFiniteSet(tags') /\ Cardinality(tags') <= MaxTags /\ tags' \subseteq Hashtag
        BY <3>1, <3>2
      <4>2. touched' \in BOOLEAN
        BY <3>2
      <4> QED BY <3>2, <4>1, <4>2, AnalysisFacts DEF FormTypes
    <3> QED BY <3>2, <3>3 DEF FormIInv, TagsOnce, ChosenIsTouched, Profile!TagsOfDraft,
            Profile!ChosenLanguageKept
  <2> QED BY <1>8, <2>1, ListOpened
<1> QED BY <1>1, <1>2, <1>3, <1>4, <1>5, <1>6, <1>7, <1>8 DEF Profile!Next, Profile!collections

LEMMA ProfileGoal ==
  ProfileIInv => /\ Profile!TypeOK /\ Profile!TagsOfDraft
                 /\ Profile!ChosenLanguageKept /\ Profile!ListExplained
<1> SUFFICES ASSUME ProfileIInv PROVE Profile!TypeOK /\ Profile!ListExplained
  BY DEF ProfileIInv, FormIInv
<1>1. Profile!TypeOK
  <2>1. Profile!Cardinality(tags) <= MaxTags
    BY SameCardinality DEF ProfileIInv, FormIInv, FormTypes
  <2>2. /\ Profile!Names(tags) \subseteq Tag
        /\ Profile!Cardinality(Profile!Names(tags)) = Profile!Cardinality(tags)
    BY NamesCounted, SameCardinality DEF ProfileIInv, FormIInv
  <2> QED BY <2>1, <2>2 DEF ProfileIInv, FormIInv, FormTypes, ListIInv, ListTypes, Row, Privacy, Profile!TypeOK
<1>2. ASSUME tab = "collections", jobs = {}, NEW c \in ProfileCol \ excused
      PROVE  shown[c] = Profile!Entry(rows[c])
  <2>1. ListKnown(c) /\ Loads = {} /\ PendingOn(c) = {}
    BY <1>2 DEF ProfileIInv, ListIInv, Loads, PendingOn
  <2> QED BY <2>1 DEF ListKnown
<1> QED BY <1>1, <1>2 DEF Profile!ListExplained

(* For any texts, hashtags and collections a draft has no hashtag of an    *)
(* earlier quote and the language its author chose, and once nothing is    *)
(* under way the list shows each stored collection once, but for the       *)
(* answers ProfilePage names (QuoteForm.tsx, profile/page.tsx).            *)
THEOREM ProfileHolds == Spec => []ProfileCorrect
<1>1. Init => ProfileInductive
  BY ProfileStarts, ProfileInit DEF ProfileInductive
<1>2. ProfileInductive /\ [Next]_all => ProfileInductive'
  BY ProfileMoves, ProfileStep DEF ProfileInductive
<1>3. ProfileInductive => ProfileCorrect
  BY ProfileGoal DEF ProfileInductive, ProfileCorrect
<1> QED BY <1>1, <1>2, <1>3, PTL DEF Spec

(***************************************************************************)
(* Cards and collections (QuoteCard.tsx, collections.ts).                  *)
(***************************************************************************)
Quotes == {CardQuote, OtherQuote}
Stage == {"sent", "ok", "refused"}
LikeJob == [kind : {"like"}, next : BOOLEAN, stage : Stage]
CollectJob == [kind : {"collect"}, col : CardCol, next : BOOLEAN, stage : Stage]
CreateJob == [kind : {"create"}, col : CardCol, next : {TRUE}, stage : {"sent"}]
Asked == LikeJob \cup CollectJob \cup CreateJob
CardJob == Asked \cup {Library!Idle}
Previews == [CardCol -> SUBSET (SUBSET Quotes)]
ListAsked == [kind : {"asked"}, card : Card]
ListRead == [kind : {"read"}, card : Card, rows : Previews, outdated : SUBSET CardCol]
ListJob == ListAsked \cup ListRead \cup {Library!Idle}

\* The two buttons of a card.
T(k) == <<k, "toggle">>
C(k) == <<k, "create">>

CardTypes == /\ liked \in BOOLEAN /\ others \in 0..MaxOthers /\ public \in BOOLEAN
             /\ col \in [CardCol -> Library!StoredCollection \cup {None}]
             /\ shown \in [Card -> [liked : BOOLEAN, count : Nat]]
             /\ picker \in [Card -> Previews]
             /\ overrides \in [Card -> SUBSET CardCol]
             /\ job \in [Library!Call -> CardJob]
             /\ list \in [CardList -> ListJob]
             /\ leaving \in SUBSET {r \in Asked : r.stage = "sent"}
             /\ astray \subseteq drifted /\ drifted \subseteq Card
             /\ excused \in [Card -> SUBSET CardCol] /\ trashed \in [Card -> SUBSET CardCol]
             /\ faults \in 0..CardFaults

\* Which button sends what.
ButtonKept(k) == /\ job[T(k)].kind \in {"idle", "like", "collect"}
                 /\ job[C(k)].kind \in {"idle", "create", "collect"}
                 /\ job[C(k)].kind = "collect" => job[C(k)].next = TRUE

\* What a card shows, and what it will show once its answer has come.
LikeServed(k) == job[T(k)].kind = "like" /\ job[T(k)].stage = "ok"
LikeKnown(k) ==
    /\ job[T(k)].kind = "like" => job[T(k)].next = ~shown[k].liked
    /\ k \notin astray => liked = IF LikeServed(k) THEN job[T(k)].next ELSE shown[k].liked
    /\ k \notin drifted => Library!Likes = IF ~LikeServed(k) THEN shown[k].count
                                           ELSE IF job[T(k)].next THEN shown[k].count + 1
                                           ELSE shown[k].count - 1

\* A card takes the collection for one with its quote, or will once its answers have
\* come; or it will take it for one without.
Claims(k, c) == \/ c \in overrides[k]
                \/ Library!Carries(T(k), c, TRUE)
                \/ Library!Carries(C(k), c, TRUE)
Retracts(k, c) == Library!Carries(T(k), c, FALSE) /\ ~Library!Carries(C(k), c, TRUE)
MemberKnown(k, c) == c \notin excused[k] /\ Claims(k, c) => Library!Member(c) \/ Retracts(k, c)

\* A list names what is there, unless it is marked.
Names(es, c, marks) == (\E e \in es : CardQuote \in e) /\ c \notin marks
ListingsKnown ==
    \A c \in CardCol :
      /\ \A k \in Card : Names(picker[k][c], c, trashed[k]) => Library!Member(c)
      /\ \A q \in CardList : list[q].kind = "read" /\ Names(list[q].rows[c], c, list[q].outdated)
                               => Library!Member(c)

\* A collection under creation is not there, and is created once.
Creates(r, c) == r.kind = "create" /\ r.col = c
CreatesNew == \A c \in CardCol :
                /\ \A j \in Library!Call : Creates(job[j], c) =>
                     /\ col[c] = None
                     /\ \A i \in Library!Call : Creates(job[i], c) => i = j
                     /\ \A r \in leaving : ~Creates(r, c)
                /\ \A r \in leaving : Creates(r, c) => col[c] = None

CardsIInv == /\ CardTypes
             /\ \A k \in Card : ButtonKept(k)
             /\ \A k \in Card : LikeKnown(k)
             /\ \A k \in Card, c \in CardCol : MemberKnown(k, c)
             /\ ListingsKnown
             /\ CreatesNew
CardsInductive == part = "library" => CardsIInv

LEMMA CardsStart == Init /\ part = "library" => Library!Init
  BY DEF Init

LEMMA CardsMove ==
  ASSUME [Next]_all, part' = "library"
  PROVE  part = "library" /\ [Library!Next]_(Library!vars)
<1>1. CASE UNCHANGED all
  BY <1>1 DEF all, Library!vars, Library!stored, Library!cards, Library!history, Library!likes
<1>2. CASE Next
  BY <1>2 DEF Next
<1> QED BY <1>1, <1>2

LEMMA CallFacts ==
  /\ \A k \in Card : /\ T(k) \in Library!Call /\ C(k) \in Library!Call
                     /\ T(k)[1] = k /\ C(k)[1] = k /\ T(k)[2] = "toggle" /\ C(k)[2] = "create"
  /\ \A k, l \in Card : T(k) # C(l) /\ (T(k) = T(l) => k = l) /\ (C(k) = C(l) => k = l)
  /\ \A j \in Library!Call : j[1] \in Card /\ (j = T(j[1]) \/ j = C(j[1]))
<1>1. \A k \in Card : /\ T(k) \in Library!Call /\ C(k) \in Library!Call
                      /\ T(k)[1] = k /\ C(k)[1] = k /\ T(k)[2] = "toggle" /\ C(k)[2] = "create"
  BY DEF T, C, Library!Call
<1>2. \A k, l \in Card : T(k) # C(l) /\ (T(k) = T(l) => k = l) /\ (C(k) = C(l) => k = l)
  BY DEF T, C
<1>3. \A j \in Library!Call : j[1] \in Card /\ (j = T(j[1]) \/ j = C(j[1]))
  BY DEF T, C, Library!Call
<1> QED BY <1>1, <1>2, <1>3

LEMMA CardJobFacts ==
  ASSUME NEW j \in CardJob
  PROVE  /\ j.kind \in {"idle", "like", "collect", "create"}
         /\ j = Library!Idle <=> j.kind = "idle"
         /\ j # Library!Idle => j \in Asked
         /\ j.kind = "like" => j \in LikeJob
         /\ j.kind = "collect" => j \in CollectJob
         /\ j.kind = "create" => j \in CreateJob
<1>1. Library!Idle.kind = "idle"
  BY DEF Library!Idle
<1>2. CASE j \in LikeJob
  BY <1>1, <1>2 DEF LikeJob, Asked
<1>3. CASE j \in CollectJob
  BY <1>1, <1>3 DEF CollectJob, Asked
<1>4. CASE j \in CreateJob
  BY <1>1, <1>4 DEF CreateJob, Asked
<1>5. CASE j = Library!Idle
  BY <1>1, <1>5
<1> QED BY <1>2, <1>3, <1>4, <1>5 DEF CardJob, Asked

LEMMA ListJobFacts ==
  ASSUME NEW j \in ListJob
  PROVE  /\ j.kind \in {"idle", "asked", "read"}
         /\ j.kind = "idle" => j = Library!Idle
         /\ j.kind = "asked" => j \in ListAsked /\ j.card \in Card
         /\ j.kind = "read" => /\ j \in ListRead /\ j.card \in Card
                               /\ j.rows \in Previews /\ j.outdated \in SUBSET CardCol
<1>1. Library!Idle.kind = "idle"
  BY DEF Library!Idle
<1>2. CASE j \in ListAsked
  BY <1>2 DEF ListAsked
<1>3. CASE j \in ListRead
  BY <1>3 DEF ListRead
<1>4. CASE j = Library!Idle
  BY <1>1, <1>4
<1> QED BY <1>2, <1>3, <1>4 DEF ListJob

LEMMA LibraryFacts ==
  /\ MaxOthers \in Nat /\ CardFaults \in Nat
  /\ None \notin Library!StoredCollection
  BY LibraryAssumption, NullsAssumption DEF Library!BoundsAssumption

LEMMA CardsInit == Library!Init => CardsIInv
<1> SUFFICES ASSUME Library!Init PROVE CardsIInv
  OBVIOUS
<1>1. /\ liked = FALSE /\ others = 0 /\ public = TRUE /\ faults = 0 /\ astray = {} /\ drifted = {}
      /\ col = [c \in CardCol |-> None]
      /\ shown = [k \in Card |-> [liked |-> FALSE, count |-> 0]]
      /\ picker = [k \in Card |-> Library!Unlisted]
      /\ overrides = [k \in Card |-> {}] /\ excused = [k \in Card |-> {}] /\ trashed = [k \in Card |-> {}]
      /\ job = [j \in Library!Call |-> Library!Idle]
      /\ list = [q \in CardList |-> Library!Idle] /\ leaving = {}
  BY DEF Library!Init
<1>2. \A k \in Card : /\ job[T(k)].kind = "idle" /\ job[C(k)].kind = "idle"
                      /\ shown[k].liked = FALSE /\ shown[k].count = 0
  BY <1>1, CallFacts DEF Library!Idle
<1>3. CardTypes
  <2>1. liked \in BOOLEAN /\ public \in BOOLEAN
    BY <1>1
  <2>2. job \in [Library!Call -> CardJob] /\ list \in [CardList -> ListJob]
    BY <1>1 DEF CardJob, ListJob
  <2>3. shown \in [Card -> [liked : BOOLEAN, count : Nat]]
    <3>1. [liked |-> FALSE, count |-> 0] \in [liked : BOOLEAN, count : Nat]
      OBVIOUS
    <3> QED BY <1>1, <3>1
  <2>4. col \in [CardCol -> Library!StoredCollection \cup {None}]
    BY <1>1
  <2>5. others \in 0..MaxOthers /\ faults \in 0..CardFaults
    BY <1>1, LibraryFacts
  <2>6. /\ overrides \in [Card -> SUBSET CardCol]
        /\ excused \in [Card -> SUBSET CardCol] /\ trashed \in [Card -> SUBSET CardCol]
    BY <1>1
  <2>7. astray \subseteq drifted /\ drifted \subseteq Card /\ leaving \in SUBSET {r \in Asked : r.stage = "sent"}
    BY <1>1
  <2>8. picker \in [Card -> Previews]
    <3>1. Library!Unlisted \in Previews
      BY DEF Library!Unlisted, Previews
    <3> QED BY <1>1, <3>1
  <2> QED BY <2>1, <2>2, <2>3, <2>4, <2>5, <2>6, <2>7, <2>8 DEF CardTypes
<1>4. ASSUME NEW k \in Card PROVE LikeKnown(k) /\ ButtonKept(k)
  <2>1. ~LikeServed(k) /\ job[T(k)].kind # "like" /\ ButtonKept(k)
    BY <1>2 DEF LikeServed, ButtonKept
  <2>2. Library!Likes = 0
    BY <1>1 DEF Library!Likes
  <2>3. liked = shown[k].liked /\ shown[k].count = 0
    BY <1>1, <1>2
  <2> QED BY <2>1, <2>2, <2>3, Zenon DEF LikeKnown
<1>5. \A k \in Card, c \in CardCol : MemberKnown(k, c)
  BY <1>1, <1>2 DEF MemberKnown, Claims, Library!Carries, Library!About
<1>6. ListingsKnown
  <2>1. \A c \in CardCol, k \in Card : picker[k][c] = {}
    BY <1>1 DEF Library!Unlisted
  <2>2. \A q \in CardList : list[q].kind # "read"
    BY <1>1 DEF Library!Idle
  <2> QED BY <2>1, <2>2 DEF ListingsKnown, Names
<1>7. CreatesNew
  <2>1. \A j \in Library!Call : job[j].kind = "idle"
    BY <1>1 DEF Library!Idle
  <2> QED BY <1>1, <2>1 DEF CreatesNew, Creates
<1> QED BY <1>3, <1>4, <1>5, <1>6, <1>7 DEF CardsIInv

\* Steps that leave a card's claims, and what it has been excused.
LEMMA MembersStay ==
  ASSUME NEW k \in Card, NEW c \in CardCol, MemberKnown(k, c),
         Claims(k, c)' => Claims(k, c),
         c \notin excused'[k] => /\ c \notin excused[k]
                                 /\ Retracts(k, c) => Retracts(k, c)'
                                 /\ Library!Member(c) => Library!Member(c)'
  PROVE  MemberKnown(k, c)'
  BY DEF MemberKnown

LEMMA SameMembers ==
  ASSUME NEW k \in Card, NEW c \in CardCol, MemberKnown(k, c), col' = col,
         overrides'[k] = overrides[k], excused'[k] = excused[k],
         job'[T(k)] = job[T(k)], job'[C(k)] = job[C(k)]
  PROVE  MemberKnown(k, c)'
  BY DEF MemberKnown, Claims, Retracts, Library!Carries, Library!Member

LEMMA LikesStay ==
  ASSUME NEW k \in Card, LikeKnown(k), job'[T(k)] = job[T(k)], shown'[k] = shown[k],
         liked' = liked, others' = others, k \in astray => k \in astray', k \in drifted => k \in drifted'
  PROVE  LikeKnown(k)'
  BY DEF LikeKnown, LikeServed, Library!Likes

LEMMA ButtonsStay ==
  ASSUME NEW k \in Card, ButtonKept(k), job'[T(k)] = job[T(k)], job'[C(k)] = job[C(k)]
  PROVE  ButtonKept(k)'
  BY DEF ButtonKept

LEMMA ListingsStay ==
  ASSUME ListingsKnown, picker' = picker, trashed' = trashed, list' = list,
         \A c \in CardCol : Library!Member(c) => Library!Member(c)'
  PROVE  ListingsKnown'
  BY DEF ListingsKnown, Names

LEMMA CreatesStay ==
  ASSUME CreatesNew, leaving' \subseteq leaving,
         \A c \in CardCol : col[c] = None => col'[c] = None,
         \A j \in Library!Call, c \in CardCol : Creates(job'[j], c) => Creates(job[j], c)
  PROVE  CreatesNew'
  BY DEF CreatesNew

LEMMA CardsStill == CardsIInv /\ UNCHANGED Library!vars => CardsIInv'
<1> SUFFICES ASSUME CardsIInv, UNCHANGED Library!vars PROVE CardsIInv'
  OBVIOUS
<1>1. UNCHANGED <<topic, liked, others, public, col, shown, picker, overrides, job, list, leaving, astray,
                  drifted, excused, trashed, faults>>
  BY DEF Library!vars, Library!stored, Library!cards, Library!history, Library!likes
<1>2. CardTypes'
  BY <1>1 DEF CardsIInv, CardTypes
<1>3. \A k \in Card : LikeKnown(k)' /\ ButtonKept(k)'
  BY <1>1, LikesStay, ButtonsStay DEF CardsIInv
<1>4. \A k \in Card, c \in CardCol : MemberKnown(k, c)'
  BY <1>1, SameMembers DEF CardsIInv
<1>5. ListingsKnown'
  BY <1>1, ListingsStay DEF CardsIInv, Library!Member
<1>6. CreatesNew'
  BY <1>1, CreatesStay DEF CardsIInv
<1> QED BY <1>2, <1>3, <1>4, <1>5, <1>6 DEF CardsIInv

-----------------------------------------------------------------------------
(* A card is mounted, its picker opened, a request sent.                   *)
LEMMA Emptied ==
  ASSUME CardTypes, NEW k \in Card, Library!Empties(k)
  PROVE  /\ picker' \in [Card -> Previews] /\ trashed' \in [Card -> SUBSET CardCol]
         /\ \A c \in CardCol : picker'[k][c] = {}
         /\ \A l \in Card : l # k => picker'[l] = picker[l] /\ trashed'[l] = trashed[l]
<1>1. Library!Unlisted \in Previews /\ \A c \in CardCol : Library!Unlisted[c] = {}
  BY DEF Library!Unlisted, Previews
<1> QED BY <1>1 DEF CardTypes, Library!Empties

LEMMA EmptiedListings ==
  ASSUME CardsIInv, NEW k \in Card, Library!Empties(k), col' = col,
         \A q \in CardList : list'[q].kind = "read" => list'[q] = list[q]
  PROVE  ListingsKnown'
<1>1. CardTypes /\ ListingsKnown
  BY DEF CardsIInv
<1> SUFFICES ASSUME NEW c \in CardCol
             PROVE  /\ \A l \in Card : Names(picker'[l][c], c, trashed'[l]) => Library!Member(c)'
                    /\ \A q \in CardList :
                         list'[q].kind = "read" /\ Names(list'[q].rows[c], c, list'[q].outdated)
                           => Library!Member(c)'
  BY DEF ListingsKnown, Names
<1>2. Library!Member(c) => Library!Member(c)'
  BY DEF Library!Member
<1>3. ASSUME NEW l \in Card, Names(picker'[l][c], c, trashed'[l]) PROVE Library!Member(c)'
  <2>1. l # k
    BY <1>1, <1>3, Emptied DEF Names
  <2>2. picker'[l] = picker[l] /\ trashed'[l] = trashed[l]
    BY <1>1, <2>1, Emptied
  <2> QED BY <1>1, <1>2, <1>3, <2>2 DEF ListingsKnown
<1>4. ASSUME NEW q \in CardList, list'[q].kind = "read", Names(list'[q].rows[c], c, list'[q].outdated)
      PROVE  Library!Member(c)'
  <2>1. list'[q] = list[q]
    BY <1>4
  <2> QED BY <1>1, <1>2, <1>4, <2>1 DEF ListingsKnown
<1> QED BY <1>3, <1>4

LEMMA Mounted ==
  ASSUME CardsIInv, NEW k \in Card, Library!Mount(k)
  PROVE  CardsIInv'
<1> DEFINE now == [liked |-> liked, count |-> Library!Likes]
           kept(q) == IF list[q].kind # "idle" /\ list[q].card = k THEN Library!Idle ELSE list[q]
<1>1. /\ job[T(k)] = Library!Idle /\ job[C(k)] = Library!Idle
      /\ shown' = [shown EXCEPT ![k] = now]
      /\ Library!Empties(k)
      /\ overrides' = [overrides EXCEPT ![k] = {}]
      /\ list' = [q \in CardList |-> kept(q)]
      /\ astray' = astray \ {k} /\ drifted' = drifted \ {k}
      /\ excused' = [excused EXCEPT ![k] = {}]
      /\ UNCHANGED <<liked, others, public, col, job, leaving, faults>>
  BY DEF Library!Mount, Library!stored, Library!AtRest, T, C
<1>t. CardTypes
  BY DEF CardsIInv
<1>2. now \in [liked : BOOLEAN, count : Nat] /\ now.liked = liked /\ now.count = Library!Likes
  <2>1. Library!Likes \in Nat
    BY <1>t, LibraryFacts DEF CardTypes, Library!Likes
  <2> QED BY <1>t, <2>1 DEF CardTypes
<1>3. \A q \in CardList : kept(q) = Library!Idle \/ kept(q) = list[q]
  OBVIOUS
<1> HIDE DEF now, kept
<1>4. CardTypes'
  <2>1. shown' \in [Card -> [liked : BOOLEAN, count : Nat]]
    BY <1>t, <1>1, <1>2 DEF CardTypes
  <2>2. picker' \in [Card -> Previews] /\ trashed' \in [Card -> SUBSET CardCol]
    BY <1>t, <1>1, Emptied
  <2>3. overrides' \in [Card -> SUBSET CardCol] /\ excused' \in [Card -> SUBSET CardCol]
    BY <1>t, <1>1 DEF CardTypes
  <2>4. list' \in [CardList -> ListJob]
    BY <1>t, <1>1, <1>3 DEF CardTypes, ListJob
  <2> QED BY <1>t, <1>1, <2>1, <2>2, <2>3, <2>4 DEF CardTypes
<1>5. job[T(k)].kind = "idle" /\ job[C(k)].kind = "idle"
  BY <1>1 DEF Library!Idle
<1>6. ASSUME NEW l \in Card PROVE LikeKnown(l)' /\ ButtonKept(l)'
  <2>b. ButtonKept(l)'
    BY <1>1, ButtonsStay DEF CardsIInv
  <2>1. CASE l = k
    <3>1. shown'[l] = now /\ job'[T(l)].kind = "idle"
      BY <1>t, <1>1, <1>5, <2>1 DEF CardTypes
    <3>2. shown'[l].liked = liked' /\ shown'[l].count = Library!Likes'
      BY <1>1, <1>2, <3>1 DEF Library!Likes
    <3> QED BY <2>b, <3>1, <3>2 DEF LikeKnown, LikeServed
  <2>2. CASE l # k
    <3>1. shown'[l] = shown[l] /\ (l \in astray => l \in astray') /\ (l \in drifted => l \in drifted')
      BY <1>t, <1>1, <2>2 DEF CardTypes
    <3> QED BY <2>b, <1>1, <3>1, LikesStay DEF CardsIInv
  <2> QED BY <2>1, <2>2
<1>7. ASSUME NEW l \in Card, NEW c \in CardCol PROVE MemberKnown(l, c)'
  <2>1. CASE l = k
    <3>1. overrides'[l] = {} /\ job'[T(l)].kind = "idle" /\ job'[C(l)].kind = "idle"
      BY <1>t, <1>1, <1>5, <2>1 DEF CardTypes
    <3> QED BY <3>1 DEF MemberKnown, Claims, Library!Carries, Library!About
  <2>2. CASE l # k
    <3>1. overrides'[l] = overrides[l] /\ excused'[l] = excused[l]
      BY <1>t, <1>1, <2>2 DEF CardTypes
    <3> QED BY <1>1, <3>1, SameMembers DEF CardsIInv
  <2> QED BY <2>1, <2>2
<1>8. ListingsKnown'
  <2>1. \A q \in CardList : list'[q].kind = "read" => list'[q] = list[q]
    BY <1>1, <1>3 DEF Library!Idle
  <2> QED BY <1>1, <2>1, EmptiedListings
<1>9. CreatesNew'
  BY <1>1, CreatesStay DEF CardsIInv
<1> QED BY <1>4, <1>6, <1>7, <1>8, <1>9 DEF CardsIInv

\* Steps of the picker and its lists leave everything but what lists name.
LEMMA OnlyListings ==
  ASSUME CardsIInv, ListingsKnown', picker' \in [Card -> Previews], trashed' \in [Card -> SUBSET CardCol],
         list' \in [CardList -> ListJob],
         UNCHANGED <<liked, others, public, col, shown, overrides, job, leaving, astray, drifted, excused, faults>>
  PROVE  CardsIInv'
<1>1. CardTypes'
  BY DEF CardsIInv, CardTypes
<1>2. \A l \in Card : LikeKnown(l)' /\ ButtonKept(l)'
  BY LikesStay, ButtonsStay DEF CardsIInv
<1>3. \A l \in Card, c \in CardCol : MemberKnown(l, c)'
  BY SameMembers DEF CardsIInv
<1>4. CreatesNew'
  BY CreatesStay DEF CardsIInv
<1> QED BY <1>1, <1>2, <1>3, <1>4 DEF CardsIInv

LEMMA ListedFacts ==
  ASSUME CardTypes, NEW c \in CardCol
  PROVE  /\ Library!Listed[c] \in SUBSET (SUBSET Quotes)
         /\ (\E e \in Library!Listed[c] : CardQuote \in e) => Library!Member(c)
<1>1. CASE col[c] = None
  <2>1. Library!Listed[c] = {}
    BY <1>1 DEF Library!Listed
  <2> QED BY <2>1
<1>2. CASE col[c] # None
  <2> DEFINE e == {col[c][i] : i \in DOMAIN col[c] \cap 1..Preview}
  <2>1. col[c] \in Seq(Quotes)
    BY <1>2 DEF CardTypes, Library!StoredCollection, Quotes
  <2>2. Library!Listed[c] = {e}
    BY <1>2 DEF Library!Listed, Library!Newest
  <2>3. e \in SUBSET Quotes
    BY <2>1
  <2>4. CardQuote \in e => Library!Member(c)
    BY <1>2, <2>1 DEF Library!Member, Library!ToSet
  <2> HIDE DEF e
  <2> QED BY <2>2, <2>3, <2>4
<1> QED BY <1>1, <1>2

LEMMA PickerMoves ==
  ASSUME CardsIInv, NEW k \in Card,
         Library!ClosePicker(k) \/ \E q \in CardList : Library!OpenPicker(k, q)
  PROVE  CardsIInv'
<1>t. CardTypes
  BY DEF CardsIInv
<1>1. CASE Library!ClosePicker(k)
  <2>1. /\ Library!Empties(k) /\ list' = list
        /\ UNCHANGED <<liked, others, public, col, shown, overrides, job, leaving, astray, drifted, excused, faults>>
    BY <1>1 DEF Library!ClosePicker, Library!stored, Library!likes
  <2>2. ListingsKnown'
    BY <2>1, EmptiedListings
  <2>3. list' \in [CardList -> ListJob]
    BY <1>t, <2>1 DEF CardTypes
  <2> QED BY <1>t, <2>1, <2>2, <2>3, Emptied, OnlyListings
<1>2. CASE \E q \in CardList : Library!OpenPicker(k, q)
  <2>1. PICK q \in CardList :
          /\ Library!Empties(k) /\ list' = [list EXCEPT ![q] = [kind |-> "asked", card |-> k]]
          /\ UNCHANGED <<liked, others, public, col, shown, overrides, job, leaving, astray, drifted, excused, faults>>
    BY <1>2 DEF Library!OpenPicker, Library!stored, Library!likes
  <2> DEFINE new == [kind |-> "asked", card |-> k]
  <2>2. new \in ListJob /\ new.kind = "asked"
    BY DEF ListJob, ListAsked
  <2>3. list' = [list EXCEPT ![q] = new]
    BY <2>1
  <2> HIDE DEF new
  <2>4. list' \in [CardList -> ListJob] /\ \A p \in CardList : list'[p].kind = "read" => list'[p] = list[p]
    BY <1>t, <2>2, <2>3 DEF CardTypes
  <2>5. ListingsKnown'
    BY <2>1, <2>4, EmptiedListings
  <2> QED BY <1>t, <2>1, <2>4, <2>5, Emptied, OnlyListings
<1> QED BY <1>1, <1>2

LEMMA ListsMove ==
  ASSUME CardsIInv, NEW q \in CardList,
         Library!ReadLists(q) \/ Library!ArriveLists(q) \/ Library!FailLists(q)
  PROVE  CardsIInv'
<1>t. CardTypes /\ ListingsKnown /\ list[q] \in ListJob
  BY DEF CardsIInv, CardTypes
<1>u. UNCHANGED <<liked, others, public, col, shown, overrides, job, leaving, astray, drifted, excused, faults>>
  BY DEF Library!ReadLists, Library!ArriveLists, Library!FailLists, Library!stored, Library!likes, Library!history
<1>m. \A c \in CardCol : Library!Member(c) => Library!Member(c)'
  BY <1>u DEF Library!Member
<1>1. CASE Library!ReadLists(q)
  <2> DEFINE new == [kind |-> "read", card |-> list[q].card, rows |-> Library!Listed, outdated |-> {}]
  <2>1. list[q].kind = "asked" /\ list' = [list EXCEPT ![q] = new] /\ UNCHANGED <<picker, trashed>>
    BY <1>1 DEF Library!ReadLists, Library!history
  <2>2. Library!Listed \in Previews
    BY <1>t, ListedFacts DEF Library!Listed, Previews
  <2>3. new \in ListJob /\ new.rows = Library!Listed
    BY <1>t, <2>1, <2>2, ListJobFacts DEF ListJob, ListRead
  <2> HIDE DEF new
  <2>4. list' \in [CardList -> ListJob] /\ list'[q] = new /\ \A p \in CardList : p # q => list'[p] = list[p]
    BY <1>t, <2>1, <2>3 DEF CardTypes
  <2>5. ASSUME NEW c \in CardCol, NEW p \in CardList, list'[p].kind = "read",
               Names(list'[p].rows[c], c, list'[p].outdated)
        PROVE  Library!Member(c)'
    <3>1. CASE p = q
      <4>1. \E e \in Library!Listed[c] : CardQuote \in e
        BY <2>3, <2>4, <2>5, <3>1 DEF Names
      <4> QED BY <1>t, <1>m, <4>1, ListedFacts
    <3>2. CASE p # q
      BY <1>t, <1>m, <2>4, <2>5, <3>2 DEF ListingsKnown
    <3> QED BY <3>1, <3>2
  <2>6. ListingsKnown'
    BY <1>t, <1>m, <2>1, <2>5 DEF ListingsKnown, Names
  <2>7. picker' \in [Card -> Previews] /\ trashed' \in [Card -> SUBSET CardCol]
    BY <1>t, <2>1 DEF CardTypes
  <2> QED BY <1>u, <2>4, <2>6, <2>7, OnlyListings
<1>2. CASE Library!ArriveLists(q)
  <2> DEFINE k == list[q].card
             marks == {c \in list[q].outdated : list[q].rows[c] # {}}
  <2>1. /\ list[q].kind = "read"
        /\ picker' = [picker EXCEPT ![k] = list[q].rows]
        /\ trashed' = [trashed EXCEPT ![k] = marks]
        /\ list' = [list EXCEPT ![q] = Library!Idle]
    BY <1>2 DEF Library!ArriveLists
  <2>2. k \in Card /\ list[q].rows \in Previews /\ list[q].outdated \in SUBSET CardCol
    BY <1>t, <2>1, ListJobFacts
  <2>3. /\ picker' \in [Card -> Previews] /\ trashed' \in [Card -> SUBSET CardCol]
        /\ picker'[k] = list[q].rows /\ trashed'[k] = marks
        /\ \A l \in Card : l # k => picker'[l] = picker[l] /\ trashed'[l] = trashed[l]
    BY <1>t, <2>1, <2>2 DEF CardTypes
  <2>4. list' \in [CardList -> ListJob] /\ \A p \in CardList : list'[p].kind = "read" => list'[p] = list[p]
    BY <1>t, <2>1 DEF CardTypes, ListJob, Library!Idle
  <2>5. ASSUME NEW c \in CardCol, NEW l \in Card, Names(picker'[l][c], c, trashed'[l])
        PROVE  Library!Member(c)'
    <3>1. CASE l = k
      <4>1. Names(list[q].rows[c], c, list[q].outdated)
        BY <2>2, <2>3, <2>5, <3>1 DEF Names
      <4> QED BY <1>t, <1>m, <2>1, <4>1 DEF ListingsKnown
    <3>2. CASE l # k
      BY <1>t, <1>m, <2>3, <2>5, <3>2 DEF ListingsKnown
    <3> QED BY <3>1, <3>2
  <2>6. ASSUME NEW c \in CardCol, NEW p \in CardList, list'[p].kind = "read",
               Names(list'[p].rows[c], c, list'[p].outdated)
        PROVE  Library!Member(c)'
    BY <1>t, <1>m, <2>4, <2>6 DEF ListingsKnown
  <2>7. ListingsKnown'
    BY <2>5, <2>6 DEF ListingsKnown, Names
  <2> QED BY <1>u, <2>3, <2>4, <2>7, OnlyListings
<1>3. CASE Library!FailLists(q)
  <2>1. list' = [list EXCEPT ![q] = Library!Idle] /\ UNCHANGED <<picker, trashed>>
    BY <1>3 DEF Library!FailLists, Library!history
  <2>2. list' \in [CardList -> ListJob] /\ \A p \in CardList : list'[p].kind = "read" => list'[p] = list[p]
    BY <1>t, <2>1 DEF CardTypes, ListJob, Library!Idle
  <2>3. ListingsKnown'
    BY <1>t, <1>m, <2>1, <2>2 DEF ListingsKnown, Names
  <2>4. picker' \in [Card -> Previews] /\ trashed' \in [Card -> SUBSET CardCol]
    BY <1>t, <2>1 DEF CardTypes
  <2> QED BY <1>u, <2>2, <2>3, <2>4, OnlyListings
<1> QED BY <1>1, <1>2, <1>3

LEMMA RequestSent ==
  ASSUME CardsIInv, NEW j \in Library!Call, NEW new \in Asked, new.stage = "sent",
         Library!Send(j, new),
         j = C(j[1]) => new.kind = "create",
         j = T(j[1]) => new.kind \in {"like", "collect"},
         new.kind = "like" => new.next = ~shown[j[1]].liked,
         new.kind = "create" => /\ col[new.col] = None
                                /\ \A r \in leaving : ~Creates(r, new.col)
                                /\ \A i \in Library!Call : ~Creates(job[i], new.col)
  PROVE  CardsIInv'
<1>1. /\ job[j] = Library!Idle /\ job' = [job EXCEPT ![j] = new]
      /\ UNCHANGED <<liked, others, public, col, shown, picker, overrides, list, leaving, astray, drifted,
                     excused, trashed, faults>>
  BY DEF Library!Send, Library!stored, Library!history, Library!likes
<1>t. CardTypes
  BY DEF CardsIInv
<1>2. job' \in [Library!Call -> CardJob] /\ new.kind \in {"like", "collect", "create"}
  <2>1. new.kind \in {"like", "collect", "create"}
    BY DEF Asked, LikeJob, CollectJob, CreateJob
  <2> QED BY <1>t, <1>1, <2>1 DEF CardTypes, CardJob
<1>3. CardTypes'
  BY <1>t, <1>1, <1>2 DEF CardTypes
<1>4. job'[j] = new /\ job[j].kind = "idle" /\ \A i \in Library!Call : i # j => job'[i] = job[i]
  BY <1>t, <1>1 DEF CardTypes, Library!Idle
<1>5. ASSUME NEW k \in Card PROVE LikeKnown(k)' /\ ButtonKept(k)'
  <2>0. LikeKnown(k) /\ ButtonKept(k) /\ T(k) \in Library!Call /\ C(k) \in Library!Call
    BY CallFacts DEF CardsIInv
  <2>1. CASE T(k) = j
    <3>1. k = j[1] /\ C(k) # j
      BY <2>1, CallFacts
    <3>2. ~LikeServed(k) /\ ~LikeServed(k)' /\ shown' = shown /\ Library!Likes' = Library!Likes
      BY <1>1, <1>4, <2>1 DEF LikeServed, Library!Likes
    <3>3. LikeKnown(k)'
      BY <1>1, <1>4, <2>0, <2>1, <3>1, <3>2 DEF LikeKnown
    <3>4. ButtonKept(k)'
      BY <1>4, <2>0, <2>1, <3>1 DEF ButtonKept
    <3> QED BY <3>3, <3>4
  <2>2. CASE T(k) # j
    <3>1. LikeKnown(k)'
      BY <1>1, <1>4, <2>0, <2>2, LikesStay
    <3>2. C(k) = j => j[1] = k
      BY CallFacts
    <3>3. ButtonKept(k)'
      BY <1>4, <2>0, <2>2, <3>2 DEF ButtonKept
    <3> QED BY <3>1, <3>3
  <2> QED BY <2>1, <2>2
<1>6. ASSUME NEW k \in Card, NEW c \in CardCol PROVE MemberKnown(k, c)'
  <2>1. \A i \in Library!Call, b \in BOOLEAN : Library!Carries(i, c, b)' <=> Library!Carries(i, c, b)
    BY <1>4 DEF Library!Carries, Library!About
  <2>2. T(k) \in Library!Call /\ C(k) \in Library!Call
    BY CallFacts
  <2> QED BY <1>1, <2>1, <2>2, MembersStay DEF CardsIInv, Claims, Retracts, Library!Member
<1>7. ListingsKnown'
  BY <1>1, ListingsStay DEF CardsIInv, Library!Member
<1>8. CreatesNew'
  BY <1>1, <1>4 DEF CardsIInv, CreatesNew, Creates
<1> QED BY <1>3, <1>5, <1>6, <1>7, <1>8 DEF CardsIInv

LEMMA CardAsks ==
  ASSUME CardsIInv, NEW k \in Card,
         Library!ToggleLike(k) \/ Library!ToggleCollection(k) \/ Library!CreateAndAdd(k)
  PROVE  CardsIInv'
<1>0. /\ T(k) \in Library!Call /\ C(k) \in Library!Call /\ T(k) # C(k)
      /\ T(k)[1] = k /\ C(k)[1] = k
  BY CallFacts
<1>1. CASE Library!ToggleLike(k)
  <2> DEFINE new == [kind |-> "like", next |-> ~shown[k].liked, stage |-> "sent"]
  <2>1. new \in Asked /\ new.kind = "like" /\ new.stage = "sent" /\ new.next = ~shown[k].liked
    BY DEF Asked, LikeJob, Stage
  <2>2. Library!Send(T(k), new)
    BY <1>1 DEF Library!ToggleLike, T
  <2> HIDE DEF new
  <2> QED BY <1>0, <2>1, <2>2, RequestSent
<1>2. CASE Library!ToggleCollection(k)
  <2>1. PICK c \in CardCol : \E e \in picker[k][c] :
          Library!Send(T(k), [kind |-> "collect", col |-> c, stage |-> "sent", next |-> ~Library!IsIn(k, c, e)])
    BY <1>2 DEF Library!ToggleCollection, T
  <2>2. PICK e \in picker[k][c] :
          Library!Send(T(k), [kind |-> "collect", col |-> c, stage |-> "sent", next |-> ~Library!IsIn(k, c, e)])
    BY <2>1
  <2> DEFINE new == [kind |-> "collect", col |-> c, stage |-> "sent", next |-> ~Library!IsIn(k, c, e)]
  <2>3. new \in Asked /\ new.kind = "collect" /\ new.stage = "sent"
    BY DEF Asked, CollectJob, Stage, Library!IsIn
  <2>4. Library!Send(T(k), new)
    BY <2>2
  <2> HIDE DEF new
  <2> QED BY <1>0, <2>3, <2>4, RequestSent
<1>3. CASE Library!CreateAndAdd(k)
  <2>1. PICK c \in CardCol : /\ Library!Fresh(c)
                             /\ Library!Send(C(k), [kind |-> "create", col |-> c, stage |-> "sent", next |-> TRUE])
    BY <1>3 DEF Library!CreateAndAdd, C
  <2> DEFINE new == [kind |-> "create", col |-> c, stage |-> "sent", next |-> TRUE]
  <2>2. new \in Asked /\ new.kind = "create" /\ new.stage = "sent" /\ new.col = c
    BY DEF Asked, CreateJob
  <2>3. Library!Send(C(k), new)
    BY <2>1
  <2>4. /\ col[c] = None /\ \A r \in leaving : ~Creates(r, c)
        /\ \A i \in Library!Call : ~Creates(job[i], c)
    BY <2>1 DEF Library!Fresh, Library!About, Creates
  <2> HIDE DEF new
  <2> QED BY <1>0, <2>2, <2>3, <2>4, RequestSent
<1> QED BY <1>1, <1>2, <1>3

-----------------------------------------------------------------------------
(* The routes and the answers.                                             *)
LEMMA StageSet ==
  ASSUME CardTypes, NEW j \in Library!Call, job[j].kind \in {"like", "collect"}, NEW st \in Stage,
         job' = [job EXCEPT ![j].stage = st]
  PROVE  /\ job' \in [Library!Call -> CardJob]
         /\ job'[j].kind = job[j].kind /\ job'[j].next = job[j].next /\ job'[j].stage = st
         /\ job[j].kind = "collect" => job'[j].col = job[j].col
         /\ \A i \in Library!Call : i # j => job'[i] = job[i]
<1>1. job[j] \in CardJob /\ job'[j] = [job[j] EXCEPT !.stage = st]
  BY DEF CardTypes
<1>2. CASE job[j].kind = "like"
  <2>1. job[j] \in LikeJob
    BY <1>1, <1>2, CardJobFacts
  <2>2. job'[j] \in LikeJob /\ job'[j].kind = "like" /\ job'[j].next = job[j].next /\ job'[j].stage = st
    BY <1>1, <2>1 DEF LikeJob
  <2> QED BY <1>2, <2>2 DEF CardTypes, CardJob, Asked
<1>3. CASE job[j].kind = "collect"
  <2>1. job[j] \in CollectJob
    BY <1>1, <1>3, CardJobFacts
  <2>2. /\ job'[j] \in CollectJob /\ job'[j].kind = "collect" /\ job'[j].next = job[j].next
        /\ job'[j].stage = st /\ job'[j].col = job[j].col
    BY <1>1, <2>1 DEF CollectJob
  <2> QED BY <1>3, <2>2 DEF CardTypes, CardJob, Asked
<1> QED BY <1>2, <1>3

LEMMA JobDone ==
  ASSUME CardTypes, NEW j \in Library!Call, job' = [job EXCEPT ![j] = Library!Idle]
  PROVE  /\ job' \in [Library!Call -> CardJob] /\ job'[j].kind = "idle"
         /\ \A i \in Library!Call : i # j => job'[i] = job[i]
  BY DEF CardTypes, CardJob, Library!Idle

LEMMA ButtonsAnswered ==
  ASSUME NEW k \in Card, ButtonKept(k),
         \A i \in {T(k), C(k)} : \/ job'[i].kind \in {"idle", job[i].kind} /\ job'[i].next = job[i].next
                                 \/ job'[i].kind = "idle"
  PROVE  ButtonKept(k)'
  BY DEF ButtonKept

LEMMA AppendedFacts ==
  ASSUME NEW s \in Seq(Quotes), NEW q \in Quotes
  PROVE  /\ Library!Appended(q, s) \in Seq(Quotes)
         /\ q \in Library!ToSet(Library!Appended(q, s))
         /\ CardQuote \in Library!ToSet(s) => CardQuote \in Library!ToSet(Library!Appended(q, s))
<1>1. CASE q \in Library!ToSet(s)
  BY <1>1 DEF Library!Appended
<1>2. CASE q \notin Library!ToSet(s)
  <2> DEFINE r == <<q>> \o s
  <2>1. Library!Appended(q, s) = r
    BY <1>2 DEF Library!Appended
  <2>2. /\ r \in Seq(Quotes) /\ Len(r) = Len(s) + 1 /\ r[1] = q
        /\ \A i \in 1..Len(s) : r[i + 1] = s[i]
    OBVIOUS
  <2> HIDE DEF r
  <2>3. DOMAIN r = 1..(Len(s) + 1) /\ DOMAIN s = 1..Len(s) /\ Len(s) \in Nat
    BY <2>2
  <2>4. r[1] \in Library!ToSet(r) /\ \A i \in DOMAIN s : s[i] \in Library!ToSet(r)
    BY <2>2, <2>3 DEF Library!ToSet
  <2> QED BY <2>1, <2>2, <2>4 DEF Library!ToSet
<1> QED BY <1>1, <1>2

LEMMA DroppedSeq ==
  ASSUME NEW s \in Seq(Quotes), NEW q
  PROVE  Library!Dropped(q, s) \in Seq(Quotes)
<1>1. CASE q \notin Library!ToSet(s)
  BY <1>1 DEF Library!Dropped
<1>2. CASE q \in Library!ToSet(s)
  <2> DEFINE i == CHOOSE i \in DOMAIN s : s[i] = q
  <2>1. i \in 1..Len(s)
    BY <1>2 DEF Library!ToSet
  <2>2. Library!Dropped(q, s) = SubSeq(s, 1, i - 1) \o SubSeq(s, i + 1, Len(s))
    BY <1>2 DEF Library!Dropped, Library!RemoveAt
  <2> HIDE DEF i
  <2>3. SubSeq(s, 1, i - 1) \in Seq(Quotes) /\ SubSeq(s, i + 1, Len(s)) \in Seq(Quotes)
    BY <2>1
  <2> QED BY <2>2, <2>3
<1> QED BY <1>1, <1>2


\* Steps after which no like is under way where none was.
LEMMA LikesUntouched ==
  ASSUME NEW k \in Card, LikeKnown(k), shown'[k] = shown[k], liked' = liked, others' = others,
         astray' = astray, drifted' = drifted,
         \/ job'[T(k)] = job[T(k)]
         \/ job[T(k)].kind # "like" /\ job'[T(k)].kind # "like"
  PROVE  LikeKnown(k)'
  BY DEF LikeKnown, LikeServed, Library!Likes

\* What changes when a collection has, or no longer has, the quote.
LEMMA Recounted ==
  ASSUME CardTypes, NEW c \in CardCol, NEW has \in BOOLEAN, NEW told \in SUBSET Card,
         Library!Recount(c, has, told)
  PROVE  /\ excused' \in [Card -> SUBSET CardCol] /\ trashed' \in [Card -> SUBSET CardCol]
         /\ list' \in [CardList -> ListJob]
         /\ \A k \in Card, d \in CardCol : d # c => (d \in excused'[k] <=> d \in excused[k])
         /\ \A k \in Card : ~has /\ k \notin told => c \in excused'[k]
         /\ \A k \in Card, d \in CardCol : d # c => (d \in trashed'[k] <=> d \in trashed[k])
         /\ \A k \in Card : ~has /\ picker[k][c] # {} => c \in trashed'[k]
         /\ \A q \in CardList :
              /\ list'[q].kind = list[q].kind
              /\ list[q].kind = "read" =>
                   /\ list'[q].rows = list[q].rows
                   /\ \A d \in CardCol : d # c => (d \in list'[q].outdated <=> d \in list[q].outdated)
                   /\ ~has => c \in list'[q].outdated
<1> DEFINE Told(cs) == IF has THEN cs \ {c} ELSE cs \cup {c}
<1>1. /\ excused' = [k \in Card |-> IF k \in told THEN excused[k] \ {c} ELSE Told(excused[k])]
      /\ trashed' = [k \in Card |-> IF picker[k][c] = {} THEN trashed[k] ELSE Told(trashed[k])]
      /\ list' = [q \in CardList |-> IF list[q].kind = "read"
                                     THEN [list[q] EXCEPT !.outdated = Told(list[q].outdated)] ELSE list[q]]
  BY DEF Library!Recount
<1>2. \A cs \in SUBSET CardCol : /\ Told(cs) \in SUBSET CardCol
                                 /\ \A d \in CardCol : d # c => (d \in Told(cs) <=> d \in cs)
                                 /\ ~has => c \in Told(cs)
  OBVIOUS
<1> HIDE DEF Told
<1>3. /\ excused' \in [Card -> SUBSET CardCol] /\ trashed' \in [Card -> SUBSET CardCol]
      /\ \A k \in Card, d \in CardCol : d # c => (d \in excused'[k] <=> d \in excused[k])
      /\ \A k \in Card : ~has /\ k \notin told => c \in excused'[k]
      /\ \A k \in Card, d \in CardCol : d # c => (d \in trashed'[k] <=> d \in trashed[k])
      /\ \A k \in Card : ~has /\ picker[k][c] # {} => c \in trashed'[k]
  <2>1. \A k \in Card : excused[k] \in SUBSET CardCol /\ trashed[k] \in SUBSET CardCol
    BY DEF CardTypes
  <2>2. ASSUME NEW k \in Card
        PROVE  /\ excused'[k] \in SUBSET CardCol
               /\ \A d \in CardCol : d # c => (d \in excused'[k] <=> d \in excused[k])
               /\ ~has /\ k \notin told => c \in excused'[k]
    <3>1. excused'[k] = IF k \in told THEN excused[k] \ {c} ELSE Told(excused[k])
      BY <1>1
    <3> QED BY <1>2, <2>1, <3>1
  <2>3. ASSUME NEW k \in Card
        PROVE  /\ trashed'[k] \in SUBSET CardCol
               /\ \A d \in CardCol : d # c => (d \in trashed'[k] <=> d \in trashed[k])
               /\ ~has /\ picker[k][c] # {} => c \in trashed'[k]
    <3>1. trashed'[k] = IF picker[k][c] = {} THEN trashed[k] ELSE Told(trashed[k])
      BY <1>1
    <3> QED BY <1>2, <2>1, <3>1
  <2>4. excused' \in [Card -> SUBSET CardCol] /\ trashed' \in [Card -> SUBSET CardCol]
    BY <1>1, <2>2, <2>3
  <2> QED BY <2>2, <2>3, <2>4
<1>4. ASSUME NEW q \in CardList
      PROVE  /\ list'[q] \in ListJob /\ list'[q].kind = list[q].kind
             /\ list[q].kind = "read" =>
                  /\ list'[q].rows = list[q].rows
                  /\ \A d \in CardCol : d # c => (d \in list'[q].outdated <=> d \in list[q].outdated)
                  /\ ~has => c \in list'[q].outdated
  <2>0. list[q] \in ListJob
    BY DEF CardTypes
  <2>1. CASE list[q].kind = "read"
    <3>1. list[q] \in ListRead
      BY <2>0, <2>1, ListJobFacts
    <3>2. list'[q] = [list[q] EXCEPT !.outdated = Told(list[q].outdated)]
      BY <1>1, <2>1
    <3>3. Told(list[q].outdated) \in SUBSET CardCol
      BY <1>2, <3>1 DEF ListRead
    <3>4. /\ list'[q] \in ListRead /\ list'[q].kind = "read" /\ list'[q].rows = list[q].rows
          /\ list'[q].outdated = Told(list[q].outdated) /\ list[q].outdated \in SUBSET CardCol
      BY <3>1, <3>2, <3>3 DEF ListRead
    <3> QED BY <1>2, <2>1, <3>4 DEF ListJob
  <2>2. CASE list[q].kind # "read"
    BY <1>1, <2>0, <2>2
  <2> QED BY <2>1, <2>2
<1>5. list' \in [CardList -> ListJob]
  BY <1>1, <1>4
<1> QED BY <1>3, <1>4, <1>5

LEMMA RecountedListings ==
  ASSUME CardsIInv, NEW c \in CardCol, NEW has \in BOOLEAN, NEW told \in SUBSET Card,
         Library!Recount(c, has, told), picker' = picker,
         has => Library!Member(c)',
         \A d \in CardCol : d # c /\ Library!Member(d) => Library!Member(d)'
  PROVE  ListingsKnown'
<1>1. CardTypes /\ ListingsKnown
  BY DEF CardsIInv
<1>2. ASSUME NEW d \in CardCol, NEW k \in Card, Names(picker'[k][d], d, trashed'[k])
      PROVE  Library!Member(d)'
  <2>1. CASE d # c
    <3>1. Names(picker[k][d], d, trashed[k])
      BY <1>1, <1>2, <2>1, Recounted DEF Names
    <3> QED BY <1>1, <2>1, <3>1 DEF ListingsKnown
  <2>2. CASE d = c
    <3>1. has
      BY <1>1, <1>2, <2>2, Recounted DEF Names
    <3> QED BY <2>2, <3>1
  <2> QED BY <2>1, <2>2
<1>3. ASSUME NEW d \in CardCol, NEW q \in CardList, list'[q].kind = "read",
             Names(list'[q].rows[d], d, list'[q].outdated)
      PROVE  Library!Member(d)'
  <2>0. list[q].kind = "read" /\ list'[q].rows = list[q].rows
    BY <1>1, <1>3, Recounted
  <2>1. CASE d # c
    <3>1. Names(list[q].rows[d], d, list[q].outdated)
      BY <1>1, <1>3, <2>0, <2>1, Recounted DEF Names
    <3> QED BY <1>1, <2>0, <2>1, <3>1 DEF ListingsKnown
  <2>2. CASE d = c
    <3>1. has
      BY <1>1, <1>3, <2>0, <2>2, Recounted DEF Names
    <3> QED BY <2>2, <3>1
  <2> QED BY <2>1, <2>2
<1> QED BY <1>2, <1>3 DEF ListingsKnown, Names

\* What carrying out a change of a collection does.
LEMMA CollectRuns ==
  ASSUME CardsIInv, NEW r \in CollectJob, NEW told \in SUBSET Card,
         Library!ExecuteCollect(r, told), picker' = picker
  PROVE  /\ UNCHANGED <<liked, astray, drifted>>
         /\ col' \in [CardCol -> Library!StoredCollection \cup {None}]
         /\ excused' \in [Card -> SUBSET CardCol] /\ trashed' \in [Card -> SUBSET CardCol]
         /\ list' \in [CardList -> ListJob]
         /\ \A d \in CardCol : col[d] = None => col'[d] = None
         /\ \A d \in CardCol : d # r.col /\ Library!Member(d) => Library!Member(d)'
         /\ \A k \in Card, d \in CardCol : d # r.col => (d \in excused'[k] <=> d \in excused[k])
         /\ ~Library!Accepted(r) => col' = col /\ excused' = excused
         /\ Library!Accepted(r) /\ r.next => Library!Member(r.col)'
         /\ Library!Accepted(r) /\ ~r.next => \A k \in Card : k \notin told => r.col \in excused'[k]
         /\ ListingsKnown'
<1> DEFINE c == r.col
<1>t. CardTypes
  BY DEF CardsIInv
<1>0. c \in CardCol /\ r.next \in BOOLEAN
  BY DEF CollectJob
<1>u. UNCHANGED <<liked, astray, drifted>>
  BY DEF Library!ExecuteCollect, Library!likes
<1>1. CASE ~Library!Accepted(r)
  <2>1. UNCHANGED <<col, list, excused, trashed>>
    BY <1>1 DEF Library!ExecuteCollect
  <2>2. ListingsKnown'
    BY <2>1, ListingsStay DEF CardsIInv, Library!Member
  <2> QED BY <1>t, <1>u, <1>1, <2>1, <2>2 DEF CardTypes, Library!Member
<1>2. CASE Library!Accepted(r)
  <2>1. /\ col' = IF r.next THEN Library!WithQuote(c, CardQuote) ELSE Library!WithoutQuote(c)
        /\ Library!Recount(c, r.next, told)
    BY <1>2 DEF Library!ExecuteCollect
  <2>2. col[c] # None /\ col[c] \in Seq(Quotes)
    BY <1>t, <1>0, <1>2 DEF CardTypes, Library!Accepted, Library!StoredCollection, Quotes
  <2> DEFINE s == IF r.next THEN Library!Appended(CardQuote, col[c]) ELSE Library!Dropped(CardQuote, col[c])
  <2>3. s \in Seq(Quotes) /\ (r.next => CardQuote \in Library!ToSet(s))
    BY <2>2, AppendedFacts, DroppedSeq DEF Quotes
  <2>4. col' = [col EXCEPT ![c] = s]
    <3>1. CASE r.next
      BY <2>1, <3>1 DEF Library!WithQuote
    <3>2. CASE ~r.next
      BY <2>1, <3>2 DEF Library!WithoutQuote
    <3> QED BY <3>1, <3>2
  <2> HIDE DEF s
  <2>5. /\ col' \in [CardCol -> Library!StoredCollection \cup {None}]
        /\ col'[c] = s /\ s # None /\ \A d \in CardCol : d # c => col'[d] = col[d]
    BY <1>t, <1>0, <2>3, <2>4, LibraryFacts DEF CardTypes, Library!StoredCollection, Quotes
  <2>6. /\ r.next => Library!Member(c)'
        /\ \A d \in CardCol : d # c /\ Library!Member(d) => Library!Member(d)'
    BY <2>3, <2>5 DEF Library!Member
  <2>7. ListingsKnown'
    BY <1>0, <2>1, <2>6, RecountedListings
  <2>8. \A d \in CardCol : col[d] = None => col'[d] = None
    BY <2>2, <2>5
  <2> HIDE DEF c
  <2>9. /\ excused' \in [Card -> SUBSET CardCol] /\ trashed' \in [Card -> SUBSET CardCol]
        /\ list' \in [CardList -> ListJob]
        /\ \A k \in Card, d \in CardCol : d # c => (d \in excused'[k] <=> d \in excused[k])
        /\ ~r.next => \A k \in Card : k \notin told => c \in excused'[k]
    BY <1>t, <1>0, <2>1, Recounted
  <2> QED BY <1>u, <1>2, <2>5, <2>6, <2>7, <2>8, <2>9 DEF c
<1> QED BY <1>1, <1>2

LEMMA LikeServes ==
  ASSUME CardsIInv, NEW j \in Library!Call, Library!ServeLike(j)
  PROVE  CardsIInv'
<1> DEFINE k == j[1]
           ok == public \/ ~job[j].next
<1>k. k \in Card /\ (j = T(k) \/ j = C(k))
  BY CallFacts
<1>t. CardTypes
  BY DEF CardsIInv
<1>0. job[j].kind = "like" /\ job[j].stage = "sent" /\ j = T(k)
  <2>1. job[j].kind = "like" /\ job[j].stage = "sent"
    BY DEF Library!ServeLike, Library!ExecuteLike, Library!Sent
  <2> QED BY <1>k, <2>1 DEF CardsIInv, ButtonKept
<1>1. /\ liked' = IF ok THEN job[j].next ELSE liked
      /\ job' = [job EXCEPT ![j].stage = IF ok THEN "ok" ELSE "refused"]
      /\ astray' = IF ~ok THEN astray ELSE IF liked = job[j].next THEN astray \ {k} ELSE Card \ {k}
      /\ drifted' = IF ~ok THEN drifted
                    ELSE drifted \cup (IF liked = job[j].next THEN {k} ELSE Card \ {k})
      /\ UNCHANGED <<others, public, col, shown, picker, overrides, list, leaving, excused, trashed, faults>>
  BY DEF Library!ServeLike, Library!ExecuteLike, Library!Allowed, Library!Decided, Library!routed, Library!likes
<1>2. job[j].next \in BOOLEAN /\ job[j].next = ~shown[k].liked
  <2>1. job[j] \in LikeJob
    BY <1>t, <1>0, CardJobFacts DEF CardTypes
  <2> QED BY <1>k, <1>0, <2>1 DEF LikeJob, CardsIInv, LikeKnown
<1>3. /\ job' \in [Library!Call -> CardJob] /\ job'[j].kind = "like" /\ job'[j].next = job[j].next
      /\ job'[j].stage = IF ok THEN "ok" ELSE "refused"
      /\ \A i \in Library!Call : i # j => job'[i] = job[i]
  <2>1. (IF ok THEN "ok" ELSE "refused") \in Stage
    BY DEF Stage
  <2> QED BY <1>t, <1>0, <1>1, <2>1, StageSet
<1> HIDE DEF ok, k
<1>4. CardTypes'
  <2>1. liked' \in BOOLEAN
    BY <1>t, <1>1, <1>2 DEF CardTypes
  <2>2. astray' \subseteq drifted' /\ drifted' \subseteq Card
    BY <1>t, <1>k, <1>1 DEF CardTypes
  <2> QED BY <1>t, <1>1, <1>3, <2>1, <2>2 DEF CardTypes
<1>b. ASSUME NEW l \in Card PROVE ButtonKept(l)'
  <2>1. T(l) \in Library!Call /\ C(l) \in Library!Call
    BY CallFacts
  <2> QED BY <1>0, <1>3, <2>1, ButtonsAnswered DEF CardsIInv
<1>5. ASSUME NEW l \in Card, l # k PROVE LikeKnown(l)'
  <2>0. job'[T(l)] = job[T(l)]
    BY <1>k, <1>0, <1>3, <1>5, CallFacts
  <2>1. CASE ~ok \/ liked = job[j].next
    <3>1. liked' = liked /\ (l \in astray => l \in astray') /\ (l \in drifted => l \in drifted')
      BY <1>1, <1>5, <2>1
    <3> QED BY <1>1, <2>0, <3>1, LikesStay DEF CardsIInv
  <2>2. CASE ok /\ liked # job[j].next
    <3>1. l \in astray' /\ l \in drifted'
      BY <1>1, <1>5, <2>2
    <3> QED BY <1>1, <2>0, <3>1 DEF CardsIInv, LikeKnown
  <2> QED BY <2>1, <2>2
<1>6. LikeKnown(k)'
  <2>0. job'[T(k)].next = ~shown'[k].liked
    BY <1>0, <1>1, <1>2, <1>3
  <2>k. LikeKnown(k) /\ ~LikeServed(k)
    BY <1>k, <1>0 DEF CardsIInv, LikeServed
  <2>1. CASE ~ok
    <3>1. ~LikeServed(k)' /\ Library!Likes' = Library!Likes /\ UNCHANGED <<liked, astray, drifted, shown>>
      BY <1>0, <1>1, <1>3, <2>1 DEF LikeServed, Library!Likes
    <3> QED BY <2>0, <2>k, <3>1 DEF LikeKnown
  <2>2. CASE ok /\ liked = job[j].next
    <3>1. LikeServed(k)' /\ liked' = job'[T(k)].next /\ k \in drifted'
      BY <1>0, <1>1, <1>3, <2>2 DEF LikeServed
    <3> QED BY <2>0, <3>1 DEF LikeKnown
  <2>3. CASE ok /\ liked # job[j].next
    <3>1. LikeServed(k)' /\ liked' = job'[T(k)].next /\ (k \in drifted' => k \in drifted)
      BY <1>0, <1>1, <1>3, <2>3 DEF LikeServed
    <3>2. ASSUME k \notin drifted
          PROVE  Library!Likes' = IF job'[T(k)].next THEN shown'[k].count + 1 ELSE shown'[k].count - 1
      <4>1. Library!Likes = shown[k].count /\ others \in Nat
        BY <1>t, <2>k, <3>2 DEF LikeKnown, CardTypes
      <4>2. CASE job[j].next
        <5>1. liked = FALSE /\ liked' = TRUE
          BY <1>t, <1>1, <1>2, <2>3, <4>2 DEF CardTypes
        <5> QED BY <1>0, <1>1, <1>3, <4>1, <4>2, <5>1 DEF Library!Likes
      <4>3. CASE ~job[j].next
        <5>1. liked = TRUE /\ liked' = FALSE
          BY <1>t, <1>1, <1>2, <2>3, <4>3 DEF CardTypes
        <5> QED BY <1>0, <1>1, <1>3, <4>1, <4>3, <5>1 DEF Library!Likes
      <4> QED BY <4>2, <4>3
    <3> QED BY <1>1, <2>0, <2>3, <3>1, <3>2 DEF LikeKnown
  <2> QED BY <2>1, <2>2, <2>3
<1>7. ASSUME NEW l \in Card, NEW c \in CardCol PROVE MemberKnown(l, c)'
  <2>1. \A i \in Library!Call, b \in BOOLEAN : Library!Carries(i, c, b)' <=> Library!Carries(i, c, b)
    BY <1>0, <1>3 DEF Library!Carries, Library!About
  <2>2. T(l) \in Library!Call /\ C(l) \in Library!Call
    BY CallFacts
  <2> QED BY <1>1, <2>1, <2>2, MembersStay DEF CardsIInv, Claims, Retracts, Library!Member
<1>8. ListingsKnown'
  BY <1>1, ListingsStay DEF CardsIInv, Library!Member
<1>9. CreatesNew'
  BY <1>0, <1>1, <1>3, CreatesStay DEF CardsIInv, Creates
<1> QED BY <1>4, <1>b, <1>5, <1>6, <1>7, <1>8, <1>9 DEF CardsIInv

LEMMA CollectServes ==
  ASSUME CardsIInv, NEW j \in Library!Call, Library!ServeCollect(j)
  PROVE  CardsIInv'
<1> DEFINE k == j[1]
<1> SUFFICES ASSUME NEW r, r = job[j], NEW c, c = r.col, NEW ok \in BOOLEAN, ok <=> Library!Accepted(r),
                    NEW told \in SUBSET Card,
                    told = IF Library!Carries(C(k), c, TRUE) THEN {} ELSE {k}
             PROVE  CardsIInv'
  <2>1. (IF Library!Carries(C(k), job[j].col, TRUE) THEN {} ELSE {k}) \in SUBSET Card
    BY CallFacts
  <2>2. Library!Accepted(job[j]) \in BOOLEAN
    BY DEF Library!Accepted
  <2> QED BY <2>1, <2>2
<1>t. CardTypes
  BY DEF CardsIInv
<1>k. k \in Card /\ (j = T(k) \/ j = C(k)) /\ ButtonKept(k)
  BY CallFacts DEF CardsIInv
<1>1. /\ job[j].kind = "collect" /\ job[j].stage = "sent"
      /\ Library!ExecuteCollect(r, told)
      /\ job' = [job EXCEPT ![j].stage = IF ok THEN "ok" ELSE "refused"]
      /\ UNCHANGED <<others, public, shown, picker, overrides, leaving, faults>>
  BY DEF Library!ServeCollect, Library!ExecuteCollect, Library!Sent, Library!Decided, Library!routed, C
<1>2. r \in CollectJob /\ r.col = c /\ c \in CardCol /\ job[j].next \in BOOLEAN
  <2>1. job[j] \in CollectJob
    BY <1>t, <1>1, CardJobFacts DEF CardTypes
  <2> QED BY <2>1 DEF CollectJob
<1>3. /\ job' \in [Library!Call -> CardJob] /\ job'[j].kind = "collect" /\ job'[j].next = job[j].next
      /\ job'[j].stage = (IF ok THEN "ok" ELSE "refused") /\ job'[j].col = c
      /\ \A i \in Library!Call : i # j => job'[i] = job[i]
  <2>1. (IF ok THEN "ok" ELSE "refused") \in Stage
    BY DEF Stage
  <2> QED BY <1>t, <1>1, <2>1, StageSet
<1>4. /\ UNCHANGED <<liked, astray, drifted>>
      /\ col' \in [CardCol -> Library!StoredCollection \cup {None}]
      /\ excused' \in [Card -> SUBSET CardCol] /\ trashed' \in [Card -> SUBSET CardCol]
      /\ list' \in [CardList -> ListJob]
      /\ \A d \in CardCol : col[d] = None => col'[d] = None
      /\ \A d \in CardCol : d # c /\ Library!Member(d) => Library!Member(d)'
      /\ \A l \in Card, d \in CardCol : d # c => (d \in excused'[l] <=> d \in excused[l])
      /\ ~ok => col' = col /\ excused' = excused
      /\ ok /\ r.next => Library!Member(c)'
      /\ ok /\ ~r.next => \A l \in Card : l \notin told => c \in excused'[l]
      /\ ListingsKnown'
  <2>1. picker' = picker /\ Library!ExecuteCollect(r, told) /\ r \in CollectJob
    BY <1>1, <1>2
  <2> QED BY <2>1, CollectRuns
<1>5. ok /\ ~job[j].next => j = T(k)
  BY <1>k, <1>1 DEF ButtonKept
<1>6. told = {} \/ (told = {k} /\ ~Library!Carries(C(k), c, TRUE))
  OBVIOUS
<1> HIDE DEF k
<1>7. CardTypes'
  BY <1>t, <1>1, <1>3, <1>4 DEF CardTypes
<1>8. ASSUME NEW l \in Card PROVE LikeKnown(l)' /\ ButtonKept(l)'
  <2>1. T(l) \in Library!Call /\ C(l) \in Library!Call
    BY CallFacts
  <2>2. job'[T(l)] = job[T(l)] \/ (job[T(l)].kind # "like" /\ job'[T(l)].kind # "like")
    BY <1>1, <1>3, <2>1
  <2> QED BY <1>1, <1>3, <1>4, <2>1, <2>2, LikesUntouched, ButtonsAnswered DEF CardsIInv
<1>9. ASSUME NEW l \in Card, NEW d \in CardCol PROVE MemberKnown(l, d)'
  <2>0. T(l) \in Library!Call /\ C(l) \in Library!Call /\ MemberKnown(l, d)
    BY CallFacts DEF CardsIInv
  <2>1. \A i \in Library!Call : i # j => \A b \in BOOLEAN : Library!Carries(i, d, b)' <=> Library!Carries(i, d, b)
    BY <1>3 DEF Library!Carries, Library!About
  <2>2. \A b \in BOOLEAN : ~Library!Carries(j, d, b) /\ (Library!Carries(j, d, b)' <=> d = c /\ ok /\ job[j].next = b)
    BY <1>1, <1>3 DEF Library!Carries, Library!About
  <2>3. CASE d # c \/ ~ok
    <3>1. \A i \in Library!Call, b \in BOOLEAN : Library!Carries(i, d, b)' <=> Library!Carries(i, d, b)
      BY <2>1, <2>2, <2>3
    <3>2. (d \in excused'[l] <=> d \in excused[l]) /\ (Library!Member(d) => Library!Member(d)')
      BY <1>4, <2>3 DEF Library!Member
    <3> QED BY <1>1, <2>0, <3>1, <3>2, MembersStay DEF Claims, Retracts
  <2>4. CASE d = c /\ ok /\ job[j].next
    BY <1>4, <2>4 DEF MemberKnown
  <2>5. CASE d = c /\ ok /\ ~job[j].next
    <3>1. CASE l \notin told
      BY <1>4, <2>5, <3>1 DEF MemberKnown
    <3>2. CASE l \in told
      <4>1. l = k /\ ~Library!Carries(C(l), d, TRUE) /\ j = T(l)
        BY <1>5, <1>6, <2>5, <3>2
      <4>2. C(l) # j
        BY <4>1, CallFacts
      <4>3. Library!Carries(T(l), d, FALSE)' /\ ~Library!Carries(C(l), d, TRUE)'
        BY <1>2, <2>0, <2>1, <2>2, <2>5, <4>1, <4>2
      <4> QED BY <4>3 DEF MemberKnown, Retracts
    <3> QED BY <3>1, <3>2
  <2> QED BY <1>2, <2>3, <2>4, <2>5
<1>10. CreatesNew'
  BY <1>1, <1>3, <1>4, CreatesStay DEF CardsIInv, Creates
<1> QED BY <1>4, <1>7, <1>8, <1>9, <1>10 DEF CardsIInv

\* The quotes a collection starts with.
LEMMA CollectionCreated ==
  ASSUME CardsIInv, NEW r \in Asked, r.kind = "create", col[r.col] = None, Library!ExecuteCreate(r)
  PROVE  /\ UNCHANGED <<liked, list, astray, drifted, excused, trashed>>
         /\ r.col \in CardCol /\ col' \in [CardCol -> Library!StoredCollection \cup {None}]
         /\ \A d \in CardCol : d # r.col => col'[d] = col[d]
         /\ \A d \in CardCol : Library!Member(d) => Library!Member(d)'
<1>1. r.col \in CardCol
  BY DEF Asked, LikeJob, CollectJob, CreateJob
<1>2. /\ col' = [col EXCEPT ![r.col] = <<>>]
      /\ UNCHANGED <<liked, list, astray, drifted, excused, trashed>>
  BY DEF Library!ExecuteCreate, Library!likes
<1>3. <<>> \in Library!StoredCollection
  BY DEF Library!StoredCollection
<1>4. /\ col' \in [CardCol -> Library!StoredCollection \cup {None}]
      /\ \A d \in CardCol : d # r.col => col'[d] = col[d]
  BY <1>1, <1>2, <1>3 DEF CardsIInv, CardTypes
<1>5. \A d \in CardCol : Library!Member(d) => Library!Member(d)'
  BY <1>4 DEF Library!Member
<1> QED BY <1>1, <1>2, <1>4, <1>5

LEMMA CreateServes ==
  ASSUME CardsIInv, NEW j \in Library!Call, Library!ServeCreate(j)
  PROVE  CardsIInv'
<1> SUFFICES ASSUME NEW r, r = job[j], NEW c, c = job[j].col PROVE CardsIInv'
  OBVIOUS
<1>t. CardTypes /\ CreatesNew
  BY DEF CardsIInv
<1>1. /\ r.kind = "create" /\ r.stage = "sent" /\ Library!ExecuteCreate(r)
      /\ job' = [job EXCEPT ![j].kind = "collect"]
      /\ UNCHANGED <<others, public, shown, picker, overrides, leaving, faults>>
  BY DEF Library!ServeCreate, Library!ExecuteCreate, Library!Sent, Library!routed
<1>2. r \in CreateJob /\ r \in Asked /\ c \in CardCol
  <2>1. r \in CreateJob
    BY <1>t, <1>1, CardJobFacts DEF CardTypes
  <2> QED BY <2>1 DEF CreateJob, Asked
<1>3. /\ job' \in [Library!Call -> CardJob] /\ job'[j].kind = "collect" /\ job'[j].next = TRUE
      /\ job'[j].stage = "sent"
      /\ \A i \in Library!Call : i # j => job'[i] = job[i]
  <2>1. job'[j] = [job[j] EXCEPT !.kind = "collect"]
    BY <1>t, <1>1 DEF CardTypes
  <2>2. job'[j] \in CollectJob /\ job'[j].kind = "collect" /\ job'[j].next = TRUE /\ job'[j].stage = "sent"
    BY <1>2, <2>1 DEF CreateJob, CollectJob, Stage
  <2> QED BY <1>t, <1>1, <2>2 DEF CardTypes, CardJob, Asked
<1>4. /\ col[c] = None /\ (\A i \in Library!Call : Creates(job[i], c) => i = j)
      /\ (\A s \in leaving : ~Creates(s, c))
  BY <1>t, <1>1, <1>2 DEF CreatesNew, Creates
<1>5. /\ UNCHANGED <<liked, list, astray, drifted, excused, trashed>>
      /\ col' \in [CardCol -> Library!StoredCollection \cup {None}]
      /\ \A d \in CardCol : d # c => col'[d] = col[d]
      /\ \A d \in CardCol : Library!Member(d) => Library!Member(d)'
  BY <1>1, <1>2, <1>4, CollectionCreated
<1>6. CardTypes'
  BY <1>t, <1>1, <1>3, <1>5 DEF CardTypes
<1>7. ASSUME NEW l \in Card PROVE LikeKnown(l)' /\ ButtonKept(l)'
  <2>1. T(l) \in Library!Call /\ C(l) \in Library!Call /\ ButtonKept(l)
    BY CallFacts DEF CardsIInv
  <2>2. job[T(l)].kind # "create"
    BY <2>1 DEF ButtonKept
  <2>3. T(l) # j
    BY <1>1, <2>2
  <2>4. job'[T(l)] = job[T(l)]
    BY <1>3, <2>1, <2>3
  <2>5. ButtonKept(l)'
    BY <1>3, <2>1, <2>4 DEF ButtonKept
  <2> QED BY <1>1, <1>5, <2>4, <2>5, LikesUntouched DEF CardsIInv
<1>8. ASSUME NEW l \in Card, NEW d \in CardCol PROVE MemberKnown(l, d)'
  <2>1. \A i \in Library!Call, b \in BOOLEAN : Library!Carries(i, d, b)' <=> Library!Carries(i, d, b)
    BY <1>1, <1>3 DEF Library!Carries, Library!About
  <2>2. T(l) \in Library!Call /\ C(l) \in Library!Call
    BY CallFacts
  <2> QED BY <1>1, <1>5, <2>1, <2>2, MembersStay DEF CardsIInv, Claims, Retracts
<1>9. ListingsKnown'
  BY <1>1, <1>5, ListingsStay DEF CardsIInv
<1>10. CreatesNew'
  <2>1. \A i \in Library!Call, d \in CardCol : Creates(job'[i], d) => Creates(job[i], d) /\ d # c
    BY <1>3, <1>4 DEF Creates
  <2>2. \A s \in leaving', d \in CardCol : Creates(s, d) => s \in leaving /\ d # c
    BY <1>1, <1>4
  <2> QED BY <1>t, <1>1, <1>5, <2>1, <2>2 DEF CreatesNew
<1> QED BY <1>6, <1>7, <1>8, <1>9, <1>10 DEF CardsIInv

LEMMA LateServes ==
  ASSUME CardsIInv, NEW r \in leaving, Library!ServeLate(r)
  PROVE  CardsIInv'
<1>t. CardTypes /\ CreatesNew
  BY DEF CardsIInv
<1>0. /\ leaving' = leaving \ {r}
      /\ UNCHANGED <<others, public, shown, picker, overrides, faults, job>>
      /\ leaving' \in SUBSET {s \in Asked : s.stage = "sent"}
      /\ r \in Asked /\ r.stage = "sent"
  BY <1>t DEF Library!ServeLate, Library!routed, CardTypes
<1>1. ASSUME Library!ExecuteLike(r, {}) PROVE CardsIInv'
  <2>1. /\ r.kind = "like"
        /\ UNCHANGED <<col, list, excused, trashed>>
        /\ \/ /\ liked' = r.next
              /\ astray' = IF liked # r.next THEN Card ELSE astray
              /\ drifted' = IF liked # r.next THEN Card ELSE drifted
           \/ UNCHANGED <<liked, astray, drifted>>
    BY <1>1, <1>t DEF Library!ExecuteLike, Library!likes, CardTypes
  <2>2. r.next \in BOOLEAN
    BY <1>0 DEF Asked, LikeJob, CollectJob, CreateJob
  <2>3. /\ liked' \in BOOLEAN /\ astray' \subseteq drifted' /\ drifted' \subseteq Card
        /\ \/ astray' = Card /\ drifted' = Card
           \/ UNCHANGED <<liked, astray, drifted>>
    BY <1>t, <2>1, <2>2 DEF CardTypes
  <2>4. CardTypes'
    BY <1>t, <1>0, <2>1, <2>3 DEF CardTypes
  <2>5. ASSUME NEW l \in Card PROVE LikeKnown(l)' /\ ButtonKept(l)'
    <3>1. ButtonKept(l)'
      BY <1>0, ButtonsStay DEF CardsIInv
    <3>2. CASE astray' = Card /\ drifted' = Card
      BY <1>0, <3>1, <3>2 DEF CardsIInv, LikeKnown
    <3>3. CASE UNCHANGED <<liked, astray, drifted>>
      BY <1>0, <3>1, <3>3, LikesUntouched DEF CardsIInv
    <3> QED BY <2>3, <3>2, <3>3
  <2>6. \A l \in Card, d \in CardCol : MemberKnown(l, d)'
    BY <1>0, <2>1, SameMembers DEF CardsIInv
  <2>7. ListingsKnown'
    BY <1>0, <2>1, ListingsStay DEF CardsIInv, Library!Member
  <2>8. CreatesNew'
    BY <1>0, <2>1, CreatesStay DEF CardsIInv
  <2> QED BY <2>4, <2>5, <2>6, <2>7, <2>8 DEF CardsIInv
<1>2. ASSUME Library!ExecuteCollect(r, {}) PROVE CardsIInv'
  <2>1. r \in CollectJob /\ r.col \in CardCol /\ r.next \in BOOLEAN
    <3>1. r.kind = "collect"
      BY <1>2 DEF Library!ExecuteCollect
    <3> QED BY <1>0, <3>1 DEF Asked, LikeJob, CollectJob, CreateJob
  <2>2. /\ UNCHANGED <<liked, astray, drifted>>
        /\ col' \in [CardCol -> Library!StoredCollection \cup {None}]
        /\ excused' \in [Card -> SUBSET CardCol] /\ trashed' \in [Card -> SUBSET CardCol]
        /\ list' \in [CardList -> ListJob]
        /\ \A d \in CardCol : col[d] = None => col'[d] = None
        /\ \A d \in CardCol : d # r.col /\ Library!Member(d) => Library!Member(d)'
        /\ \A l \in Card, d \in CardCol : d # r.col => (d \in excused'[l] <=> d \in excused[l])
        /\ ~Library!Accepted(r) => col' = col /\ excused' = excused
        /\ Library!Accepted(r) /\ r.next => Library!Member(r.col)'
        /\ Library!Accepted(r) /\ ~r.next => \A l \in Card : r.col \in excused'[l]
        /\ ListingsKnown'
    BY <1>0, <1>2, <2>1, CollectRuns
  <2>3. CardTypes'
    BY <1>t, <1>0, <2>2 DEF CardTypes
  <2>4. \A l \in Card : LikeKnown(l)' /\ ButtonKept(l)'
    BY <1>0, <2>2, LikesUntouched, ButtonsStay DEF CardsIInv
  <2>5. ASSUME NEW l \in Card, NEW d \in CardCol PROVE MemberKnown(l, d)'
    <3>0. MemberKnown(l, d) /\ (Claims(l, d)' <=> Claims(l, d)) /\ (Retracts(l, d)' <=> Retracts(l, d))
      BY <1>0 DEF CardsIInv, Claims, Retracts, Library!Carries
    <3>1. CASE d # r.col \/ ~Library!Accepted(r)
      <4>1. (d \in excused'[l] <=> d \in excused[l]) /\ (Library!Member(d) => Library!Member(d)')
        BY <2>2, <3>1 DEF Library!Member
      <4> QED BY <3>0, <4>1, MembersStay
    <3>2. CASE d = r.col /\ Library!Accepted(r)
      <4>1. Library!Member(d)' \/ d \in excused'[l]
        BY <2>1, <2>2, <3>2
      <4> QED BY <4>1 DEF MemberKnown
    <3> QED BY <3>1, <3>2
  <2>6. CreatesNew'
    BY <1>0, <2>2, CreatesStay DEF CardsIInv
  <2> QED BY <2>2, <2>3, <2>4, <2>5, <2>6 DEF CardsIInv
<1>3. ASSUME Library!ExecuteCreate(r) PROVE CardsIInv'
  <2>0. r.kind = "create" /\ r \in CreateJob /\ r.col \in CardCol
    <3>1. r.kind = "create"
      BY <1>3 DEF Library!ExecuteCreate
    <3> QED BY <1>0, <3>1 DEF Asked, LikeJob, CollectJob, CreateJob
  <2>1. /\ col[r.col] = None /\ (\A i \in Library!Call : ~Creates(job[i], r.col))
        /\ (\A s \in leaving : Creates(s, r.col) => s = r)
    <3>1. \A s \in leaving : Creates(s, r.col) => s = r
      <4>1. ASSUME NEW s \in leaving, Creates(s, r.col) PROVE s = r
        <5>1. s \in Asked /\ s.kind = "create" /\ s.col = r.col
          BY <1>t, <4>1 DEF CardTypes, Creates
        <5>2. s \in CreateJob
          BY <5>1 DEF Asked, LikeJob, CollectJob, CreateJob
        <5>3. s = [kind |-> "create", col |-> r.col, next |-> TRUE, stage |-> "sent"]
          BY <5>1, <5>2 DEF CreateJob
        <5>4. r = [kind |-> "create", col |-> r.col, next |-> TRUE, stage |-> "sent"]
          BY <2>0 DEF CreateJob
        <5> QED BY <5>3, <5>4
      <4> QED BY <4>1
    <3> QED BY <1>t, <2>0, <3>1 DEF CreatesNew, Creates
  <2>2. /\ UNCHANGED <<liked, list, astray, drifted, excused, trashed>>
        /\ col' \in [CardCol -> Library!StoredCollection \cup {None}]
        /\ \A d \in CardCol : d # r.col => col'[d] = col[d]
        /\ \A d \in CardCol : Library!Member(d) => Library!Member(d)'
    BY <1>0, <1>3, <2>0, <2>1, CollectionCreated
  <2>3. CardTypes'
    BY <1>t, <1>0, <2>2 DEF CardTypes
  <2>4. \A l \in Card : LikeKnown(l)' /\ ButtonKept(l)'
    BY <1>0, <2>2, LikesUntouched, ButtonsStay DEF CardsIInv
  <2>5. ASSUME NEW l \in Card, NEW d \in CardCol PROVE MemberKnown(l, d)'
    <3>1. MemberKnown(l, d) /\ (Claims(l, d)' <=> Claims(l, d)) /\ (Retracts(l, d)' <=> Retracts(l, d))
      BY <1>0 DEF CardsIInv, Claims, Retracts, Library!Carries
    <3> QED BY <2>2, <3>1, MembersStay
  <2>6. ListingsKnown'
    BY <1>0, <2>2, ListingsStay DEF CardsIInv
  <2>7. CreatesNew'
    <3>1. \A i \in Library!Call, d \in CardCol : Creates(job'[i], d) => Creates(job[i], d) /\ d # r.col
      BY <1>0, <2>1
    <3>2. \A s \in leaving', d \in CardCol : Creates(s, d) => s \in leaving /\ d # r.col
      BY <1>0, <2>1
    <3> QED BY <1>t, <1>0, <2>2, <3>1, <3>2 DEF CreatesNew
  <2> QED BY <2>3, <2>4, <2>5, <2>6, <2>7 DEF CardsIInv
<1> QED BY <1>1, <1>2, <1>3 DEF Library!ServeLate

LEMMA LikeAnswers ==
  ASSUME CardsIInv, NEW j \in Library!Call, Library!AnswerLike(j)
  PROVE  CardsIInv'
<1> DEFINE k == j[1]
           now == Library!LikeAnswered(shown[k], job[j].next, job[j].stage = "ok")
<1>k. k \in Card /\ (j = T(k) \/ j = C(k))
  BY CallFacts
<1>1. /\ job[j].kind = "like" /\ job[j].stage # "sent"
      /\ shown' = [shown EXCEPT ![k] = now]
      /\ job' = [job EXCEPT ![j] = Library!Idle]
      /\ UNCHANGED <<liked, others, public, col, picker, overrides, list, leaving, astray, drifted, excused,
                     trashed, faults>>
  BY DEF Library!AnswerLike, Library!Answered, Library!stored, Library!history, Library!likes
<1>t. CardTypes
  BY DEF CardsIInv
<1>0. j = T(k)
  BY <1>k, <1>1 DEF CardsIInv, ButtonKept
<1>2. job[j].next \in BOOLEAN /\ shown[k] \in [liked : BOOLEAN, count : Nat]
  <2>1. job[j] \in LikeJob
    BY <1>t, <1>1, CardJobFacts DEF CardTypes
  <2> QED BY <1>t, <1>k, <2>1 DEF LikeJob, CardTypes
<1>3. /\ now \in [liked : BOOLEAN, count : Nat]
      /\ ~LikeServed(k) => now = shown[k]
      /\ LikeServed(k) => /\ now.liked = job[j].next
                          /\ job[j].next => now.count = shown[k].count + 1
                          /\ ~job[j].next /\ shown[k].count # 0 => now.count = shown[k].count - 1
  <2>1. CASE ~LikeServed(k)
    BY <1>0, <1>1, <1>2, <2>1 DEF LikeServed, Library!LikeAnswered
  <2>2. CASE LikeServed(k)
    <3> DEFINE n == IF job[j].next THEN shown[k].count + 1
                    ELSE IF shown[k].count = 0 THEN 0 ELSE shown[k].count - 1
    <3>1. now = [liked |-> job[j].next, count |-> n]
      BY <1>0, <2>2 DEF LikeServed, Library!LikeAnswered
    <3>2. n \in Nat
      BY <1>2
    <3> HIDE DEF now
    <3> QED BY <1>2, <2>2, <3>1, <3>2
  <2> QED BY <2>1, <2>2
<1> HIDE DEF now, k
<1>4. /\ job' \in [Library!Call -> CardJob] /\ job'[j].kind = "idle"
      /\ \A i \in Library!Call : i # j => job'[i] = job[i]
  BY <1>t, <1>1, JobDone
<1>5. CardTypes'
  <2>1. shown' \in [Card -> [liked : BOOLEAN, count : Nat]]
    BY <1>t, <1>1, <1>3 DEF CardTypes
  <2> QED BY <1>t, <1>1, <1>4, <2>1 DEF CardTypes
<1>b. ASSUME NEW l \in Card PROVE ButtonKept(l)'
  <2>1. T(l) \in Library!Call /\ C(l) \in Library!Call
    BY CallFacts
  <2> QED BY <1>4, <2>1, ButtonsAnswered DEF CardsIInv
<1>6. ASSUME NEW l \in Card, l # k PROVE LikeKnown(l)'
  <2>0. job'[T(l)] = job[T(l)]
    BY <1>k, <1>0, <1>4, <1>6, CallFacts
  <2>1. shown'[l] = shown[l]
    BY <1>t, <1>1, <1>6 DEF CardTypes
  <2> QED BY <1>1, <2>0, <2>1, LikesStay DEF CardsIInv
<1>7. LikeKnown(k)'
  <2>1. shown'[k] = now /\ ~LikeServed(k)' /\ Library!Likes' = Library!Likes /\ Library!Likes \in Nat
    <3>1. Library!Likes \in Nat
      BY <1>t, LibraryFacts DEF CardTypes, Library!Likes
    <3> QED BY <1>t, <1>k, <1>0, <1>1, <1>4, <3>1 DEF CardTypes, LikeServed, Library!Likes
  <2>2. LikeKnown(k)
    BY <1>k DEF CardsIInv
  <2>3. k \notin astray => liked = now.liked
    BY <1>0, <1>3, <2>2 DEF LikeKnown
  <2>4. k \notin drifted => Library!Likes = now.count
    BY <1>0, <1>2, <1>3, <2>1, <2>2 DEF LikeKnown
  <2> QED BY <1>0, <1>1, <1>4, <2>1, <2>3, <2>4 DEF LikeKnown
<1>8. ASSUME NEW l \in Card, NEW c \in CardCol PROVE MemberKnown(l, c)'
  <2>1. \A i \in Library!Call, b \in BOOLEAN : Library!Carries(i, c, b)' <=> Library!Carries(i, c, b)
    BY <1>1, <1>4 DEF Library!Carries, Library!About
  <2>2. T(l) \in Library!Call /\ C(l) \in Library!Call
    BY CallFacts
  <2> QED BY <1>1, <2>1, <2>2, MembersStay DEF CardsIInv, Claims, Retracts, Library!Member
<1>9. ListingsKnown'
  BY <1>1, ListingsStay DEF CardsIInv, Library!Member
<1>10. CreatesNew'
  BY <1>1, <1>4, CreatesStay DEF CardsIInv, Creates
<1> QED BY <1>5, <1>b, <1>6, <1>7, <1>8, <1>9, <1>10 DEF CardsIInv

LEMMA CollectAnswers ==
  ASSUME CardsIInv, NEW j \in Library!Call, Library!AnswerCollect(j)
  PROVE  CardsIInv'
<1> DEFINE k == j[1]
<1> SUFFICES ASSUME NEW r, r = job[j], NEW c, c = r.col, NEW ok \in BOOLEAN, ok <=> r.stage = "ok"
             PROVE  CardsIInv'
  OBVIOUS
<1>k. k \in Card /\ (j = T(k) \/ j = C(k)) /\ T(k) # C(k) /\ ButtonKept(k)
  BY CallFacts DEF CardsIInv
<1>1. /\ r.kind = "collect" /\ r.stage # "sent"
      /\ overrides' = IF ok THEN [overrides EXCEPT ![k] = Library!Overridden(overrides[k], c, r.next)]
                      ELSE overrides
      /\ picker' = IF ok /\ j[2] = "create" THEN [picker EXCEPT ![k][c] = picker[k][c] \cup {{}}] ELSE picker
      /\ job' = [job EXCEPT ![j] = Library!Idle]
      /\ UNCHANGED <<liked, others, public, col, shown, list, leaving, astray, drifted, excused, trashed, faults>>
  BY DEF Library!AnswerCollect, Library!Answered, Library!stored, Library!history, Library!likes
<1>t. CardTypes
  BY DEF CardsIInv
<1>2. c \in CardCol /\ r.next \in BOOLEAN
  <2>1. r \in CollectJob
    BY <1>t, <1>1, CardJobFacts DEF CardTypes
  <2> QED BY <2>1 DEF CollectJob
<1>3. /\ job' \in [Library!Call -> CardJob] /\ job'[j].kind = "idle"
      /\ \A i \in Library!Call : i # j => job'[i] = job[i]
  BY <1>t, <1>1, JobDone
<1>4. /\ overrides' \in [Card -> SUBSET CardCol]
      /\ \A l \in Card : l # k => overrides'[l] = overrides[l]
      /\ ~ok => overrides'[k] = overrides[k]
      /\ ok => overrides'[k] = IF r.next THEN overrides[k] \cup {c} ELSE overrides[k] \ {c}
  <2>1. CASE ~ok
    BY <1>t, <1>1, <2>1 DEF CardTypes
  <2>2. CASE ok
    <3>1. overrides' = [overrides EXCEPT ![k] = Library!Overridden(overrides[k], c, r.next)]
      BY <1>1, <2>2
    <3>2. Library!Overridden(overrides[k], c, r.next) \in SUBSET CardCol
      BY <1>t, <1>k, <1>2 DEF CardTypes, Library!Overridden
    <3>3. /\ overrides' \in [Card -> SUBSET CardCol]
          /\ overrides'[k] = Library!Overridden(overrides[k], c, r.next)
          /\ \A l \in Card : l # k => overrides'[l] = overrides[l]
      BY <1>t, <1>k, <3>1, <3>2 DEF CardTypes
    <3> QED BY <2>2, <3>3 DEF Library!Overridden
  <2> QED BY <2>1, <2>2
<1>5. /\ picker' \in [Card -> Previews]
      /\ \A l \in Card, d \in CardCol : picker'[l][d] = picker[l][d] \/ picker'[l][d] = picker[l][d] \cup {{}}
  <2>1. CASE picker' = picker
    BY <1>t, <2>1 DEF CardTypes
  <2>2. CASE picker' = [picker EXCEPT ![k][c] = picker[k][c] \cup {{}}]
    <3>1. picker[k] \in Previews /\ picker[k][c] \cup {{}} \in SUBSET (SUBSET Quotes)
      BY <1>t, <1>k, <1>2 DEF CardTypes, Previews
    <3>2. [picker[k] EXCEPT ![c] = picker[k][c] \cup {{}}] \in Previews
      BY <3>1 DEF Previews
    <3>3. /\ picker' \in [Card -> Previews] /\ picker'[k] = [picker[k] EXCEPT ![c] = picker[k][c] \cup {{}}]
          /\ \A l \in Card : l # k => picker'[l] = picker[l]
      BY <1>t, <1>k, <2>2, <3>2 DEF CardTypes
    <3>4. \A d \in CardCol : picker'[k][d] = picker[k][d] \/ picker'[k][d] = picker[k][d] \cup {{}}
      BY <3>1, <3>3 DEF Previews
    <3> QED BY <3>3, <3>4
  <2> QED BY <1>1, <2>1, <2>2
<1> HIDE DEF k
<1>6. CardTypes'
  BY <1>t, <1>1, <1>3, <1>4, <1>5 DEF CardTypes
<1>7. ASSUME NEW l \in Card PROVE LikeKnown(l)' /\ ButtonKept(l)'
  <2>1. T(l) \in Library!Call /\ C(l) \in Library!Call
    BY CallFacts
  <2>2. job'[T(l)] = job[T(l)] \/ (job[T(l)].kind # "like" /\ job'[T(l)].kind # "like")
    BY <1>1, <1>3, <2>1
  <2> QED BY <1>1, <1>3, <2>1, <2>2, LikesUntouched, ButtonsAnswered DEF CardsIInv
<1>8. ASSUME NEW l \in Card, NEW d \in CardCol PROVE MemberKnown(l, d)'
  <2>0. T(l) \in Library!Call /\ C(l) \in Library!Call /\ MemberKnown(l, d)
    BY CallFacts DEF CardsIInv
  <2>1. \A i \in Library!Call : i # j => \A b \in BOOLEAN : Library!Carries(i, d, b)' <=> Library!Carries(i, d, b)
    BY <1>3 DEF Library!Carries, Library!About
  <2>2. \A b \in BOOLEAN : ~Library!Carries(j, d, b)' /\ (Library!Carries(j, d, b) <=> d = c /\ ok /\ r.next = b)
    BY <1>1, <1>3 DEF Library!Carries, Library!About
  <2>3. Library!Member(d) => Library!Member(d)'
    BY <1>1 DEF Library!Member
  <2>4. CASE l # k
    <3>1. T(l) # j /\ C(l) # j
      BY <1>k, <2>4, CallFacts
    <3> QED BY <1>1, <1>3, <1>4, <2>0, <2>4, <3>1, SameMembers
  <2>5. CASE l = k /\ (d # c \/ ~ok)
    <3>1. \A i \in Library!Call, b \in BOOLEAN : Library!Carries(i, d, b)' <=> Library!Carries(i, d, b)
      BY <2>1, <2>2, <2>5
    <3>2. d \in overrides'[l] <=> d \in overrides[l]
      BY <1>4, <2>5
    <3> QED BY <1>1, <2>0, <2>3, <3>1, <3>2, MembersStay DEF Claims, Retracts
  <2>6. CASE l = k /\ d = c /\ ok /\ r.next
    <3>1. Library!Carries(j, d, TRUE) /\ ~Library!Carries(j, d, FALSE)
      BY <2>2, <2>6
    <3>2. Claims(l, d) /\ ~Retracts(l, d)
      BY <1>k, <2>6, <3>1 DEF Claims, Retracts
    <3> QED BY <1>1, <2>0, <2>3, <3>2 DEF MemberKnown
  <2>7. CASE l = k /\ d = c /\ ok /\ ~r.next
    <3>1. j = T(l) /\ C(l) # j
      BY <1>1, <1>k, <2>7 DEF ButtonKept
    <3>2. d \notin overrides'[l] /\ ~Library!Carries(T(l), d, TRUE)'
      BY <1>4, <2>2, <2>7, <3>1
    <3>3. Library!Carries(C(l), d, TRUE)' <=> Library!Carries(C(l), d, TRUE)
      BY <2>0, <2>1, <3>1
    <3>4. Claims(l, d)' => Claims(l, d) /\ ~Retracts(l, d)
      BY <3>2, <3>3 DEF Claims, Retracts
    <3> QED BY <1>1, <2>0, <2>3, <3>4 DEF MemberKnown
  <2> QED BY <1>2, <2>4, <2>5, <2>6, <2>7
<1>9. ListingsKnown'
  <2>1. \A l \in Card, d \in CardCol : Names(picker'[l][d], d, trashed'[l]) => Names(picker[l][d], d, trashed[l])
    BY <1>1, <1>5 DEF Names
  <2> QED BY <1>1, <2>1 DEF CardsIInv, ListingsKnown, Names, Library!Member
<1>10. CreatesNew'
  BY <1>1, <1>3, CreatesStay DEF CardsIInv, Creates
<1> QED BY <1>6, <1>7, <1>8, <1>9, <1>10 DEF CardsIInv

LEMMA AnswerNeverCame ==
  ASSUME CardsIInv, NEW j \in Library!Call, Library!Lost(j)
  PROVE  CardsIInv'
<1> DEFINE k == j[1]
<1> SUFFICES ASSUME NEW r, r = job[j] PROVE CardsIInv'
  OBVIOUS
<1>t. CardTypes /\ CreatesNew
  BY DEF CardsIInv
<1>k. k \in Card /\ (j = T(k) \/ j = C(k)) /\ ButtonKept(k)
  BY CallFacts DEF CardsIInv
<1>1. /\ r # Library!Idle /\ faults < CardFaults /\ faults' = faults + 1
      /\ leaving' = IF r.stage = "sent" THEN leaving \cup {r} ELSE leaving
      /\ IF r.kind = "like" /\ r.stage = "ok"
         THEN astray' = astray \cup {k} /\ drifted' = drifted \cup {k}
         ELSE astray' = astray /\ drifted' = drifted
      /\ excused' = IF \E c \in CardCol : Library!Carries(j, c, FALSE)
                    THEN [excused EXCEPT ![k] = excused[k] \cup {r.col}] ELSE excused
      /\ job' = [job EXCEPT ![j] = Library!Idle]
      /\ UNCHANGED <<liked, others, public, col, shown, picker, overrides, list, trashed>>
  BY DEF Library!Lost, Library!Sent, Library!stored, Library!likes
<1>2. r \in Asked /\ (r.kind = "like" => j = T(k))
  <2>1. r \in Asked
    BY <1>t, <1>1, CardJobFacts DEF CardTypes
  <2> QED BY <1>k, <2>1 DEF ButtonKept
<1>3. /\ job' \in [Library!Call -> CardJob] /\ job'[j].kind = "idle"
      /\ \A i \in Library!Call : i # j => job'[i] = job[i]
  BY <1>t, <1>1, JobDone
<1>4. /\ excused' \in [Card -> SUBSET CardCol]
      /\ \A l \in Card : excused[l] \subseteq excused'[l]
      /\ \A l \in Card : l # k => excused'[l] = excused[l]
      /\ \A c \in CardCol : Library!Carries(j, c, FALSE) => c \in excused'[k]
  <2>1. CASE \E c \in CardCol : Library!Carries(j, c, FALSE)
    <3>1. PICK c \in CardCol : Library!Carries(j, c, FALSE)
      BY <2>1
    <3>2. c = r.col /\ \A d \in CardCol : Library!Carries(j, d, FALSE) => d = c
      BY <3>1 DEF Library!Carries, Library!About
    <3>3. excused' = [excused EXCEPT ![k] = excused[k] \cup {c}]
      BY <1>1, <2>1, <3>2
    <3> QED BY <1>t, <1>k, <3>2, <3>3 DEF CardTypes
  <2>2. CASE ~\E c \in CardCol : Library!Carries(j, c, FALSE)
    BY <1>t, <1>1, <2>2 DEF CardTypes
  <2> QED BY <2>1, <2>2
<1>5. leaving' \in SUBSET {s \in Asked : s.stage = "sent"}
  BY <1>t, <1>1, <1>2 DEF CardTypes
<1> HIDE DEF k
<1>6. CardTypes'
  <2>1. faults' \in 0..CardFaults
    BY <1>t, <1>1, LibraryFacts DEF CardTypes
  <2>2. astray' \subseteq drifted' /\ drifted' \subseteq Card
    BY <1>t, <1>k, <1>1 DEF CardTypes
  <2> QED BY <1>t, <1>1, <1>3, <1>4, <1>5, <2>1, <2>2 DEF CardTypes
<1>7. ASSUME NEW l \in Card PROVE LikeKnown(l)' /\ ButtonKept(l)'
  <2>1. T(l) \in Library!Call /\ C(l) \in Library!Call /\ LikeKnown(l)
    BY CallFacts DEF CardsIInv
  <2>2. ButtonKept(l)'
    BY <1>3, <2>1, ButtonsAnswered DEF CardsIInv
  <2>3. CASE T(l) # j
    <3>1. job'[T(l)] = job[T(l)] /\ (l \in astray => l \in astray') /\ (l \in drifted => l \in drifted')
      BY <1>1, <1>3, <2>1, <2>3
    <3> QED BY <1>1, <2>1, <2>2, <3>1, LikesStay
  <2>4. CASE T(l) = j /\ ~LikeServed(l)
    <3>1. ~LikeServed(l)' /\ Library!Likes' = Library!Likes /\ job'[T(l)].kind # "like"
      BY <1>1, <1>3, <2>4 DEF LikeServed, Library!Likes
    <3>2. (l \in astray => l \in astray') /\ (l \in drifted => l \in drifted')
      BY <1>1
    <3> QED BY <1>1, <2>1, <2>2, <2>4, <3>1, <3>2 DEF LikeKnown
  <2>5. CASE T(l) = j /\ LikeServed(l)
    <3>1. l = k /\ l \in astray' /\ l \in drifted'
      BY <1>1, <1>2, <1>k, <2>5, CallFacts DEF LikeServed
    <3>2. job'[T(l)].kind # "like"
      BY <1>3, <2>5
    <3> QED BY <2>2, <3>1, <3>2 DEF LikeKnown
  <2> QED BY <2>3, <2>4, <2>5
<1>8. ASSUME NEW l \in Card, NEW d \in CardCol PROVE MemberKnown(l, d)'
  <2>0. T(l) \in Library!Call /\ C(l) \in Library!Call /\ T(l) # C(l) /\ MemberKnown(l, d)
    BY CallFacts DEF CardsIInv
  <2>1. \A i \in Library!Call : i # j => \A b \in BOOLEAN : Library!Carries(i, d, b)' <=> Library!Carries(i, d, b)
    BY <1>3 DEF Library!Carries, Library!About
  <2>2. \A b \in BOOLEAN : ~Library!Carries(j, d, b)'
    BY <1>3 DEF Library!Carries, Library!About
  <2>3. \A i \in Library!Call, b \in BOOLEAN : Library!Carries(i, d, b)' => Library!Carries(i, d, b)
    BY <2>1, <2>2
  <2>4. Claims(l, d)' => Claims(l, d)
    BY <1>1, <2>0, <2>3 DEF Claims
  <2>5. ASSUME d \notin excused'[l], Retracts(l, d) PROVE Retracts(l, d)'
    <3>1. T(l) # j
      <4>1. Library!Carries(T(l), d, FALSE)
        BY <2>5 DEF Retracts
      <4>2. T(l) = j => l = k
        BY <1>k, CallFacts
      <4> QED BY <1>4, <2>5, <4>1, <4>2
    <3> QED BY <2>0, <2>1, <2>3, <2>5, <3>1 DEF Retracts
  <2>6. Library!Member(d) => Library!Member(d)'
    BY <1>1 DEF Library!Member
  <2> QED BY <1>4, <2>0, <2>4, <2>5, <2>6, MembersStay
<1>9. ListingsKnown'
  BY <1>1, ListingsStay DEF CardsIInv, Library!Member
<1>10. CreatesNew'
  <2>1. ASSUME NEW c \in CardCol, NEW i \in Library!Call, Creates(job'[i], c)
        PROVE  i # j /\ Creates(job[i], c) /\ ~Creates(r, c)
    <3>1. i # j /\ Creates(job[i], c)
      BY <1>3, <2>1 DEF Creates
    <3> QED BY <1>t, <3>1 DEF CreatesNew
  <2>2. ASSUME NEW c \in CardCol, NEW s \in leaving', Creates(s, c)
        PROVE  col[c] = None
    BY <1>t, <1>1, <2>2 DEF CreatesNew
  <2>3. ASSUME NEW c \in CardCol, NEW i \in Library!Call, Creates(job'[i], c)
        PROVE  \A s \in leaving' : ~Creates(s, c)
    BY <1>t, <1>1, <2>1, <2>3 DEF CreatesNew
  <2>4. ASSUME NEW c \in CardCol, NEW i \in Library!Call, Creates(job'[i], c)
        PROVE  col[c] = None /\ \A h \in Library!Call : Creates(job'[h], c) => h = i
    BY <1>t, <2>1, <2>4 DEF CreatesNew
  <2> QED BY <1>1, <2>2, <2>3, <2>4 DEF CreatesNew
<1> QED BY <1>6, <1>7, <1>8, <1>9, <1>10 DEF CardsIInv

-----------------------------------------------------------------------------
(* Everybody else.                                                         *)
LEMMA OthersLike ==
  ASSUME CardsIInv, Library!OtherMember
  PROVE  CardsIInv'
<1>1. /\ \/ others < MaxOthers /\ others' = others + 1
         \/ others > 0 /\ others' = others - 1
      /\ drifted' = Card
      /\ UNCHANGED <<liked, public, col, shown, picker, overrides, job, list, leaving, astray, excused, trashed,
                     faults>>
  BY DEF Library!OtherMember, Library!cards
<1>t. CardTypes
  BY DEF CardsIInv
<1>2. CardTypes'
  <2>1. others' \in 0..MaxOthers
    BY <1>t, <1>1, LibraryFacts DEF CardTypes
  <2> QED BY <1>t, <1>1, <2>1 DEF CardTypes
<1>3. \A k \in Card : LikeKnown(k)' /\ ButtonKept(k)'
  BY <1>1, ButtonsStay DEF CardsIInv, LikeKnown, LikeServed
<1>4. \A k \in Card, c \in CardCol : MemberKnown(k, c)'
  BY <1>1, SameMembers DEF CardsIInv
<1>5. ListingsKnown'
  BY <1>1, ListingsStay DEF CardsIInv, Library!Member
<1>6. CreatesNew'
  BY <1>1, CreatesStay DEF CardsIInv
<1> QED BY <1>2, <1>3, <1>4, <1>5, <1>6 DEF CardsIInv

LEMMA OthersChange ==
  ASSUME CardsIInv, Library!CollectOther \/ Library!DeleteCollection \/ Library!Withdraw
  PROVE  CardsIInv'
<1>t. CardTypes
  BY DEF CardsIInv
<1>1. CASE Library!CollectOther
  <2>1. PICK c \in CardCol :
          /\ col[c] # None /\ col' = Library!WithQuote(c, OtherQuote)
          /\ UNCHANGED <<liked, others, public, shown, picker, overrides, job, list, leaving, astray, drifted,
                         excused, trashed, faults>>
    BY <1>1 DEF Library!CollectOther, Library!cards, Library!history, Library!likes
  <2> DEFINE s == Library!Appended(OtherQuote, col[c])
  <2>2. col[c] \in Seq(Quotes)
    BY <1>t, <2>1 DEF CardTypes, Library!StoredCollection, Quotes
  <2>3. s \in Seq(Quotes) /\ (CardQuote \in Library!ToSet(col[c]) => CardQuote \in Library!ToSet(s))
    BY <2>2, AppendedFacts DEF Quotes
  <2>4. col' = [col EXCEPT ![c] = s]
    BY <2>1 DEF Library!WithQuote
  <2> HIDE DEF s
  <2>5. /\ col' \in [CardCol -> Library!StoredCollection \cup {None}]
        /\ col'[c] = s /\ s # None /\ \A d \in CardCol : d # c => col'[d] = col[d]
    BY <1>t, <2>3, <2>4, LibraryFacts DEF CardTypes, Library!StoredCollection, Quotes
  <2>6. \A d \in CardCol : Library!Member(d) => Library!Member(d)'
    BY <2>3, <2>5 DEF Library!Member
  <2>7. CardTypes'
    BY <1>t, <2>1, <2>5 DEF CardTypes
  <2>8. \A k \in Card : LikeKnown(k)' /\ ButtonKept(k)'
    BY <2>1, LikesUntouched, ButtonsStay DEF CardsIInv
  <2>9. ASSUME NEW k \in Card, NEW d \in CardCol PROVE MemberKnown(k, d)'
    <3>1. (Claims(k, d)' <=> Claims(k, d)) /\ (Retracts(k, d)' <=> Retracts(k, d))
      BY <2>1 DEF Claims, Retracts, Library!Carries
    <3> QED BY <2>1, <2>6, <3>1, MembersStay DEF CardsIInv
  <2>10. ListingsKnown'
    BY <2>1, <2>6, ListingsStay DEF CardsIInv
  <2>11. CreatesNew'
    BY <2>1, <2>5, CreatesStay DEF CardsIInv
  <2> QED BY <2>7, <2>8, <2>9, <2>10, <2>11 DEF CardsIInv
<1>2. CASE Library!DeleteCollection
  <2>1. PICK c \in CardCol :
          /\ col[c] # None /\ col' = [col EXCEPT ![c] = None] /\ Library!Recount(c, FALSE, {})
          /\ UNCHANGED <<liked, others, public, shown, picker, overrides, job, leaving, astray, drifted, faults>>
    BY <1>2 DEF Library!DeleteCollection, Library!likes
  <2>2. /\ col' \in [CardCol -> Library!StoredCollection \cup {None}]
        /\ col'[c] = None /\ \A d \in CardCol : d # c => col'[d] = col[d]
    BY <1>t, <2>1 DEF CardTypes
  <2>3. \A d \in CardCol : d # c /\ Library!Member(d) => Library!Member(d)'
    BY <2>2 DEF Library!Member
  <2>4. /\ excused' \in [Card -> SUBSET CardCol] /\ trashed' \in [Card -> SUBSET CardCol]
        /\ list' \in [CardList -> ListJob]
        /\ \A k \in Card, d \in CardCol : d # c => (d \in excused'[k] <=> d \in excused[k])
        /\ \A k \in Card : c \in excused'[k]
    <3>1. FALSE \in BOOLEAN /\ {} \in SUBSET Card /\ \A k \in Card : ~FALSE /\ k \notin {}
      OBVIOUS
    <3>2. \A has \in BOOLEAN, told \in SUBSET Card : Library!Recount(c, has, told) =>
            /\ excused' \in [Card -> SUBSET CardCol] /\ trashed' \in [Card -> SUBSET CardCol]
            /\ list' \in [CardList -> ListJob]
            /\ \A k \in Card, d \in CardCol : d # c => (d \in excused'[k] <=> d \in excused[k])
            /\ \A k \in Card : ~has /\ k \notin told => c \in excused'[k]
      BY <1>t, Recounted
    <3> QED BY <2>1, <3>1, <3>2
  <2>5. CardTypes'
    BY <1>t, <2>1, <2>2, <2>4 DEF CardTypes
  <2>6. \A k \in Card : LikeKnown(k)' /\ ButtonKept(k)'
    BY <2>1, LikesUntouched, ButtonsStay DEF CardsIInv
  <2>7. ASSUME NEW k \in Card, NEW d \in CardCol PROVE MemberKnown(k, d)'
    <3>1. (Claims(k, d)' <=> Claims(k, d)) /\ (Retracts(k, d)' <=> Retracts(k, d)) /\ MemberKnown(k, d)
      BY <2>1 DEF CardsIInv, Claims, Retracts, Library!Carries
    <3>2. CASE d = c
      BY <2>4, <3>2 DEF MemberKnown
    <3>3. CASE d # c
      BY <2>3, <2>4, <3>1, <3>3, MembersStay
    <3> QED BY <3>2, <3>3
  <2>8. ListingsKnown'
    BY <2>1, <2>3, RecountedListings
  <2>9. CreatesNew'
    BY <2>1, <2>2, CreatesStay DEF CardsIInv
  <2> QED BY <2>5, <2>6, <2>7, <2>8, <2>9 DEF CardsIInv
<1>3. CASE Library!Withdraw
  <2>1. /\ public' = ~public
        /\ UNCHANGED <<liked, others, col, shown, picker, overrides, job, list, leaving, astray, drifted,
                       excused, trashed>>
    BY <1>3 DEF Library!Withdraw, Library!cards, Library!history, Library!likes
  <2>2. public' \in BOOLEAN /\ faults' \in 0..CardFaults
    BY <1>t, <1>3, <2>1, LibraryAssumption DEF Library!Withdraw, CardTypes, Library!BoundsAssumption
  <2>3. CardTypes'
    BY <1>t, <2>1, <2>2 DEF CardTypes
  <2>4. \A k \in Card : LikeKnown(k)' /\ ButtonKept(k)'
    BY <2>1, LikesUntouched, ButtonsStay DEF CardsIInv
  <2>5. \A k \in Card, d \in CardCol : MemberKnown(k, d)'
    BY <2>1, SameMembers DEF CardsIInv
  <2>6. ListingsKnown'
    BY <2>1, ListingsStay DEF CardsIInv, Library!Member
  <2>7. CreatesNew'
    BY <2>1, CreatesStay DEF CardsIInv
  <2> QED BY <2>3, <2>4, <2>5, <2>6, <2>7 DEF CardsIInv
<1> QED BY <1>1, <1>2, <1>3

LEMMA CardsStep == CardsIInv /\ [Library!Next]_(Library!vars) => CardsIInv'
<1> SUFFICES ASSUME CardsIInv, [Library!Next]_(Library!vars) PROVE CardsIInv'
  OBVIOUS
<1>1. CASE UNCHANGED Library!vars
  BY <1>1, CardsStill
<1>2. CASE Library!Next
  BY <1>2, Mounted, PickerMoves, ListsMove, CardAsks, LikeServes, CollectServes, CreateServes, LateServes,
     LikeAnswers, CollectAnswers, AnswerNeverCame, OthersLike, OthersChange DEF Library!Next
<1> QED BY <1>1, <1>2

LEMMA CardsGoal == CardsIInv => Library!TypeOK /\ Library!LikeShown /\ Library!MemberExplained
<1> SUFFICES ASSUME CardsIInv PROVE Library!TypeOK /\ Library!LikeShown /\ Library!MemberExplained
  OBVIOUS
<1>1. Library!TypeOK
  <2>1. \A k \in Card : overrides[k] \subseteq CardCol /\ shown[k].count \in Nat
    BY DEF CardsIInv, CardTypes
  <2> QED BY <2>1 DEF CardsIInv, CardTypes, Library!TypeOK
<1>2. \A k \in Card : Library!AtRest(k) => job[T(k)].kind = "idle" /\ job[C(k)].kind = "idle"
  BY DEF Library!AtRest, Library!Idle, T, C
<1>3. Library!LikeShown
  BY <1>2 DEF CardsIInv, LikeKnown, LikeServed, Library!LikeShown
<1>4. \A k \in Card, c \in CardCol : Library!AtRest(k) => ~Retracts(k, c)
  BY <1>2 DEF Retracts, Library!Carries, Library!About
<1>5. Library!MemberExplained
  <2>1. \A k \in Card, c \in CardCol : c \in overrides[k] /\ c \notin excused[k] =>
          Library!Member(c) \/ Retracts(k, c)
    BY DEF CardsIInv, MemberKnown, Claims
  <2>2. \A k \in Card, c \in CardCol : \A e \in picker[k][c] :
          CardQuote \in e /\ c \notin trashed[k] => Library!Member(c)
    BY DEF CardsIInv, ListingsKnown, Names
  <2> QED BY <1>4, <2>1, <2>2 DEF Library!MemberExplained
<1> QED BY <1>1, <1>3, <1>5

(* For any cards, collections and interleaving of requests and answers, a  *)
(* card at rest shows the stored like and count, what it added and did not *)
(* remove is in the collection, and what its picker lists is there, unless *)
(* a change or an answer it was not told of explains the difference        *)
(* (QuoteCard.tsx, collections.ts).                                        *)
THEOREM CardsHold == Spec => []CardsCorrect
<1>1. Init => CardsInductive
  BY CardsStart, CardsInit DEF CardsInductive
<1>2. CardsInductive /\ [Next]_all => CardsInductive'
  BY CardsMove, CardsStep DEF CardsInductive
<1>3. CardsInductive => CardsCorrect
  BY CardsGoal DEF CardsInductive, CardsCorrect
<1> QED BY <1>1, <1>2, <1>3, PTL DEF Spec


(***************************************************************************)
(* The public feed (HomeFeed.tsx).                                         *)
(***************************************************************************)
Address == [filter : Feed!Filter, page : Nat \ {0}, quote : Feed!Quote \cup {None}]
AskedRequest == [phase : {"asked", "hung"}, id : Nat, at : Address, watched : BOOLEAN]
ReadRequest == [phase : {"reading", "answered"}, id : Nat, at : Address, watched : BOOLEAN,
                rows : Seq(Feed!Quote), total : Nat, stamps : SUBSET Nat]
FeedRequest == AskedRequest \cup ReadRequest \cup {Feed!Idle}

FeedTypes == /\ Feed!TypeOK
             /\ past \in Address /\ version \in Nat /\ changes \in Nat /\ newest \in Nat
             /\ req \in [Request -> FeedRequest]
             /\ made \subseteq Nat

\* The newest request is one, and asks for the page on screen until that changes.
Out(q) == req[q] # Feed!Idle
OneIsNewest ==
    /\ \A q \in Request : Out(q) => req[q].id \in 1..newest
    /\ \A q, r \in Request : Out(q) /\ Feed!Current(q) /\ Out(r) /\ Feed!Current(r) => q = r
NewestIsShown ==
    \A q \in Request : Out(q) /\ Feed!Current(q) =>
        ~landed /\ (~starting => req[q].at.filter = url.filter /\ req[q].at.page = url.page)

\* Rows and total read of the collection as it is are those of the page.
HoldsPage(r) ==
    /\ r.stamps \subseteq 0..Feed!Stamp(r.at.filter) /\ r.stamps # {}
    /\ r.stamps = {Feed!Stamp(r.at.filter)} => /\ r.rows = Feed!Slice(r.at.filter, r.at.page)
                                               /\ r.total = Len(Feed!Ranked(r.at.filter))
HasRead(r) == r.phase \in {"reading", "answered"}
AnswersTrue == \A q \in Request : HasRead(req[q]) => HoldsPage(req[q])

\* A page is loading, failed, or there; a later page is asked for from a page that is there.
StageKnown ==
    /\ landed <=> ~loading /\ ~error
    /\ clearing => starting
    /\ landed /\ ~starting => made # {}
    /\ odd = {} /\ url.page > 1 => ~clearing /\ (starting => landed) /\ made # {}

\* The stamps of what is on screen are of its filter.
MadeNow == odd = {} /\ ((landed /\ ~starting) \/ url.page > 1) => made \subseteq 0..Feed!Stamp(url.filter)

\* Until the page of the address has come, the list holds the pages before it.
Pages(n) == Feed!First(Feed!Ranked(url.filter), n * Limit)
ListGrows ==
    odd = {} /\ made = {Feed!Stamp(url.filter)} =>
        /\ landed /\ ~starting => list = Pages(url.page) /\ total = Len(Feed!Ranked(url.filter))
        /\ url.page > 1 /\ (landed => starting) => list = Pages(url.page - 1)

FeedIInv == /\ FeedTypes
            /\ OneIsNewest /\ NewestIsShown /\ AnswersTrue /\ StageKnown /\ MadeNow /\ ListGrows
            /\ Feed!LoadingWatched
FeedInductive == part = "feed" => FeedIInv

LEMMA FeedStarts == Init /\ part = "feed" => Feed!Init
  BY DEF Init

LEMMA FeedMoves ==
  ASSUME [Next]_all, part' = "feed"
  PROVE  part = "feed" /\ [Feed!Next]_(Feed!vars)
<1>1. CASE UNCHANGED all
  BY <1>1 DEF all, Feed!vars, Feed!server, Feed!nav, Feed!view, Feed!shared
<1>2. CASE Next
  BY <1>2 DEF Next
<1> QED BY <1>1, <1>2

LEMMA FeedCardinality ==
  ASSUME NEW S PROVE Feed!Cardinality(S) = Cardinality(S)
  BY Zenon DEF Feed!Cardinality, Cardinality

LEMMA FeedFacts == /\ Limit \in Nat \ {0} /\ MaxQuote \in Nat
                   /\ Links \subseteq Feed!Quote /\ Approvable \subseteq SUBSET Feed!Quote
                   /\ EntryPage \subseteq Nat \ {0}
  BY FeedAssumption DEF Feed!LimitAssumption

(* The order of a filter's rows: every place is taken by one quote.        *)
LEMMA AheadOrder ==
  ASSUME NEW v \in [Feed!Quote -> Nat], NEW x \in Feed!Quote, NEW y \in Feed!Quote, NEW z \in Feed!Quote
  PROVE  /\ ~Feed!Ahead(v, x, x)
         /\ Feed!Ahead(v, z, y) /\ Feed!Ahead(v, y, x) => Feed!Ahead(v, z, x)
         /\ x # y => Feed!Ahead(v, x, y) \/ Feed!Ahead(v, y, x)
<1>1. /\ v[x] \in Nat /\ v[y] \in Nat /\ v[z] \in Nat
      /\ x \in Int /\ y \in Int /\ z \in Int
  BY FeedFacts DEF Feed!Quote
<1> QED BY <1>1 DEF Feed!Ahead

\* What is behind another has more ahead of it.
LEMMA BehindHasMore ==
  ASSUME NEW S, S \subseteq Feed!Quote, IsFiniteSet(S), NEW v \in [Feed!Quote -> Nat],
         NEW x \in S, NEW y \in S, Feed!Ahead(v, y, x)
  PROVE  Cardinality(Feed!Before(S, v, y)) < Cardinality(Feed!Before(S, v, x))
<1>1. Feed!Before(S, v, y) \cup {y} \in SUBSET Feed!Before(S, v, x) /\ Feed!Before(S, v, x) \in SUBSET S
  <2>1. \A m \in S : Feed!Ahead(v, m, y) => Feed!Ahead(v, m, x)
    BY AheadOrder
  <2> QED BY <2>1 DEF Feed!Before
<1>2. IsFiniteSet(Feed!Before(S, v, x)) /\ Cardinality(Feed!Before(S, v, x)) \in Nat
  BY <1>1, FS_Subset, FS_CardinalityType
<1>3. IsFiniteSet(Feed!Before(S, v, y))
  BY <1>1, <1>2, FS_Subset
<1>4. Cardinality(Feed!Before(S, v, y) \cup {y}) = Cardinality(Feed!Before(S, v, y)) + 1
  <2>1. y \notin Feed!Before(S, v, y)
    BY AheadOrder DEF Feed!Before
  <2> QED BY <1>3, <2>1, FS_AddElement
<1>5. Cardinality(Feed!Before(S, v, y) \cup {y}) <= Cardinality(Feed!Before(S, v, x))
  BY <1>1, <1>2, FS_Subset
<1>6. Cardinality(Feed!Before(S, v, y)) \in Nat
  BY <1>3, FS_CardinalityType
<1> QED BY <1>2, <1>4, <1>5, <1>6

\* Every place in the list is taken: the numbers of quotes ahead all differ.
LEMMA PlacesTaken ==
  ASSUME NEW S, S \subseteq Feed!Quote, IsFiniteSet(S), NEW v \in [Feed!Quote -> Nat],
         NEW i \in 1..Cardinality(S)
  PROVE  \E n \in S : Cardinality(Feed!Before(S, v, n)) = i - 1
<1>0. Cardinality(S) \in Nat
  BY FS_CardinalityType
<1> SUFFICES ASSUME \A n \in S : Cardinality(Feed!Before(S, v, n)) # i - 1 PROVE FALSE
  OBVIOUS
<1> DEFINE r == [n \in S |-> Cardinality(Feed!Before(S, v, n))]
           U == (0..(Cardinality(S) - 1)) \ {i - 1}
<1>1. ASSUME NEW n \in S PROVE Cardinality(Feed!Before(S, v, n)) \in 0..(Cardinality(S) - 1)
  <2>1. Feed!Before(S, v, n) \in SUBSET (S \ {n})
    BY AheadOrder DEF Feed!Before
  <2>2. IsFiniteSet(S \ {n}) /\ Cardinality(S \ {n}) = Cardinality(S) - 1
    BY FS_RemoveElement
  <2>3. /\ IsFiniteSet(Feed!Before(S, v, n))
        /\ Cardinality(Feed!Before(S, v, n)) <= Cardinality(S) - 1
    BY <2>1, <2>2, FS_Subset
  <2>4. Cardinality(Feed!Before(S, v, n)) \in Nat
    BY <2>3, FS_CardinalityType
  <2> QED BY <1>0, <2>3, <2>4
<1>2. r \in [S -> U]
  BY <1>1
<1>3. IsFiniteSet(U) /\ Cardinality(U) = Cardinality(S) - 1
  <2>1. /\ IsFiniteSet(0..(Cardinality(S) - 1))
        /\ Cardinality(0..(Cardinality(S) - 1)) = Cardinality(S)
    <3> DEFINE k == Cardinality(S) - 1
    <3>1. k \in Int /\ k >= 0 /\ k + 1 = Cardinality(S)
      BY <1>0
    <3> HIDE DEF k
    <3>2. IsFiniteSet(0..k) /\ Cardinality(0..k) = k + 1
      BY <3>1, FS_Interval
    <3> QED BY <3>1, <3>2 DEF k
  <2>2. i - 1 \in 0..(Cardinality(S) - 1)
    BY <1>0
  <2>3. \A D, x : IsFiniteSet(D) /\ x \in D =>
           IsFiniteSet(D \ {x}) /\ Cardinality(D \ {x}) = Cardinality(D) - 1
    BY FS_RemoveElement
  <2> QED BY <2>1, <2>2, <2>3
<1>4. PICK x \in S, y \in S : x # y /\ r[x] = r[y]
  <2> HIDE DEF r, U
  <2>1. Cardinality(U) < Cardinality(S)
    BY <1>0, <1>3
  <2> QED BY <1>2, <1>3, <2>1, FS_PigeonHole
<1>5. Cardinality(Feed!Before(S, v, x)) = Cardinality(Feed!Before(S, v, y))
  BY <1>4
<1>6. Cardinality(Feed!Before(S, v, x)) \in Nat /\ Cardinality(Feed!Before(S, v, y)) \in Nat
  BY <1>0, <1>1
<1>7. CASE Feed!Ahead(v, y, x)
  <2>1. Cardinality(Feed!Before(S, v, y)) < Cardinality(Feed!Before(S, v, x))
    BY <1>7, BehindHasMore, Zenon
  <2> QED BY <1>5, <1>6, <2>1
<1>8. CASE Feed!Ahead(v, x, y)
  <2>1. Cardinality(Feed!Before(S, v, x)) < Cardinality(Feed!Before(S, v, y))
    BY <1>8, BehindHasMore, Zenon
  <2> QED BY <1>5, <1>6, <2>1
<1> QED BY <1>4, <1>7, <1>8, AheadOrder

LEMMA SortedSeq ==
  ASSUME NEW S, S \subseteq Feed!Quote, NEW v \in [Feed!Quote -> Nat]
  PROVE  Feed!Sorted(S, v) \in Seq(Feed!Quote)
<1>1. IsFiniteSet(S) /\ Cardinality(S) \in Nat
  <2>1. IsFiniteSet(Feed!Quote)
    BY FeedFacts, FS_Interval DEF Feed!Quote
  <2> QED BY <2>1, FS_Subset, FS_CardinalityType
<1>2. ASSUME NEW i \in 1..Cardinality(S)
      PROVE  (CHOOSE n \in S : Feed!Cardinality(Feed!Before(S, v, n)) = i - 1) \in Feed!Quote
  <2>1. \E n \in S : Feed!Cardinality(Feed!Before(S, v, n)) = i - 1
    BY <1>1, PlacesTaken, FeedCardinality
  <2> QED BY <2>1
<1> DEFINE at(i) == CHOOSE n \in S : Feed!Cardinality(Feed!Before(S, v, n)) = i - 1
<1>3. Feed!Sorted(S, v) = [i \in 1..Cardinality(S) |-> at(i)]
  BY FeedCardinality DEF Feed!Sorted
<1>4. \A i \in 1..Cardinality(S) : at(i) \in Feed!Quote
  BY <1>2
<1> HIDE DEF at
<1> QED BY <1>1, <1>3, <1>4

LEMMA RankedSeq ==
  ASSUME approved \subseteq Feed!Quote, liked \in [Feed!Quote -> Nat], NEW f
  PROVE  Feed!Ranked(f) \in Seq(Feed!Quote)
<1>1. Feed!Listed \cap Matches[f] \subseteq Feed!Quote
  BY DEF Feed!Listed
<1>2. Feed!Weight(f) \in [Feed!Quote -> Nat]
  BY DEF Feed!Weight
<1> QED BY <1>1, <1>2, SortedSeq DEF Feed!Ranked

\* A page appended to the pages before it.
LEMMA PageAppended ==
  ASSUME NEW S, NEW s \in Seq(S), NEW a \in Nat, NEW b \in Nat, a <= b
  PROVE  LET t == Feed!First(s, b) IN
           /\ t \in Seq(S)
           /\ SubSeq(t, a + 1, Len(t)) \in Seq(S)
           /\ Feed!First(s, a) \o SubSeq(t, a + 1, Len(t)) = t
<1> DEFINE t == Feed!First(s, b)
           m == IF b < Len(s) THEN b ELSE Len(s)
<1>1. Len(s) \in Nat /\ s \in [1..Len(s) -> S]
  BY LenProperties
<1>2. m \in 0..Len(s) /\ t = SubSeq(s, 1, m)
  BY <1>1 DEF Feed!First
<1> HIDE DEF m
<1>3. t \in Seq(S) /\ Len(t) = m
  BY <1>1, <1>2, SubSeqProperties
<1>4. SubSeq(t, a + 1, Len(t)) \in Seq(S)
  <2>1. \A i \in (a + 1)..Len(t) : t[i] \in S
    BY <1>1, <1>2, <1>3, LenProperties
  <2> HIDE DEF t
  <2> QED BY <1>1, <1>2, <1>3, <2>1, SubSeqProperties
<1>5. CASE a < m
  <2>1. SubSeq(t, a + 1, m) = SubSeq(s, a + 1, m)
    <3>1. SubSeq(SubSeq(s, 1, m), a + 1, m) = SubSeq(s, 1 + (a + 1) - 1, 1 + m - 1)
      <4>1. 1 \in 1..Len(s) /\ m \in 1..Len(s) /\ a + 1 \in 1..(m - 1 + 1) /\ m \in 1..(m - 1 + 1)
        BY <1>1, <1>2, <1>5
      <4> QED BY <4>1, SubSeqOfSubSeq
    <3> QED BY <1>2, <1>5, <3>1
  <2>2. Feed!First(s, a) = SubSeq(s, 1, a)
    <3>1. a < Len(s)
      BY <1>1, <1>2, <1>5
    <3> QED BY <3>1 DEF Feed!First
  <2>3. SubSeq(s, 1, a) \o SubSeq(s, a + 1, m) = SubSeq(s, 1, m)
    <3>1. 1 \in 1..(Len(s) + 1) /\ a \in (1 - 1)..Len(s) /\ m \in a..Len(s)
      BY <1>1, <1>2, <1>5
    <3> QED BY <3>1, ConcatAdjacentSubSeq
  <2> QED BY <1>2, <1>3, <1>4, <2>1, <2>2, <2>3
<1>6. CASE ~(a < m)
  <2>1. Feed!First(s, a) = t
    BY <1>1, <1>2, <1>6 DEF Feed!First, m
  <2>2. SubSeq(t, a + 1, Len(t)) = <<>>
    BY <1>1, <1>2, <1>3, <1>6, SubSeqEmpty
  <2>3. t \o <<>> = t
    <3> HIDE DEF t
    <3> QED BY <1>3, ConcatEmptySeq
  <2> QED BY <1>3, <1>4, <2>1, <2>2, <2>3
<1> QED BY <1>5, <1>6

LEMMA PagesFollow ==
  ASSUME approved \subseteq Feed!Quote, liked \in [Feed!Quote -> Nat], NEW f, NEW p \in Nat \ {0}
  PROVE  /\ Feed!Slice(f, p) \in Seq(Feed!Quote)
         /\ Len(Feed!Ranked(f)) \in Nat
         /\ p = 1 => Feed!Slice(f, p) = Feed!First(Feed!Ranked(f), p * Limit)
         /\ Feed!First(Feed!Ranked(f), (p - 1) * Limit) \o Feed!Slice(f, p)
              = Feed!First(Feed!Ranked(f), p * Limit)
<1> DEFINE s == Feed!Ranked(f)
           a == (p - 1) * Limit
           b == p * Limit
           t == Feed!First(s, b)
<1>1. s \in Seq(Feed!Quote) /\ Len(s) \in Nat
  BY RankedSeq, LenProperties
<1>2. a \in Nat /\ b \in Nat /\ a <= b /\ (p = 1 => a = 0)
  <2>1. p - 1 \in Nat /\ Limit \in Nat
    BY FeedFacts
  <2>2. (p - 1) * Limit \in Nat /\ p * Limit = (p - 1) * Limit + Limit
    BY <2>1
  <2> QED BY <2>1, <2>2
<1>3. Feed!Slice(f, p) = SubSeq(t, a + 1, Len(t))
  BY DEF Feed!Slice
<1> HIDE DEF s, a, b
<1>4. /\ t \in Seq(Feed!Quote) /\ SubSeq(t, a + 1, Len(t)) \in Seq(Feed!Quote)
      /\ Feed!First(s, a) \o SubSeq(t, a + 1, Len(t)) = t
  BY <1>1, <1>2, PageAppended
<1>5. ASSUME p = 1 PROVE SubSeq(t, a + 1, Len(t)) = t
  <2>1. Feed!First(s, a) = <<>>
    BY <1>1, <1>2, <1>5, SubSeqEmpty DEF Feed!First
  <2> HIDE DEF t
  <2> QED BY <1>4, <2>1, ConcatEmptySeq
<1> QED BY <1>1, <1>3, <1>4, <1>5 DEF s, a, b

LEMMA FeedRequestFacts ==
  ASSUME NEW r \in FeedRequest
  PROVE  /\ r = Feed!Idle <=> r.phase = "idle"
         /\ r.phase \in {"idle", "asked", "hung", "reading", "answered"}
         /\ r # Feed!Idle => r.id \in Nat /\ r.at \in Address /\ r.watched \in BOOLEAN
         /\ r.phase \in {"asked", "hung"} => r \in AskedRequest
         /\ HasRead(r) => /\ r \in ReadRequest
                          /\ r.rows \in Seq(Feed!Quote) /\ r.total \in Nat /\ r.stamps \in SUBSET Nat
<1>1. Feed!Idle.phase = "idle"
  BY DEF Feed!Idle
<1>2. CASE r \in AskedRequest
  BY <1>1, <1>2 DEF AskedRequest, HasRead
<1>3. CASE r \in ReadRequest
  BY <1>1, <1>3 DEF ReadRequest, HasRead
<1>4. CASE r = Feed!Idle
  BY <1>1, <1>4 DEF HasRead
<1> QED BY <1>2, <1>3, <1>4 DEF FeedRequest

\* What Feed!TypeOK says, with the addresses named.
Unusual == {"entered", "back", "again", "linked", "hurried"}
LEMMA FeedTypeFacts ==
  FeedTypes <=> /\ approved \subseteq Feed!Quote /\ trashed \subseteq approved
                /\ url \in Address /\ past \in Address
                /\ list \in Seq(Feed!Quote) /\ total \in Nat
                /\ loading \in BOOLEAN /\ error \in BOOLEAN /\ game \in BOOLEAN
                /\ clearing \in BOOLEAN /\ starting \in BOOLEAN /\ landed \in BOOLEAN
                /\ odd \subseteq Unusual
                /\ liked \in [Feed!Quote -> Nat]
                /\ version \in Nat /\ changes \in Nat /\ newest \in Nat
                /\ req \in [Request -> FeedRequest] /\ made \subseteq Nat
  BY DEF FeedTypes, Feed!TypeOK, Address, Unusual

LEMMA FeedInit == Feed!Init => FeedIInv
<1> SUFFICES ASSUME Feed!Init PROVE FeedIInv
  OBVIOUS
<1>1. FeedTypes
  <2>1. url \in Address
    BY FeedFacts DEF Feed!Init, Address
  <2>2. <<>> \in Seq(Feed!Quote)
    OBVIOUS
  <2>3. req \in [Request -> FeedRequest]
    BY DEF Feed!Init, FeedRequest
  <2>4. past \in Address /\ odd \subseteq Unusual
    BY <2>1 DEF Feed!Init, Unusual
  <2>5. approved \subseteq Feed!Quote /\ trashed \subseteq approved /\ liked \in [Feed!Quote -> Nat]
    BY FeedFacts DEF Feed!Init
  <2> QED BY <2>1, <2>2, <2>3, <2>4, <2>5, FeedTypeFacts DEF Feed!Init
<1>2. \A q \in Request : ~Out(q) /\ req[q].phase = "idle"
  BY DEF Feed!Init, Out, Feed!Idle
<1>3. url.page = 1 \/ odd # {}
  BY DEF Feed!Init
<1>4. OneIsNewest /\ NewestIsShown /\ AnswersTrue
  BY <1>2 DEF OneIsNewest, NewestIsShown, AnswersTrue, HasRead
<1>5. StageKnown /\ MadeNow /\ ListGrows /\ Feed!LoadingWatched
  BY <1>3 DEF StageKnown, MadeNow, ListGrows, Feed!LoadingWatched, Feed!Init
<1> QED BY <1>1, <1>4, <1>5 DEF FeedIInv


LEMMA SamePages ==
  ASSUME UNCHANGED <<approved, liked, version, changes, url>>
  PROVE  /\ \A n : Pages(n)' = Pages(n)
         /\ Feed!Ranked(url.filter)' = Feed!Ranked(url.filter)
         /\ Feed!Stamp(url.filter)' = Feed!Stamp(url.filter)
  BY DEF Pages, Feed!Ranked, Feed!Listed, Feed!Weight, Feed!Stamp

LEMMA SamePage ==
  ASSUME UNCHANGED <<approved, liked, version, changes>>, NEW r
  PROVE  HoldsPage(r)' <=> HoldsPage(r)
  BY DEF HoldsPage, Feed!Ranked, Feed!Slice, Feed!Listed, Feed!Weight, Feed!Stamp

LEMMA SameAnswers ==
  ASSUME AnswersTrue, UNCHANGED <<approved, liked, version, changes>>,
         \A q \in Request : HasRead(req'[q]) => req'[q] = req[q]
  PROVE  AnswersTrue'
<1> SUFFICES ASSUME NEW q \in Request, HasRead(req'[q]) PROVE HoldsPage(req[q])'
  BY DEF AnswersTrue, HasRead
<1>1. req'[q] = req[q] /\ HoldsPage(req[q])
  BY DEF AnswersTrue
<1> QED BY <1>1 DEF HoldsPage, Feed!Ranked, Feed!Slice, Feed!Listed, Feed!Weight, Feed!Stamp

\* Steps that leave the list and its requests alone.
LEMMA FeedKept ==
  ASSUME FeedIInv, game' \in BOOLEAN,
         UNCHANGED <<Feed!server, url, past, clearing, starting, req, newest, list, total, loading,
                     error, made, odd, landed>>
  PROVE  FeedIInv'
<1> USE DEF Feed!server
<1>1. FeedTypes'
  BY FeedTypeFacts DEF FeedIInv, FeedTypes, Feed!TypeOK
<1>2. AnswersTrue'
  BY SameAnswers DEF FeedIInv
<1>3. MadeNow' /\ ListGrows'
  BY SamePages DEF FeedIInv, MadeNow, ListGrows
<1>4. OneIsNewest' /\ NewestIsShown' /\ StageKnown'
  BY DEF FeedIInv, OneIsNewest, NewestIsShown, StageKnown, Out, Feed!Current
<1>5. Feed!LoadingWatched'
  BY DEF FeedIInv, Feed!LoadingWatched, Feed!InFlight, Feed!Current
<1> QED BY <1>1, <1>2, <1>3, <1>4, <1>5 DEF FeedIInv

LEMMA FeedStill == FeedIInv /\ UNCHANGED Feed!vars => FeedIInv'
<1> SUFFICES ASSUME FeedIInv, UNCHANGED Feed!vars PROVE FeedIInv'
  OBVIOUS
<1>1. game \in BOOLEAN
  BY FeedTypeFacts DEF FeedIInv
<1> QED BY <1>1, FeedKept DEF Feed!vars, Feed!server, Feed!nav, Feed!view, Feed!shared

\* The rows of a filter change only with its stamp, which only grows.
LEMMA Changed ==
  ASSUME FeedIInv, trashed' \subseteq approved', approved' \subseteq Feed!Quote,
         liked' \in [Feed!Quote -> Nat], version' \in Nat, changes' \in Nat,
         \A f : \/ Feed!Stamp(f)' = Feed!Stamp(f) + 1
               \/ (Feed!Stamp(f)' = Feed!Stamp(f) /\ Feed!Ranked(f)' = Feed!Ranked(f)),
         UNCHANGED <<url, past, clearing, starting, req, newest, list, total, loading, error, game, made, odd,
                     landed>>
  PROVE  FeedIInv'
<1>t. FeedTypes
  BY DEF FeedIInv
<1>1. FeedTypes'
  BY <1>t, FeedTypeFacts DEF FeedTypes, Feed!TypeOK, Address
<1>s. \A f : Feed!Stamp(f) \in Nat
  BY <1>t, FeedTypeFacts DEF Feed!Stamp
<1>2. AnswersTrue'
  <2> SUFFICES ASSUME NEW q \in Request, HasRead(req[q]), NEW r, r = req[q] PROVE HoldsPage(r)'
    BY DEF AnswersTrue, HasRead, HoldsPage, Feed!Slice
  <2> DEFINE f == r.at.filter
             st == Feed!Stamp(f)
  <2>1. r.stamps \subseteq 0..st /\ r.stamps # {} /\ HoldsPage(r)
    BY DEF FeedIInv, AnswersTrue, HoldsPage
  <2>2. CASE Feed!Stamp(f)' = st + 1
    <3>1. r.stamps \subseteq 0..(st + 1) /\ r.stamps # {st + 1}
      <4> HIDE DEF f, st
      <4>1. st \in Nat
        BY <1>s DEF st
      <4> QED BY <2>1, <4>1
    <3> QED BY <2>1, <2>2, <3>1 DEF HoldsPage
  <2>3. CASE Feed!Stamp(f)' = st /\ Feed!Ranked(f)' = Feed!Ranked(f)
    BY <2>1, <2>3 DEF HoldsPage, Feed!Slice
  <2> QED BY <2>2, <2>3
<1>3. MadeNow' /\ ListGrows'
  <2> SUFFICES ASSUME NEW f, f = url.filter PROVE MadeNow' /\ ListGrows'
    OBVIOUS
  <2>1. CASE Feed!Stamp(f)' = Feed!Stamp(f) + 1
    <3>1. ASSUME odd = {}, (landed /\ ~starting) \/ url.page > 1
          PROVE  made \subseteq 0..(Feed!Stamp(f) + 1) /\ made # {Feed!Stamp(f) + 1}
      <4>1. made \subseteq 0..Feed!Stamp(f) /\ Feed!Stamp(f) \in Nat
        BY <1>s, <3>1 DEF FeedIInv, MadeNow
      <4> QED BY <4>1
    <3>2. Feed!Stamp(url.filter)' = Feed!Stamp(f) + 1
      BY <2>1 DEF Feed!Stamp
    <3> QED BY <3>1, <3>2 DEF MadeNow, ListGrows
  <2>2. CASE Feed!Stamp(f)' = Feed!Stamp(f) /\ Feed!Ranked(f)' = Feed!Ranked(f)
    <3>1. /\ Feed!Stamp(url.filter)' = Feed!Stamp(url.filter)
          /\ Feed!Ranked(url.filter)' = Feed!Ranked(url.filter)
          /\ \A n : Pages(n)' = Pages(n)
      BY <2>2 DEF Feed!Stamp, Feed!Ranked, Feed!Listed, Feed!Weight, Pages
    <3> QED BY <3>1 DEF FeedIInv, MadeNow, ListGrows
  <2> QED BY <2>1, <2>2
<1>4. OneIsNewest' /\ NewestIsShown' /\ StageKnown'
  BY DEF FeedIInv, OneIsNewest, NewestIsShown, StageKnown, Out, Feed!Current
<1>5. Feed!LoadingWatched'
  BY DEF FeedIInv, Feed!LoadingWatched, Feed!InFlight, Feed!Current
<1> QED BY <1>1, <1>2, <1>3, <1>4, <1>5 DEF FeedIInv

LEMMA Edited ==
  ASSUME FeedIInv, NEW app, NEW gone, app \subseteq Feed!Quote, gone \subseteq app,
         Feed!Edit(app, gone)
  PROVE  FeedIInv'
<1>1. /\ approved' = app /\ trashed' = gone /\ version' = version + 1
      /\ version \in Nat /\ changes \in Nat /\ liked \in [Feed!Quote -> Nat]
      /\ UNCHANGED <<liked, changes, url, past, clearing, starting, req, newest, list, total, loading, error,
                     game, made, odd, landed>>
  BY FeedTypeFacts DEF Feed!Edit, FeedIInv, Feed!nav, Feed!view
<1>2. \A f : Feed!Stamp(f)' = Feed!Stamp(f) + 1
  BY <1>1 DEF Feed!Stamp
<1>3. version' \in Nat /\ changes' \in Nat /\ liked' \in [Feed!Quote -> Nat]
  BY <1>1
<1>4. approved' \subseteq Feed!Quote /\ trashed' \subseteq approved'
  BY <1>1
<1> QED BY <1>1, <1>2, <1>3, <1>4, Changed

LEMMA Scored ==
  ASSUME FeedIInv, NEW n \in Feed!Quote, Feed!Scores(n)
  PROVE  FeedIInv'
<1>1. /\ changes' = changes + 1
      /\ approved \subseteq Feed!Quote /\ trashed \subseteq approved
      /\ version \in Nat /\ changes \in Nat /\ liked \in [Feed!Quote -> Nat]
      /\ UNCHANGED <<approved, trashed, version, url, past, clearing, starting, req, newest, list, total,
                     loading, error, game, made, odd, landed>>
  BY FeedTypeFacts DEF Feed!Scores, FeedIInv, Feed!nav, Feed!view
<1>2. liked' \in [Feed!Quote -> Nat]
  BY <1>1 DEF Feed!Scores
<1>3. ASSUME NEW f PROVE \/ Feed!Stamp(f)' = Feed!Stamp(f) + 1
                         \/ (Feed!Stamp(f)' = Feed!Stamp(f) /\ Feed!Ranked(f)' = Feed!Ranked(f))
  <2>1. CASE f \in Popular
    BY <1>1, <2>1 DEF Feed!Stamp
  <2>2. CASE f \notin Popular
    BY <1>1, <2>2 DEF Feed!Stamp, Feed!Ranked, Feed!Listed, Feed!Weight
  <2> QED BY <2>1, <2>2
<1>4. version' \in Nat /\ changes' \in Nat /\ approved' \subseteq Feed!Quote /\ trashed' \subseteq approved'
  BY <1>1
<1> QED BY <1>1, <1>2, <1>3, <1>4, Changed

(* A click changes the address: a later page follows one that is there. *)
LEMMA Went ==
  ASSUME FeedIInv, NEW u \in Address, Feed!Go(u),
         odd' \subseteq Unusual,
         odd' = {} => starting',
         odd' = {} /\ u.page > 1 =>
           /\ odd = {} /\ ~starting /\ ~loading /\ ~error
           /\ u.filter = url.filter /\ u.page = url.page + 1
  PROVE  FeedIInv'
<1>t. FeedTypes
  BY DEF FeedIInv
<1>1. /\ url' = u /\ past' = url
      /\ clearing' = (clearing \/ u.filter # url.filter)
      /\ starting' = (starting \/ u.filter # url.filter \/ u.page # url.page)
      /\ UNCHANGED <<approved, trashed, liked, version, changes, req, newest, list, total, loading, error,
                     game, made, landed>>
  BY DEF Feed!Go, Feed!server
<1>2. FeedTypes'
  <2>1. url' \in Address /\ past' \in Address /\ clearing' \in BOOLEAN /\ starting' \in BOOLEAN
    BY <1>1, <1>t, FeedTypeFacts
  <2> QED BY <1>1, <1>t, <2>1, FeedTypeFacts DEF FeedTypes, Feed!TypeOK, Address, Unusual
<1>3. AnswersTrue'
  BY <1>1, SameAnswers DEF FeedIInv
<1>4. OneIsNewest' /\ NewestIsShown'
  BY <1>1 DEF FeedIInv, OneIsNewest, NewestIsShown, Out, Feed!Current
<1>5. Feed!LoadingWatched'
  BY <1>1 DEF FeedIInv, Feed!LoadingWatched, Feed!InFlight, Feed!Current
<1>6. StageKnown'
  BY <1>1, <1>t, FeedTypeFacts DEF FeedIInv, StageKnown
<1>7. MadeNow' /\ ListGrows'
  <2> SUFFICES ASSUME odd' = {}, url'.page > 1
               PROVE  /\ made' \subseteq 0..Feed!Stamp(url.filter)'
                      /\ made' = {Feed!Stamp(url.filter)'} => list' = Pages(url.page - 1)'
    BY DEF MadeNow, ListGrows
  <2>1. odd = {} /\ landed /\ ~starting
    BY <1>1 DEF FeedIInv, StageKnown
  <2>2. url'.page - 1 = url.page /\ url'.filter = url.filter
    BY <1>1, <1>t, FeedTypeFacts DEF Address
  <2>3. /\ Feed!Ranked(url.filter)' = Feed!Ranked(url.filter)
        /\ Feed!Stamp(url.filter)' = Feed!Stamp(url.filter)
    BY <1>1, <2>2 DEF Feed!Ranked, Feed!Listed, Feed!Weight, Feed!Stamp
  <2>4. made \subseteq 0..Feed!Stamp(url.filter)
    BY <2>1 DEF FeedIInv, MadeNow
  <2>5. made = {Feed!Stamp(url.filter)} => list = Pages(url.page)
    BY <2>1 DEF FeedIInv, ListGrows
  <2> QED BY <1>1, <2>2, <2>3, <2>4, <2>5 DEF Pages
<1> QED BY <1>2, <1>3, <1>4, <1>5, <1>6, <1>7 DEF FeedIInv

LEMMA Clicked ==
  ASSUME FeedIInv, Feed!ChooseFilter \/ Feed!LoadMore \/ Feed!Back
  PROVE  FeedIInv'
<1>t. /\ url \in Address /\ past \in Address /\ odd \subseteq Unusual
      /\ starting \in BOOLEAN
  BY FeedTypeFacts DEF FeedIInv
<1>1. CASE Feed!ChooseFilter
  <2> PICK f \in Feed!Filter \ {url.filter} :
             Feed!Go([filter |-> f, page |-> 1, quote |-> url.quote]) /\ UNCHANGED odd
    BY <1>1 DEF Feed!ChooseFilter
  <2> DEFINE u == [filter |-> f, page |-> 1, quote |-> url.quote]
  <2>1. Feed!Go(u) /\ UNCHANGED odd
    OBVIOUS
  <2>2. u \in Address /\ u.page = 1 /\ u.filter # url.filter
    BY <1>t DEF Address
  <2> HIDE DEF u
  <2>3. starting' = TRUE
    BY <2>1, <2>2 DEF Feed!Go
  <2> QED BY <1>t, <2>1, <2>2, <2>3, Went
<1>2. CASE Feed!LoadMore
  <2> DEFINE u == [filter |-> url.filter, page |-> url.page + 1, quote |-> None]
  <2>1. /\ Feed!Go(u) /\ ~error /\ ~loading
        /\ odd' = IF starting THEN odd \cup {"hurried"} ELSE odd
    BY <1>2 DEF Feed!LoadMore
  <2>2. u \in Address /\ u.page = url.page + 1 /\ u.filter = url.filter /\ url.page \in Nat
    BY <1>t DEF Address
  <2> HIDE DEF u
  <2>3. starting' = TRUE
    <3>1. u.page # url.page
      BY <2>2
    <3> QED BY <2>1, <3>1 DEF Feed!Go
  <2>4. odd' \subseteq Unusual /\ (odd' = {} => odd = {} /\ ~starting)
    BY <1>t, <2>1 DEF Unusual
  <2> QED BY <1>t, <2>1, <2>2, <2>3, <2>4, Went
<1>3. CASE Feed!Back
  <2>1. Feed!Go(past) /\ odd' = odd \cup {"back"}
    BY <1>3 DEF Feed!Back
  <2>2. odd' \subseteq Unusual /\ odd' # {}
    BY <1>t, <2>1 DEF Unusual
  <2> QED BY <1>t, <2>1, <2>2, Went
<1> QED BY <1>1, <1>2, <1>3

LEMMA ListCleared ==
  ASSUME FeedIInv, Feed!Clear
  PROVE  FeedIInv'
<1>1. /\ clearing /\ clearing' = FALSE /\ list' = <<>> /\ total' = 0 /\ made' = {}
      /\ UNCHANGED <<approved, trashed, liked, version, changes, url, past, starting, req, newest, loading,
                     error, game, odd, landed>>
  BY DEF Feed!Clear, Feed!server
<1>2. FeedTypes'
  <2>1. list' \in Seq(Feed!Quote) /\ total' \in Nat
    BY <1>1
  <2> QED BY <1>1, <2>1, FeedTypeFacts DEF FeedIInv, FeedTypes, Feed!TypeOK
<1>3. AnswersTrue'
  BY <1>1, SameAnswers DEF FeedIInv
<1>4. OneIsNewest' /\ NewestIsShown' /\ StageKnown' /\ MadeNow' /\ ListGrows'
  BY <1>1 DEF FeedIInv, OneIsNewest, NewestIsShown, Out, Feed!Current, StageKnown, MadeNow, ListGrows
<1>5. Feed!LoadingWatched'
  BY <1>1 DEF FeedIInv, Feed!LoadingWatched, Feed!InFlight, Feed!Current
<1> QED BY <1>2, <1>3, <1>4, <1>5 DEF FeedIInv

\* A request changes, keeping its number and address, or is forgotten.
LEMMA CallSet ==
  ASSUME FeedIInv, NEW q \in Request, Out(q), NEW r \in FeedRequest,
         req' = [req EXCEPT ![q] = r],
         r = Feed!Idle \/ (r.id = req[q].id /\ r.at = req[q].at),
         HasRead(r) => HoldsPage(r),
         UNCHANGED <<Feed!server, url, past, clearing, starting, newest, list, total, game, made,
                     odd, landed>>,
         loading' \in BOOLEAN, error' \in BOOLEAN, landed <=> ~loading' /\ ~error',
         loading' => loading /\ (Feed!Current(q) => r # Feed!Idle /\ r.watched = req[q].watched)
  PROVE  FeedIInv'
<1> USE DEF Feed!server
<1>t. FeedTypes
  BY DEF FeedIInv
<1>1. /\ req'[q] = r /\ \A p \in Request : p # q => req'[p] = req[p]
      /\ req' \in [Request -> FeedRequest]
  BY <1>t, FeedTypeFacts
<1>2. FeedTypes'
  BY <1>1, <1>t, FeedTypeFacts DEF FeedTypes, Feed!TypeOK
<1>3. AnswersTrue'
  <2> SUFFICES ASSUME NEW p \in Request, HasRead(req'[p]) PROVE HoldsPage(req[p])'
    BY DEF AnswersTrue, HasRead
  <2>1. HoldsPage(req'[p])
    BY <1>1 DEF FeedIInv, AnswersTrue
  <2> QED BY <2>1 DEF HoldsPage, Feed!Ranked, Feed!Slice, Feed!Listed, Feed!Weight, Feed!Stamp
<1>4. OneIsNewest' /\ NewestIsShown'
  BY <1>1 DEF FeedIInv, OneIsNewest, NewestIsShown, Out, Feed!Current
<1>5. StageKnown'
  BY DEF FeedIInv, StageKnown
<1>6. MadeNow' /\ ListGrows'
  BY SamePages DEF FeedIInv, MadeNow, ListGrows
<1>7. Feed!LoadingWatched'
  <2> SUFFICES ASSUME loading', ~starting'
               PROVE  \E p \in Request : req'[p] # Feed!Idle /\ req'[p].id = newest' /\ req'[p].watched
    BY DEF Feed!LoadingWatched, Feed!InFlight, Feed!Current
  <2>1. PICK p \in Request : req[p] # Feed!Idle /\ req[p].id = newest /\ req[p].watched
    BY DEF FeedIInv, Feed!LoadingWatched, Feed!InFlight, Feed!Current
  <2> QED BY <1>1, <2>1 DEF Feed!Current
<1> QED BY <1>2, <1>3, <1>4, <1>5, <1>6, <1>7 DEF FeedIInv

\* The rows are read, or the total is.
LEMMA HasBeenRead ==
  ASSUME FeedIInv, NEW q \in Request, Out(q), NEW ph \in {"reading", "answered"},
         NEW lines, NEW sum, NEW read \in SUBSET Nat,
         lines \in Seq(Feed!Quote), sum \in Nat,
         read \subseteq 0..Feed!Stamp(req[q].at.filter),
         read \subseteq {Feed!Stamp(req[q].at.filter)} =>
           lines = Feed!Rows(q) /\ sum = Feed!Count(q),
         Feed!Reads(q, ph, lines, sum, read)
  PROVE  FeedIInv'
<1> DEFINE st == Feed!Stamp(req[q].at.filter)
           r == [phase |-> ph, id |-> req[q].id, at |-> req[q].at, watched |-> req[q].watched,
                 rows |-> lines, total |-> sum, stamps |-> read \cup {st}]
<1>1. /\ req' = [req EXCEPT ![q] = r]
      /\ UNCHANGED <<Feed!server, Feed!nav, newest, Feed!view>>
  BY DEF Feed!Reads
<1>2. /\ req[q] \in FeedRequest /\ st \in Nat
      /\ loading \in BOOLEAN /\ error \in BOOLEAN /\ landed \in BOOLEAN
      /\ landed <=> ~loading /\ ~error
  BY FeedTypeFacts DEF FeedIInv, StageKnown, Feed!Stamp
<1>3. req[q].id \in Nat /\ req[q].at \in Address /\ req[q].watched \in BOOLEAN
  BY <1>2, FeedRequestFacts DEF Out
<1>4. r \in FeedRequest
  BY <1>2, <1>3 DEF FeedRequest, ReadRequest
<1>5. HoldsPage(r) /\ r.id = req[q].id /\ r.at = req[q].at /\ r.watched = req[q].watched
  <2>1. r.id = req[q].id /\ r.at = req[q].at /\ r.watched = req[q].watched
    OBVIOUS
  <2>2. r.rows = lines /\ r.total = sum /\ r.stamps = read \cup {st}
    OBVIOUS
  <2> HIDE DEF r
  <2>3. read \cup {st} \subseteq 0..st /\ read \cup {st} # {}
    <3>1. read \subseteq 0..st /\ st \in Nat
      BY <1>2
    <3> HIDE DEF st
    <3> QED BY <3>1
  <2>4. read \cup {st} = {st} => lines = Feed!Rows(q) /\ sum = Feed!Count(q)
    OBVIOUS
  <2> QED BY <2>1, <2>2, <2>3, <2>4 DEF HoldsPage, Feed!Rows, Feed!Count
<1>6. r # Feed!Idle
  BY DEF Feed!Idle
<1> HIDE DEF r
<1>7. /\ UNCHANGED <<Feed!server, url, past, clearing, starting, newest, list, total, game, made,
                     odd, landed>>
      /\ loading' = loading /\ error' = error
  BY <1>1 DEF Feed!nav, Feed!view
<1>8. landed <=> ~loading' /\ ~error'
  BY <1>2, <1>7
<1>9. loading' => loading /\ (Feed!Current(q) => r # Feed!Idle /\ r.watched = req[q].watched)
  BY <1>5, <1>6, <1>7
<1>10. loading' \in BOOLEAN /\ error' \in BOOLEAN
  BY <1>2, <1>7
<1> QED BY <1>1, <1>4, <1>5, <1>7, <1>8, <1>9, <1>10, CallSet

LEMMA Served ==
  ASSUME FeedIInv, NEW q \in Request, Feed!StartReading(q) \/ Feed!Answer(q)
  PROVE  FeedIInv'
<1> DEFINE st == Feed!Stamp(req[q].at.filter)
<1>1. /\ req[q] \in FeedRequest /\ approved \subseteq Feed!Quote /\ liked \in [Feed!Quote -> Nat]
      /\ st \in Nat
  BY FeedTypeFacts DEF FeedIInv, Feed!Stamp
<1>2. Out(q) /\ req[q].at \in Address
  BY <1>1, FeedRequestFacts DEF Out, Feed!StartReading, Feed!Answer
<1>3. Feed!Rows(q) \in Seq(Feed!Quote) /\ Feed!Count(q) \in Nat
  <2>1. req[q].at.page \in Nat \ {0}
    BY <1>2 DEF Address
  <2> QED BY <1>1, <2>1, PagesFollow DEF Feed!Rows, Feed!Count
<1>4. CASE Feed!StartReading(q)
  <2>1. Feed!Reads(q, "reading", Feed!Rows(q), Feed!Count(q), {})
    BY <1>4 DEF Feed!StartReading
  <2> QED BY <1>2, <1>3, <2>1, HasBeenRead
<1>5. CASE Feed!Answer(q)
  <2> DEFINE old == req[q].stamps
  <2>1. /\ req[q].rows \in Seq(Feed!Quote) /\ req[q].total \in Nat /\ old \in SUBSET Nat
        /\ old \subseteq 0..st /\ old # {}
        /\ old = {st} => req[q].rows = Feed!Rows(q) /\ req[q].total = Feed!Count(q)
    <3>1. HasRead(req[q])
      BY <1>5 DEF Feed!Answer, HasRead
    <3>2. HoldsPage(req[q])
      BY <3>1 DEF FeedIInv, AnswersTrue
    <3> QED BY <1>1, <3>1, <3>2, FeedRequestFacts DEF HoldsPage, Feed!Rows, Feed!Count
  <2>2. old \subseteq {st} => old = {st}
    BY <2>1
  <2>3. \/ Feed!Reads(q, "answered", req[q].rows, Feed!Count(q), old)
        \/ Feed!Reads(q, "answered", Feed!Rows(q), req[q].total, old)
    BY <1>5 DEF Feed!Answer
  <2> HIDE DEF old
  <2>4. CASE Feed!Reads(q, "answered", req[q].rows, Feed!Count(q), old)
    BY <1>2, <1>3, <2>1, <2>2, <2>4, HasBeenRead
  <2>5. CASE Feed!Reads(q, "answered", Feed!Rows(q), req[q].total, old)
    BY <1>2, <1>3, <2>1, <2>2, <2>5, HasBeenRead
  <2> QED BY <2>3, <2>4, <2>5
<1> QED BY <1>4, <1>5

LEMMA CallFails ==
  ASSUME FeedIInv, NEW q \in Request, Feed!Fail(q) \/ Feed!Hang(q) \/ Feed!Watchdog(q)
  PROVE  FeedIInv'
<1> USE DEF Feed!nav, Feed!view
<1>1. /\ req[q] \in FeedRequest /\ Feed!Idle \in FeedRequest /\ Feed!Idle.phase = "idle"
      /\ loading \in BOOLEAN /\ error \in BOOLEAN /\ landed \in BOOLEAN
      /\ landed <=> ~loading /\ ~error
  BY FeedTypeFacts DEF FeedIInv, StageKnown, FeedRequest, Feed!Idle
<1>2. Out(q) /\ (Feed!Current(q) => ~landed)
  <2>1. Out(q)
    BY <1>1, FeedRequestFacts DEF Out, Feed!Fail, Feed!Hang, Feed!Watchdog
  <2> QED BY <2>1 DEF FeedIInv, NewestIsShown
<1>3. Feed!Current(q) \in BOOLEAN
  BY DEF Feed!Current
<1>4. CASE Feed!Fail(q)
  <2>1. /\ req' = [req EXCEPT ![q] = Feed!Idle]
        /\ error' = (error \/ Feed!Current(q)) /\ loading' = (loading /\ ~Feed!Current(q))
        /\ UNCHANGED <<Feed!server, url, past, clearing, starting, newest, list, total, game,
                       made, odd, landed>>
    BY <1>4 DEF Feed!Fail
  <2>2. landed <=> ~loading' /\ ~error'
    BY <1>1, <1>2, <1>3, <2>1
  <2>3. /\ loading' => loading /\ (Feed!Current(q) => FALSE)
        /\ loading' \in BOOLEAN /\ error' \in BOOLEAN
    BY <1>1, <1>3, <2>1
  <2>4. ~HasRead(Feed!Idle)
    BY <1>1 DEF HasRead
  <2> HIDE DEF Feed!nav, Feed!view
  <2> QED BY <1>1, <1>2, <2>1, <2>2, <2>3, <2>4, CallSet
<1>5. CASE Feed!Hang(q)
  <2> DEFINE r == [req[q] EXCEPT !.phase = "hung"]
  <2>1. req[q] \in AskedRequest
    BY <1>1, <1>5, FeedRequestFacts DEF Feed!Hang
  <2>2. /\ r \in FeedRequest /\ r.id = req[q].id /\ r.at = req[q].at /\ r.watched = req[q].watched
        /\ r.phase = "hung"
    BY <2>1 DEF FeedRequest, AskedRequest
  <2>3. /\ req' = [req EXCEPT ![q] = r]
        /\ UNCHANGED <<Feed!server, url, past, clearing, starting, newest, list, total, game,
                       made, odd, landed, loading, error>>
    BY <1>5 DEF Feed!Hang
  <2> HIDE DEF r
  <2>4. landed <=> ~loading' /\ ~error'
    BY <1>1, <2>3
  <2>5. r # Feed!Idle
    BY <1>1, <2>2
  <2>6. /\ loading' => loading /\ (Feed!Current(q) => r # Feed!Idle /\ r.watched = req[q].watched)
        /\ loading' \in BOOLEAN /\ error' \in BOOLEAN
    BY <1>1, <2>2, <2>3, <2>5
  <2>7. HasRead(r) => HoldsPage(r)
    BY <2>2 DEF HasRead
  <2> QED BY <1>2, <2>2, <2>3, <2>4, <2>6, <2>7, CallSet
<1>6. CASE Feed!Watchdog(q)
  <2> DEFINE r == IF req[q].phase = "hung" THEN Feed!Idle ELSE [req[q] EXCEPT !.watched = FALSE]
  <2>1. /\ r \in FeedRequest /\ (r = Feed!Idle \/ (r.id = req[q].id /\ r.at = req[q].at))
        /\ HasRead(r) => HoldsPage(r)
    <3>1. CASE req[q] \in AskedRequest
      BY <1>1, <3>1 DEF FeedRequest, AskedRequest, HasRead
    <3>2. CASE req[q] \in ReadRequest
      <4> DEFINE w == [req[q] EXCEPT !.watched = FALSE]
      <4>1. /\ w \in ReadRequest /\ w.id = req[q].id /\ w.at = req[q].at /\ r = w
            /\ w.stamps = req[q].stamps /\ w.rows = req[q].rows /\ w.total = req[q].total
        BY <3>2 DEF ReadRequest
      <4>2. HoldsPage(req[q])
        BY <3>2 DEF ReadRequest, HasRead, FeedIInv, AnswersTrue
      <4> HIDE DEF w, r
      <4> QED BY <4>1, <4>2 DEF FeedRequest, HoldsPage
    <3>3. req[q] # Feed!Idle
      BY <1>2 DEF Out
    <3> QED BY <1>1, <3>1, <3>2, <3>3 DEF FeedRequest
  <2>2. /\ req' = [req EXCEPT ![q] = r]
        /\ error' = (error \/ Feed!Current(q)) /\ loading' = (loading /\ ~Feed!Current(q))
        /\ UNCHANGED <<Feed!server, url, past, clearing, starting, newest, list, total, game,
                       made, odd, landed>>
    BY <1>6 DEF Feed!Watchdog, Feed!GivesUp
  <2> HIDE DEF r
  <2>3. landed <=> ~loading' /\ ~error'
    BY <1>1, <1>2, <1>3, <2>2
  <2>4. /\ loading' => loading /\ (Feed!Current(q) => r # Feed!Idle /\ r.watched = req[q].watched)
        /\ loading' \in BOOLEAN /\ error' \in BOOLEAN
    BY <1>1, <1>3, <2>2
  <2> QED BY <1>2, <2>1, <2>2, <2>3, <2>4, CallSet
<1> QED BY <1>4, <1>5, <1>6

\* fetchQuotes: the newest request asks for the address, its list holds the pages before.
LEMMA Fetched ==
  ASSUME FeedIInv, NEW q \in Request, Feed!Fetch(q),
         UNCHANGED <<Feed!server, url, past, clearing, list, total, made>>,
         game' \in BOOLEAN, starting' \in BOOLEAN, starting' => starting, clearing => starting',
         odd' \subseteq Unusual,
         odd' = {} => odd = {} /\ (url.page > 1 => (landed => starting) /\ ~starting')
  PROVE  FeedIInv'
<1> DEFINE r == [phase |-> "asked", id |-> newest + 1, at |-> url, watched |-> TRUE]
<1>t. FeedTypes
  BY DEF FeedIInv
<1>1. /\ req[q] = Feed!Idle /\ newest' = newest + 1 /\ req' = [req EXCEPT ![q] = r]
      /\ loading' = TRUE /\ error' = FALSE /\ landed' = FALSE
      /\ UNCHANGED <<approved, trashed, liked, version, changes>>
  BY DEF Feed!Fetch, Feed!server
<1>2. /\ r \in FeedRequest /\ r # Feed!Idle /\ r.phase = "asked" /\ r.id = newest + 1
      /\ r.at = url /\ r.watched = TRUE /\ newest \in Nat
  <2>1. url \in Address /\ newest \in Nat
    BY <1>t, FeedTypeFacts
  <2>2. r \in AskedRequest
    BY <2>1 DEF AskedRequest
  <2>3. Feed!Idle.phase = "idle"
    BY DEF Feed!Idle
  <2> QED BY <2>1, <2>2, <2>3 DEF FeedRequest
<1> HIDE DEF r
<1>3. /\ req'[q] = r /\ \A p \in Request : p # q => req'[p] = req[p]
      /\ req' \in [Request -> FeedRequest]
  BY <1>1, <1>2, <1>t, FeedTypeFacts
<1>4. \A p \in Request : p # q /\ Out(p) => req[p].id \in 1..newest /\ req'[p].id # newest'
  BY <1>1, <1>2, <1>3 DEF FeedIInv, OneIsNewest
<1>5. FeedTypes'
  <2>1. /\ loading' \in BOOLEAN /\ error' \in BOOLEAN /\ landed' \in BOOLEAN
        /\ clearing' \in BOOLEAN
    BY <1>1, <1>t, FeedTypeFacts
  <2>2. newest' \in Nat
    BY <1>1, <1>2
  <2>3. /\ url' \in Address /\ past' \in Address /\ list' \in Seq(Feed!Quote) /\ total' \in Nat
        /\ approved' \subseteq Feed!Quote /\ trashed' \subseteq approved'
        /\ liked' \in [Feed!Quote -> Nat] /\ version' \in Nat /\ changes' \in Nat /\ made' \subseteq Nat
    BY <1>1, <1>t, FeedTypeFacts
  <2> QED BY <1>3, <2>1, <2>2, <2>3 DEF FeedTypes, Feed!TypeOK, Address, Unusual
<1>6. AnswersTrue'
  <2>1. \A p \in Request : HasRead(req'[p]) => req'[p] = req[p]
    BY <1>2, <1>3 DEF HasRead
  <2> QED BY <1>1, <2>1, SameAnswers DEF FeedIInv
<1>7. OneIsNewest'
  <2>1. \A p \in Request : Out(p)' => req'[p].id \in 1..newest'
    BY <1>1, <1>2, <1>3, <1>4 DEF Out
  <2>2. \A p \in Request : Out(p)' /\ Feed!Current(p)' => p = q
    BY <1>3, <1>4 DEF Out, Feed!Current
  <2> QED BY <2>1, <2>2 DEF OneIsNewest
<1>8. NewestIsShown'
  <2>1. \A p \in Request : Out(p)' /\ Feed!Current(p)' => p = q
    BY <1>3, <1>4 DEF Out, Feed!Current
  <2> QED BY <1>1, <1>2, <1>3, <2>1 DEF NewestIsShown
<1>9. StageKnown'
  BY <1>1 DEF FeedIInv, StageKnown
<1>10. MadeNow' /\ ListGrows'
  <2>1. \A n : Pages(n)' = Pages(n)
    BY <1>1, SamePages
  <2>2. Feed!Stamp(url.filter)' = Feed!Stamp(url.filter)
    BY <1>1, SamePages
  <2> QED BY <1>1, <2>1, <2>2 DEF FeedIInv, MadeNow, ListGrows
<1>11. Feed!LoadingWatched'
  BY <1>1, <1>2, <1>3 DEF Feed!LoadingWatched, Feed!InFlight, Feed!Current
<1> QED BY <1>5, <1>6, <1>7, <1>8, <1>9, <1>10, <1>11 DEF FeedIInv

LEMMA Asks ==
  ASSUME FeedIInv, NEW q \in Request, Feed!StartFetch(q) \/ Feed!Retry(q) \/ Feed!GameReady(q)
  PROVE  FeedIInv'
<1> USE DEF Feed!nav
<1>1. /\ starting \in BOOLEAN /\ game \in BOOLEAN /\ odd \subseteq Unusual
      /\ clearing \in BOOLEAN /\ landed \in BOOLEAN
  BY FeedTypeFacts DEF FeedIInv
<1>2. /\ clearing => starting
      /\ error => ~landed
      /\ odd = {} /\ url.page > 1 => (starting => landed)
  BY DEF FeedIInv, StageKnown
<1>3. CASE Feed!StartFetch(q)
  <2>1. /\ Feed!Fetch(q) /\ starting /\ ~clearing /\ starting' = FALSE
        /\ UNCHANGED <<Feed!server, url, past, clearing, list, total, game, made, odd>>
    BY <1>3 DEF Feed!StartFetch
  <2> QED BY <1>1, <2>1, Fetched
<1>4. CASE Feed!Retry(q)
  <2>1. /\ Feed!Fetch(q) /\ error
        /\ UNCHANGED <<Feed!server, url, past, clearing, starting, list, total, game, made, odd>>
    BY <1>4 DEF Feed!Retry
  <2>2. odd' = {} => odd = {} /\ (url.page > 1 => (landed => starting) /\ ~starting')
    <3>1. ~landed
      BY <1>2, <2>1
    <3>2. odd = {} /\ url.page > 1 => ~starting
      BY <1>2, <3>1
    <3>3. starting' = starting /\ odd' = odd
      BY <2>1
    <3> QED BY <3>1, <3>2, <3>3
  <2> QED BY <1>1, <1>2, <2>1, <2>2, Fetched
<1>5. CASE Feed!GameReady(q)
  <2>1. /\ Feed!Fetch(q) /\ game' = FALSE
        /\ odd' = IF landed /\ url.page > 1 THEN odd \cup {"again"} ELSE odd
        /\ UNCHANGED <<Feed!server, url, past, clearing, starting, list, total, made>>
    BY <1>5 DEF Feed!GameReady
  <2>2. odd' = {} => odd = {} /\ (url.page > 1 => (landed => starting) /\ ~starting')
    BY <1>1, <1>2, <2>1
  <2>3. odd' \subseteq Unusual /\ game' \in BOOLEAN /\ starting' \in BOOLEAN
    BY <1>1, <2>1 DEF Unusual
  <2>4. (starting' => starting) /\ (clearing => starting')
    BY <1>2, <2>1
  <2> QED BY <2>1, <2>2, <2>3, <2>4, Fetched
<1> QED BY <1>3, <1>4, <1>5

\* The newest answer: page 1 replaces the list, a later page follows those before it.
LEMMA NewestArrived ==
  ASSUME FeedIInv, NEW q \in Request, Feed!Arrive(q), Feed!Current(q)
  PROVE  FeedIInv'
<1> DEFINE a == req[q]
<1>t. FeedTypes
  BY DEF FeedIInv
<1>1. /\ a.phase = "answered" /\ req' = [req EXCEPT ![q] = Feed!Idle]
      /\ error' = FALSE /\ loading' = FALSE /\ landed' = TRUE
      /\ list' = IF a.at.page = 1 THEN a.rows ELSE list \o a.rows
      /\ made' = IF a.at.page = 1 THEN a.stamps ELSE made \cup a.stamps
      /\ odd' = IF a.at.page = 1 /\ a.at = url THEN {} ELSE odd
      /\ total' = a.total
      /\ UNCHANGED <<approved, trashed, liked, version, changes, url, past, clearing, starting, newest, game>>
  BY DEF Feed!Arrive, Feed!server, Feed!nav
<1>2. /\ a \in FeedRequest /\ a # Feed!Idle /\ a.at \in Address
      /\ a.rows \in Seq(Feed!Quote) /\ a.total \in Nat /\ a.stamps \in SUBSET Nat /\ HasRead(a)
  <2>1. HasRead(a)
    BY <1>1 DEF HasRead
  <2> QED BY <1>1, <1>t, <2>1, FeedTypeFacts, FeedRequestFacts
<1>3. /\ ~landed /\ (~starting => a.at.filter = url.filter /\ a.at.page = url.page)
      /\ HoldsPage(a) /\ a.stamps \subseteq 0..Feed!Stamp(a.at.filter) /\ a.stamps # {}
  BY <1>1, <1>2 DEF FeedIInv, NewestIsShown, AnswersTrue, HoldsPage, Out
<1> HIDE DEF a
<1>4. FeedTypes'
  <2>1. list \in Seq(Feed!Quote) /\ list \o a.rows \in Seq(Feed!Quote)
    BY <1>2, <1>t, FeedTypeFacts, ConcatProperties
  <2>2. made' \subseteq Nat
    BY <1>1, <1>2, <1>t, FeedTypeFacts
  <2>3. req' \in [Request -> FeedRequest]
    BY <1>1, <1>t, FeedTypeFacts DEF FeedRequest
  <2>4. list' \in Seq(Feed!Quote) /\ total' \in Nat /\ odd' \subseteq Unusual
    BY <1>1, <1>2, <1>t, <2>1, FeedTypeFacts
  <2> QED BY <1>1, <1>t, <2>2, <2>3, <2>4, FeedTypeFacts DEF FeedTypes, Feed!TypeOK
<1>5. req'[q] = Feed!Idle /\ \A p \in Request : p # q => req'[p] = req[p]
  BY <1>1, <1>t, FeedTypeFacts
<1>6. AnswersTrue'
  <2>1. \A p \in Request : HasRead(req'[p]) => req'[p] = req[p]
    BY <1>5 DEF HasRead, Feed!Idle
  <2> QED BY <1>1, <2>1, SameAnswers DEF FeedIInv
<1>7. OneIsNewest'
  BY <1>1, <1>5 DEF FeedIInv, OneIsNewest, Out, Feed!Current
<1>8. NewestIsShown'
  <2>1. \A p \in Request : Out(p)' /\ Feed!Current(p)' => p # q /\ Out(p) /\ Feed!Current(p)
    BY <1>1, <1>5 DEF Out, Feed!Current
  <2>2. Out(q)
    BY <1>2 DEF Out, a
  <2> QED BY <2>1, <2>2 DEF FeedIInv, OneIsNewest, NewestIsShown
<1>9. made' # {} /\ (odd' = {} /\ url.page > 1 => odd = {})
  <2>1. made' # {}
    BY <1>1, <1>3
  <2>2. a.at = url /\ a.at.page = 1 => ~(url.page > 1)
    BY <1>2 DEF Address
  <2> QED BY <1>1, <2>1, <2>2
<1>10. StageKnown'
  BY <1>1, <1>9 DEF FeedIInv, StageKnown
<1>11. MadeNow' /\ ListGrows'
  <2> DEFINE st == Feed!Stamp(url.filter)
  <2>0. /\ \A n : Pages(n)' = Pages(n)
        /\ Feed!Ranked(url.filter)' = Feed!Ranked(url.filter) /\ Feed!Stamp(url.filter)' = st
    BY <1>1, SamePages
  <2>1. odd' = {} /\ url.page > 1 => ~starting
    BY <1>3, <1>9 DEF FeedIInv, StageKnown
  <2>2. /\ url.page \in Nat \ {0} /\ approved \subseteq Feed!Quote /\ liked \in [Feed!Quote -> Nat]
        /\ st \in Nat
    BY <1>t, FeedTypeFacts DEF Address, Feed!Stamp
  <2>3. ASSUME odd' = {}, ~starting
        PROVE  /\ made' \subseteq 0..st
               /\ made' = {st} => list' = Pages(url.page) /\ total' = Len(Feed!Ranked(url.filter))
    <3>1. /\ a.at.filter = url.filter /\ a.at.page = url.page /\ a.stamps \subseteq 0..st
          /\ a.stamps = {st} => /\ a.rows = Feed!Slice(url.filter, url.page)
                                /\ a.total = Len(Feed!Ranked(url.filter))
      BY <1>3, <2>3 DEF HoldsPage
    <3>2. CASE url.page = 1
      BY <1>1, <2>2, <3>1, <3>2, PagesFollow DEF Pages
    <3>3. CASE url.page > 1
      <4>1. odd = {} /\ made # {}
        BY <1>9, <2>3, <3>3 DEF FeedIInv, StageKnown
      <4>2. made \subseteq 0..st
        BY <3>3, <4>1 DEF FeedIInv, MadeNow
      <4>3. made' = made \cup a.stamps
        BY <1>1, <3>1, <3>3
      <4>4. ASSUME made' = {st} PROVE list' = Pages(url.page) /\ total' = Len(Feed!Ranked(url.filter))
        <5>1. made = {st} /\ a.stamps = {st}
          BY <1>3, <4>1, <4>3, <4>4
        <5>2. list = Pages(url.page - 1)
          BY <1>3, <3>3, <4>1, <5>1 DEF FeedIInv, ListGrows
        <5>3. list' = Pages(url.page - 1) \o Feed!Slice(url.filter, url.page)
          <6>1. a.rows = Feed!Slice(url.filter, url.page)
            BY <3>1, <5>1
          <6>2. a.at.page # 1
            BY <2>2, <3>1, <3>3
          <6> QED BY <1>1, <5>2, <6>1, <6>2
        <5> QED BY <1>1, <2>2, <3>1, <5>1, <5>3, PagesFollow DEF Pages
      <4> QED BY <3>1, <4>2, <4>3, <4>4
    <3> QED BY <2>2, <3>2, <3>3
  <2> QED BY <1>1, <2>0, <2>1, <2>3 DEF MadeNow, ListGrows
<1>12. Feed!LoadingWatched'
  BY <1>1 DEF Feed!LoadingWatched
<1> QED BY <1>4, <1>6, <1>7, <1>8, <1>10, <1>11, <1>12 DEF FeedIInv

LEMMA Arrived ==
  ASSUME FeedIInv, NEW q \in Request, Feed!Arrive(q)
  PROVE  FeedIInv'
<1>1. CASE ~Feed!Current(q)
  <2>1. /\ req[q] \in FeedRequest /\ Feed!Idle \in FeedRequest /\ Feed!Idle.phase = "idle"
        /\ loading \in BOOLEAN /\ error \in BOOLEAN /\ landed \in BOOLEAN
        /\ landed <=> ~loading /\ ~error
    BY FeedTypeFacts DEF FeedIInv, StageKnown, FeedRequest, Feed!Idle
  <2>2. Out(q)
    BY <2>1, FeedRequestFacts DEF Out, Feed!Arrive
  <2>3. /\ req' = [req EXCEPT ![q] = Feed!Idle]
        /\ UNCHANGED <<Feed!server, url, past, clearing, starting, newest, list, total, game,
                       made, odd, landed>>
        /\ loading' = loading /\ error' = error
    BY <1>1 DEF Feed!Arrive, Feed!nav
  <2>4. landed <=> ~loading' /\ ~error'
    BY <2>1, <2>3
  <2>5. /\ loading' => loading /\ (Feed!Current(q) => FALSE)
        /\ loading' \in BOOLEAN /\ error' \in BOOLEAN
    BY <1>1, <2>1, <2>3
  <2>6. ~HasRead(Feed!Idle)
    BY <2>1 DEF HasRead
  <2> QED BY <2>1, <2>2, <2>3, <2>4, <2>5, <2>6, CallSet
<1>2. CASE Feed!Current(q)
  BY <1>2, NewestArrived
<1> QED BY <1>1, <1>2

LEMMA LinkArrived ==
  ASSUME FeedIInv, Feed!ArriveLink
  PROVE  FeedIInv'
<1>t. FeedTypes
  BY DEF FeedIInv
<1>1. CASE UNCHANGED <<list, total, odd>>
  <2>1. game \in BOOLEAN
    BY <1>t, FeedTypeFacts
  <2> QED BY <1>1, <2>1, FeedKept DEF Feed!ArriveLink, Feed!nav
<1>2. CASE ~UNCHANGED <<list, total, odd>>
  <2>1. /\ link \in approved /\ total' = total + 1 /\ odd' = odd \cup {"linked"}
        /\ list' = list \/ list' = <<link>> \o list
        /\ UNCHANGED <<approved, trashed, liked, version, changes, url, past, clearing, starting, req, newest,
                       loading, error, game, made, landed>>
    BY <1>2 DEF Feed!ArriveLink, Feed!Readable, Feed!server, Feed!nav
  <2>2. list' \in Seq(Feed!Quote) /\ total' \in Nat
    <3>1. /\ <<link>> \in Seq(Feed!Quote) /\ list \in Seq(Feed!Quote)
          /\ <<link>> \o list \in Seq(Feed!Quote)
      BY <1>t, <2>1, FeedTypeFacts, ConcatProperties
    <3>2. total \in Nat
      BY <1>t, FeedTypeFacts
    <3>3. list' \in Seq(Feed!Quote)
      BY <2>1, <3>1, Zenon
    <3>4. total' \in Nat
      BY <2>1, <3>2
    <3> QED BY <3>3, <3>4
  <2>3. FeedTypes'
    BY <1>t, <2>1, <2>2, FeedTypeFacts DEF FeedTypes, Feed!TypeOK
  <2>4. AnswersTrue'
    BY <2>1, SameAnswers DEF FeedIInv
  <2>5. OneIsNewest' /\ NewestIsShown' /\ StageKnown' /\ MadeNow' /\ ListGrows'
    BY <2>1 DEF FeedIInv, OneIsNewest, NewestIsShown, Out, Feed!Current, StageKnown, MadeNow, ListGrows
  <2>6. Feed!LoadingWatched'
    BY <2>1 DEF FeedIInv, Feed!LoadingWatched, Feed!InFlight, Feed!Current
  <2> QED BY <2>3, <2>4, <2>5, <2>6 DEF FeedIInv
<1> QED BY <1>1, <1>2

LEMMA FeedStep == FeedIInv /\ [Feed!Next]_(Feed!vars) => FeedIInv'
<1> SUFFICES ASSUME FeedIInv, [Feed!Next]_(Feed!vars) PROVE FeedIInv'
  OBVIOUS
<1>t. approved \subseteq Feed!Quote /\ trashed \subseteq approved
  BY FeedTypeFacts DEF FeedIInv
<1>1. CASE UNCHANGED Feed!vars
  BY <1>1, FeedStill
<1>2. ASSUME NEW n \in Feed!Quote,
             Feed!Approve(n) \/ Feed!Archive(n) \/ Feed!Restore(n) \/ Feed!Erase(n)
      PROVE  FeedIInv'
  <2>1. PICK app, gone : app \subseteq Feed!Quote /\ gone \subseteq app /\ Feed!Edit(app, gone)
    <3>1. CASE Feed!Approve(n)
      BY <1>t, <3>1 DEF Feed!Approve
    <3>2. CASE Feed!Archive(n)
      BY <1>t, <3>2 DEF Feed!Archive
    <3>3. CASE Feed!Restore(n)
      BY <1>t, <3>3 DEF Feed!Restore
    <3>4. CASE Feed!Erase(n)
      BY <1>t, <3>4 DEF Feed!Erase
    <3> QED BY <1>2, <3>1, <3>2, <3>3, <3>4
  <2> QED BY <2>1, Edited
<1>12. ASSUME NEW n \in Feed!Quote, Feed!Scores(n) PROVE FeedIInv'
  BY <1>12, Scored
<1>3. CASE Feed!ChooseFilter \/ Feed!LoadMore \/ Feed!Back
  BY <1>3, Clicked
<1>4. CASE Feed!Clear
  BY <1>4, ListCleared
<1>5. ASSUME NEW q \in Request, Feed!StartFetch(q) \/ Feed!Retry(q) \/ Feed!GameReady(q)
      PROVE  FeedIInv'
  BY <1>5, Asks
<1>6. ASSUME NEW q \in Request, Feed!StartReading(q) \/ Feed!Answer(q) PROVE FeedIInv'
  BY <1>6, Served
<1>7. ASSUME NEW q \in Request, Feed!Arrive(q) PROVE FeedIInv'
  BY <1>7, Arrived
<1>8. ASSUME NEW q \in Request, Feed!Fail(q) \/ Feed!Hang(q) \/ Feed!Watchdog(q) PROVE FeedIInv'
  BY <1>8, CallFails
<1>9. CASE Feed!ShowGame
  BY <1>9, FeedKept DEF Feed!ShowGame, Feed!nav
<1>10. CASE Feed!AskLink
  <2>1. game \in BOOLEAN
    BY FeedTypeFacts DEF FeedIInv
  <2> QED BY <1>10, <2>1, FeedKept DEF Feed!AskLink, Feed!nav, Feed!view
<1>11. CASE Feed!ArriveLink
  BY <1>11, LinkArrived
<1> QED BY <1>1, <1>2, <1>3, <1>4, <1>5, <1>6, <1>7, <1>8, <1>9, <1>10, <1>11, <1>12 DEF Feed!Next

LEMMA FeedGoal == FeedIInv => Feed!TypeOK /\ Feed!FeedIsPrefix /\ Feed!LoadingWatched
<1> SUFFICES ASSUME FeedIInv PROVE Feed!FeedIsPrefix
  BY DEF FeedIInv, FeedTypes
<1>1. Feed!Settled => landed /\ ~starting
  BY DEF FeedIInv, StageKnown, Feed!Settled
<1> QED BY <1>1 DEF FeedIInv, ListGrows, Pages, Feed!FeedIsPrefix

(* For any quotes, filters, page size and number of requests under way, a  *)
(* feed at rest is exactly the first pages of what its address asks for,   *)
(* but for the lists HomeFeed names, and a spinner has a request with a    *)
(* watchdog (HomeFeed.tsx, GET /api/quotes).                               *)
THEOREM FeedHolds == Spec => []FeedCorrect
<1>1. Init => FeedInductive
  BY FeedStarts, FeedInit DEF FeedInductive
<1>2. FeedInductive /\ [Next]_all => FeedInductive'
  BY FeedMoves, FeedStep DEF FeedInductive
<1>3. FeedInductive => FeedCorrect
  BY FeedGoal DEF FeedInductive, FeedCorrect
<1> QED BY <1>1, <1>2, <1>3, PTL DEF Spec
=============================================================================
