------------------------ MODULE QuoteModerationProofs ------------------------
(***************************************************************************)
(* Theorems about QuoteModeration, for any quotes, requests and bounds:    *)
(* its safety properties, and that it implements ModerationLedger.         *)
(***************************************************************************)
EXTENDS QuoteModeration, FiniteSetTheorems, TLAPS

-----------------------------------------------------------------------------
\* Updates of functions of functions

LEMMA NestedUpdate ==
    ASSUME NEW A, NEW B, NEW S, NEW f \in [A -> [B -> S]],
           NEW a \in A, NEW b \in B, NEW v \in S
    PROVE  /\ [f EXCEPT ![a][b] = v] \in [A -> [B -> S]]
           /\ [f EXCEPT ![a][b] = v][a][b] = v
           /\ \A x \in A, y \in B :
                 x # a \/ y # b => [f EXCEPT ![a][b] = v][x][y] = f[x][y]
OBVIOUS

\* The same for a whole row of the table.
LEMMA RowUpdate ==
    ASSUME NEW A, NEW B, NEW S, NEW f \in [A -> [B -> S]],
           NEW a \in A, NEW g \in [B -> S]
    PROVE  /\ [f EXCEPT ![a] = g] \in [A -> [B -> S]]
           /\ [f EXCEPT ![a] = g][a] = g
           /\ \A x \in A : x # a => [f EXCEPT ![a] = g][x] = f[x]
OBVIOUS

LEMMA GotoType ==
    ASSUME LocalType, NEW r \in Request, NEW q \in Quote, NEW l \in Label, Goto(r, q, l)
    PROVE  /\ pc' \in [Request -> [Quote -> Label]]
           /\ pc'[r][q] = l
           /\ \A x \in Request, y \in Quote : x # r \/ y # q => pc'[x][y] = pc[x][y]
BY NestedUpdate DEF Goto, LocalType

LEMMA ForgetLocalsType ==
    ASSUME LocalType, NEW r \in Request, NEW q \in Quote, ForgetLocals(r, q)
    PROVE  /\ seen' \in [Request -> [Quote -> Status]]
           /\ tries' \in [Request -> [Quote -> 0 .. CasAttempts - 1]]
           /\ \A x \in Request, y \in Quote : x # r \/ y # q => seen'[x][y] = seen[x][y]
<1>1. "NONE" \in Status /\ 0 \in 0 .. CasAttempts - 1
  BY CasAttemptsAssumption DEF Status
<1>2. seen' \in [Request -> [Quote -> Status]]
  BY <1>1, NestedUpdate DEF ForgetLocals, LocalType
<1>3. \A x \in Request, y \in Quote : x # r \/ y # q => seen'[x][y] = seen[x][y]
  BY <1>1, NestedUpdate DEF ForgetLocals, LocalType
<1>4. tries' \in [Request -> [Quote -> 0 .. CasAttempts - 1]]
  <2>. DEFINE Rounds == 0 .. CasAttempts - 1
  <2>1. 0 \in Rounds /\ tries \in [Request -> [Quote -> Rounds]]
    BY <1>1 DEF LocalType
  <2>. HIDE DEF Rounds
  <2>2. tries' \in [Request -> [Quote -> Rounds]]
    BY <2>1, NestedUpdate DEF ForgetLocals
  <2>. QED BY <2>2 DEF Rounds
<1> QED
  BY <1>2, <1>3, <1>4

-----------------------------------------------------------------------------
\* Type correctness

LEMMA RowUnchanged == RowType /\ UNCHANGED row => RowType'
BY DEF RowType, row

LEMMA HistoryUnchanged == HistoryType /\ UNCHANGED <<history, faults>> => HistoryType'
BY DEF HistoryType, history

LEMMA FaultType == HistoryType /\ Fault => faults' \in Nat
BY DEF HistoryType, Fault

LEMMA GotoOnly ==
    ASSUME LocalType, NEW r \in Request, NEW q \in Quote, NEW l \in Label, Goto(r, q, l),
           UNCHANGED <<mode, goal, seen, tries>>
    PROVE  LocalType'
BY GotoType DEF LocalType

LEMMA GotoForget ==
    ASSUME LocalType, NEW r \in Request, NEW q \in Quote, NEW l \in Label, Goto(r, q, l),
           ForgetLocals(r, q), mode' \in [Request -> Mode], UNCHANGED goal
    PROVE  LocalType'
BY GotoType, ForgetLocalsType DEF LocalType

LEMMA Stamps ==
    ASSUME RowType, NEW q \in Quote, NEW v \in Request \cup {NoStamp, Posted},
           stamp' = [stamp EXCEPT ![q] = v], UNCHANGED <<status, awaiting, archived>>
    PROVE  RowType'
BY DEF RowType

LEMMA Delivers ==
    ASSUME HistoryType, NEW q \in Quote, NEW who \in {"auto", "manual"}, Deliver(q, who)
    PROVE  /\ posts' \in [Quote -> [{"auto", "manual"} -> Nat]]
           /\ posts'[q][who] = posts[q][who] + 1
           /\ \A x \in Quote, w \in {"auto", "manual"} :
                 x # q \/ w # who => posts'[x][w] = posts[x][w]
<1>1. posts[q][who] + 1 \in Nat
  BY DEF HistoryType
<1>2. posts' = [posts EXCEPT ![q][who] = posts[q][who] + 1]
  BY DEF Deliver, HistoryType
<1>. QED
  BY <1>1, <1>2, NestedUpdate DEF HistoryType

LEMMA TypeRead ==
    ASSUME TypeOK, NEW r \in Request, NEW q \in Quote, Read(r, q)
    PROVE  TypeOK'
<1>. USE DEF TypeOK
<1>1. RowType' /\ HistoryType'
  BY RowUnchanged, HistoryUnchanged DEF Read
<1>2. mode' \in [Request -> Mode] /\ goal' \in [Request -> Decision]
  BY DEF Read, LocalType
<1>3. pc' \in [Request -> [Quote -> Label]]
  <2>1. "cas" \in Label /\ "lost" \in Label
    BY DEF Label
  <2>. QED BY <2>1, GotoType DEF Read
<1>4. /\ seen' \in [Request -> [Quote -> Status]]
      /\ tries' \in [Request -> [Quote -> 0 .. CasAttempts - 1]]
  <2>1. CASE ForgetLocals(r, q)
    BY <2>1, ForgetLocalsType
  <2>2. CASE seen' = [seen EXCEPT ![r][q] = status[q]] /\ UNCHANGED tries
    <3>1. status[q] \in Status /\ seen \in [Request -> [Quote -> Status]]
      BY DEF RowType, LocalType
    <3>2. seen' \in [Request -> [Quote -> Status]]
      BY <2>2, <3>1, NestedUpdate
    <3>. QED BY <2>2, <3>2 DEF LocalType
  <2>. QED BY <2>1, <2>2 DEF Read
<1>. QED
  BY <1>1, <1>2, <1>3, <1>4 DEF LocalType

LEMMA TypeSwap ==
    ASSUME TypeOK, NEW r \in Request, NEW q \in Quote, Swap(r, q)
    PROVE  TypeOK'
<1>. USE DEF TypeOK
<1>1. goal[r] \in Decision /\ goal[r] \in Status
  BY DEF LocalType, Status
<1>2. RowType'
  BY <1>1 DEF Swap, RowType
<1>3. LocalType'
  <2>1. "won" \in Label
    BY DEF Label
  <2>2. mode' \in [Request -> Mode] /\ UNCHANGED goal
    BY DEF Swap, LocalType
  <2>. QED BY <2>1, <2>2, GotoForget DEF Swap
<1>4. flips' \in [Quote -> [Decision -> Nat]]
  <2>1. flips[q][goal[r]] + 1 \in Nat
    BY <1>1 DEF HistoryType
  <2>2. flips' = [flips EXCEPT ![q][goal[r]] = flips[q][goal[r]] + 1]
    BY <1>1 DEF Swap, HistoryType
  <2>. QED BY <1>1, <2>1, <2>2, NestedUpdate DEF HistoryType
<1>5. HistoryType'
  <2>1. UNCHANGED <<posts, notices, slips, faults>>
    BY DEF Swap
  <2>. QED BY <1>4, <2>1 DEF HistoryType
<1>. QED
  BY <1>2, <1>3, <1>5

LEMMA TypeSwapMissed ==
    ASSUME TypeOK, NEW r \in Request, NEW q \in Quote, SwapMissed(r, q)
    PROVE  TypeOK'
<1>. USE DEF TypeOK
<1>1. RowType' /\ HistoryType'
  BY RowUnchanged, HistoryUnchanged DEF SwapMissed
<1>2. mode' \in [Request -> Mode] /\ goal' \in [Request -> Decision]
  BY DEF SwapMissed, LocalType
<1>3. pc' \in [Request -> [Quote -> Label]]
  <2>1. "read" \in Label /\ "lost" \in Label
    BY DEF Label
  <2>. QED BY <2>1, GotoType DEF SwapMissed
<1>4. /\ seen' \in [Request -> [Quote -> Status]]
      /\ tries' \in [Request -> [Quote -> 0 .. CasAttempts - 1]]
  <2>1. CASE ForgetLocals(r, q)
    BY <2>1, ForgetLocalsType
  <2>2. CASE MoreAttempts(r, q) /\ tries' = [tries EXCEPT ![r][q] = @ + 1]
             /\ seen' = [seen EXCEPT ![r][q] = "NONE"]
    <3>1. seen' \in [Request -> [Quote -> Status]]
      BY <2>2, NestedUpdate DEF LocalType, Status
    <3>. DEFINE Rounds == 0 .. CasAttempts - 1
    <3>2. tries[r][q] + 1 \in Rounds /\ tries \in [Request -> [Quote -> Rounds]]
      <4>1. tries[r][q] \in 0 .. CasAttempts - 1
        BY DEF LocalType
      <4>. QED BY <2>2, <4>1, CasAttemptsAssumption DEF MoreAttempts, LocalType
    <3>3. tries' = [tries EXCEPT ![r][q] = tries[r][q] + 1]
      BY <2>2 DEF LocalType
    <3>. HIDE DEF Rounds
    <3>4. tries' \in [Request -> [Quote -> Rounds]]
      BY <3>2, <3>3, NestedUpdate
    <3>. QED BY <3>1, <3>4 DEF Rounds
  <2>. QED BY <2>1, <2>2 DEF SwapMissed
<1>. QED
  BY <1>1, <1>2, <1>3, <1>4 DEF LocalType

LEMMA TypeAnnounce ==
    ASSUME TypeOK, NEW r \in Request, NEW q \in Quote, Announce(r, q)
    PROVE  TypeOK'
<1>. USE DEF TypeOK
<1>1. RowType'
  BY RowUnchanged DEF Announce
<1>2. LocalType'
  BY GotoOnly DEF Announce, Label
<1>3. goal[r] \in Decision /\ notices[q][goal[r]] + 1 \in Nat
  BY DEF LocalType, HistoryType
<1>4. notices' = [notices EXCEPT ![q][goal[r]] = notices[q][goal[r]] + 1]
  BY <1>3 DEF Announce, HistoryType
<1>5. notices' \in [Quote -> [Decision -> Nat]]
  BY <1>3, <1>4, NestedUpdate DEF HistoryType
<1>6. UNCHANGED <<posts, flips, slips, faults>>
  BY DEF Announce
<1>. QED
  BY <1>1, <1>2, <1>5, <1>6 DEF HistoryType

LEMMA TypePublication ==
    ASSUME TypeOK, NEW r \in Request, NEW q \in Quote,
           \/ Claim(r, q) \/ Send(r, q) \/ SendRefused(r, q) \/ SendUnanswered(r, q)
           \/ Mark(r, q) \/ MarkThrows(r, q) \/ Release(r, q) \/ ReleaseThrows(r, q)
    PROVE  TypeOK'
<1>. USE DEF TypeOK
<1>1. CASE Claim(r, q)
  <2>1. RowType'
    BY <1>1, Stamps, RowUnchanged DEF Claim, row
  <2>2. LocalType'
    BY <1>1, GotoOnly DEF Claim, Label
  <2>3. HistoryType'
    BY <1>1, HistoryUnchanged DEF Claim
  <2>. QED BY <2>1, <2>2, <2>3
<1>2. CASE Send(r, q)
  <2>1. RowType' /\ LocalType'
    BY <1>2, RowUnchanged, GotoOnly DEF Send, Label
  <2>2. posts' \in [Quote -> [{"auto", "manual"} -> Nat]]
    BY <1>2, Delivers DEF Send
  <2>3. UNCHANGED <<notices, flips, slips, faults>>
    BY <1>2 DEF Send
  <2>. QED BY <2>1, <2>2, <2>3 DEF HistoryType
<1>3. CASE SendRefused(r, q)
  BY <1>3, RowUnchanged, HistoryUnchanged, GotoOnly DEF SendRefused, Label
<1>4. CASE SendUnanswered(r, q)
  <2>1. RowType' /\ LocalType'
    BY <1>4, RowUnchanged, GotoOnly DEF SendUnanswered, Label
  <2>2. posts' \in [Quote -> [{"auto", "manual"} -> Nat]]
    BY <1>4, Delivers DEF SendUnanswered
  <2>3. faults' \in Nat
    BY <1>4, FaultType DEF SendUnanswered
  <2>4. UNCHANGED <<notices, flips>> /\ slips' \in [Quote -> Nat]
    BY <1>4 DEF SendUnanswered, HistoryType
  <2>. QED BY <2>1, <2>2, <2>3, <2>4 DEF HistoryType
<1>5. CASE Mark(r, q)
  BY <1>5, Stamps, HistoryUnchanged, GotoOnly DEF Mark, Label
<1>6. CASE MarkThrows(r, q)
  <2>1. RowType' /\ LocalType'
    BY <1>6, RowUnchanged, GotoOnly DEF MarkThrows, Label
  <2>2. faults' \in Nat
    BY <1>6, FaultType DEF MarkThrows, HistoryType
  <2>3. UNCHANGED <<posts, notices, flips>> /\ slips' \in [Quote -> Nat]
    BY <1>6 DEF MarkThrows, HistoryType
  <2>. QED BY <2>1, <2>2, <2>3 DEF HistoryType
<1>7. CASE Release(r, q)
  <2>1. RowType'
    <3>1. stamp[q] \in Request \cup {NoStamp, Posted}
      BY DEF RowType
    <3>. QED BY <1>7, <3>1, Stamps DEF Release, RowType
  <2>. QED BY <1>7, <2>1, HistoryUnchanged, GotoOnly DEF Release, Label
<1>8. CASE ReleaseThrows(r, q)
  <2>1. RowType' /\ LocalType'
    BY <1>8, RowUnchanged, GotoOnly DEF ReleaseThrows, Label
  <2>2. faults' \in Nat /\ UNCHANGED <<posts, notices, flips, slips>>
    BY <1>8, FaultType DEF ReleaseThrows, history
  <2>. QED BY <2>1, <2>2 DEF HistoryType
<1>. QED
  BY <1>1, <1>2, <1>3, <1>4, <1>5, <1>6, <1>7, <1>8

LEMMA TypeManual ==
    ASSUME TypeOK, NEW r \in Request, NEW q \in Quote,
           \/ ManualSend(r, q) \/ ManualSendRefused(r, q) \/ ManualMark(r, q)
           \/ MarkAwaiting(r, q)
    PROVE  TypeOK'
<1>. USE DEF TypeOK
<1>1. CASE ManualSend(r, q)
  <2>1. RowType' /\ LocalType'
    BY <1>1, RowUnchanged, GotoOnly DEF ManualSend, Label
  <2>2. posts' \in [Quote -> [{"auto", "manual"} -> Nat]]
    BY <1>1, Delivers DEF ManualSend
  <2>3. faults' \in Nat
    BY <1>1, FaultType DEF ManualSend, HistoryType
  <2>4. UNCHANGED <<notices, flips, slips>>
    BY <1>1 DEF ManualSend
  <2>. QED BY <2>1, <2>2, <2>3, <2>4 DEF HistoryType
<1>2. CASE ManualSendRefused(r, q)
  BY <1>2, RowUnchanged, HistoryUnchanged, GotoOnly DEF ManualSendRefused, Label
<1>3. CASE ManualMark(r, q)
  <2>1. RowType'
    <3>1. stamp[q] \in Request \cup {NoStamp, Posted}
      BY DEF RowType
    <3>. QED BY <1>3, <3>1, Stamps DEF ManualMark, RowType
  <2>. QED BY <1>3, <2>1, HistoryUnchanged, GotoOnly DEF ManualMark, Label
<1>4. CASE MarkAwaiting(r, q)
  <2>1. RowType'
    BY <1>4 DEF MarkAwaiting, RowType, Exists
  <2>. QED BY <1>4, <2>1, HistoryUnchanged, GotoOnly DEF MarkAwaiting, Label
<1>. QED
  BY <1>1, <1>2, <1>3, <1>4

LEMMA LocalUnchanged == LocalType /\ UNCHANGED local => LocalType'
BY DEF LocalType, local

LEMMA TypeRows ==
    ASSUME TypeOK,
           \/ \E q \in Quote : Submit(q) \/ Archive(q) \/ Restore(q) \/ HardDelete(q)
           \/ BulkArchive \/ BulkRestore
    PROVE  TypeOK'
<1>. USE DEF TypeOK
<1>1. LocalType' /\ HistoryType'
  BY LocalUnchanged, HistoryUnchanged
     DEF Submit, Archive, Restore, HardDelete, BulkArchive, BulkRestore
<1>2. ASSUME NEW q \in Quote, Submit(q) PROVE RowType'
  BY <1>2 DEF Submit, RowType, Status, Decision
<1>3. ASSUME NEW q \in Quote, Archive(q) \/ Restore(q) PROVE RowType'
  BY <1>3 DEF Archive, Restore, RowType
<1>4. ASSUME NEW q \in Quote, HardDelete(q) PROVE RowType'
  BY <1>4 DEF HardDelete, RowType, Status
<1>5. ASSUME BulkArchive \/ BulkRestore PROVE RowType'
  <2>1. UNCHANGED <<status, awaiting, stamp>>
    BY <1>5 DEF BulkArchive, BulkRestore
  <2>2. archived' \in [Quote -> BOOLEAN]
    BY <1>5 DEF BulkArchive, BulkRestore
  <2>. QED BY <2>1, <2>2 DEF RowType
<1>. QED
  BY <1>1, <1>2, <1>3, <1>4, <1>5

LEMMA TypeStart ==
    ASSUME TypeOK, NEW r \in Request, NEW q \in Quote, NEW d \in Decision,
           NEW l \in Label, Start(r, q, d, l)
    PROVE  TypeOK'
<1>1. RowType' /\ HistoryType'
  BY RowUnchanged, HistoryUnchanged DEF Start, TypeOK
<1>2. pc' \in [Request -> [Quote -> Label]]
  BY GotoType DEF Start, TypeOK
<1>3. mode' \in [Request -> Mode] /\ goal' \in [Request -> Decision] /\ UNCHANGED <<seen, tries>>
  BY DEF Start, TypeOK, LocalType, Mode
<1>. QED
  BY <1>1, <1>2, <1>3 DEF TypeOK, LocalType

\* The handlers that begin with one quote.
EntryPoint(r, q) ==
    \/ PanelApprove(r, q) \/ ButtonApprove(r, q) \/ CommandApprove(r, q)
    \/ PanelReject(r, q) \/ CommandReject(r, q)
    \/ ButtonReject(r, q) \/ Reply(r, q) \/ PostManually(r, q)

LEMMA EntryPointStarts ==
    ASSUME NEW r \in Request, NEW q \in Quote, EntryPoint(r, q)
    PROVE  /\ \E d \in Decision, l \in {"read", "mark-awaiting", "manual-send"} :
                 Start(r, q, d, l)
           /\ status[q] # "NONE"
BY DEF EntryPoint, PanelApprove, ButtonApprove, CommandApprove, PanelReject, CommandReject,
       ButtonReject, Reply, PostManually, Decision

LEMMA TypeBulk ==
    ASSUME TypeOK, NEW r \in Request, BulkModerate(r) \/ BulkAnnounce(r) \/ BulkScan(r)
    PROVE  TypeOK'
<1>. USE DEF TypeOK
<1>1. RowType'
  BY RowUnchanged DEF BulkModerate, BulkAnnounce, BulkScan
<1>2. CASE BulkModerate(r)
  <2>1. HistoryType'
    BY <1>2, HistoryUnchanged DEF BulkModerate
  <2>2. UNCHANGED <<seen, tries>> /\ mode' \in [Request -> Mode]
    BY <1>2 DEF BulkModerate, LocalType, Mode
  <2>3. PICK ids \in SUBSET {q \in Quote : status[q] # "NONE"}, d \in Decision :
           /\ goal' = [goal EXCEPT ![r] = d]
           /\ pc' = [pc EXCEPT ![r] =
                 [q \in Quote |-> IF q \in ids /\ ~archived[q] THEN "read" ELSE "idle"]]
    BY <1>2 DEF BulkModerate
  <2>4. goal' \in [Request -> Decision]
    BY <2>3 DEF LocalType
  <2>5. pc' \in [Request -> [Quote -> Label]]
    <3>1. [q \in Quote |-> IF q \in ids /\ ~archived[q] THEN "read" ELSE "idle"] \in [Quote -> Label]
      BY DEF Label
    <3>. QED BY <2>3, <3>1, RowUpdate DEF LocalType
  <2>. QED BY <1>1, <2>1, <2>2, <2>4, <2>5 DEF LocalType
<1>3. CASE BulkAnnounce(r)
  <2>1. UNCHANGED <<mode, goal, seen, tries, posts, flips, slips, faults>>
    BY <1>3 DEF BulkAnnounce
  <2>2. notices' \in [Quote -> [Decision -> Nat]]
    <3>1. \A q \in Quote, d \in Decision :
             notices[q][d] + (IF d = goal[r] /\ Transitioned(r, q) THEN 1 ELSE 0) \in Nat
      BY DEF HistoryType
    <3>. QED BY <1>3, <3>1 DEF BulkAnnounce
  <2>3. pc' \in [Request -> [Quote -> Label]]
    <3>1. [q \in Quote |-> IF pc[r][q] = "idle" THEN "idle"
              ELSE IF goal[r] = "APPROVED" THEN "scan" ELSE "done"] \in [Quote -> Label]
      BY DEF Label
    <3>. QED BY <1>3, <3>1, RowUpdate DEF BulkAnnounce, LocalType
  <2>. QED BY <1>1, <2>1, <2>2, <2>3 DEF LocalType, HistoryType
<1>4. CASE BulkScan(r)
  <2>1. UNCHANGED <<mode, goal, seen, tries>> /\ HistoryType'
    BY <1>4, HistoryUnchanged DEF BulkScan
  <2>2. pc' \in [Request -> [Quote -> Label]]
    <3>1. [q \in Quote |-> IF pc[r][q] # "scan" THEN pc[r][q]
              ELSE IF status[q] = "APPROVED" /\ stamp[q] = NoStamp THEN "claim" ELSE "done"]
             \in [Quote -> Label]
      <4>1. \A q \in Quote : pc[r][q] \in Label
        BY DEF LocalType
      <4>2. "claim" \in Label /\ "done" \in Label
        BY DEF Label
      <4>. QED BY <4>1, <4>2
    <3>. QED BY <1>4, <3>1, RowUpdate DEF BulkScan, LocalType
  <2>. QED BY <1>1, <2>1, <2>2 DEF LocalType
<1>. QED
  BY <1>2, <1>3, <1>4

LEMMA TypeFaults ==
    ASSUME TypeOK,
           \/ \E r \in Request, q \in Quote : ThrowInLoop(r, q)
           \/ \E r \in Request : ThrowInHandler(r)
           \/ Crash
    PROVE  TypeOK'
<1>. USE DEF TypeOK
<1>1. RowType' /\ HistoryType'
  <2>1. RowType'
    BY RowUnchanged DEF ThrowInLoop, ThrowInHandler, Crash
  <2>2. faults' \in Nat /\ UNCHANGED <<posts, notices, flips, slips>>
    BY FaultType DEF ThrowInLoop, ThrowInHandler, Crash, history
  <2>. QED BY <2>1, <2>2 DEF HistoryType
<1>2. ASSUME NEW r \in Request, NEW q \in Quote, ThrowInLoop(r, q) PROVE LocalType'
  <2>1. mode' \in [Request -> Mode] /\ UNCHANGED goal
    BY <1>2 DEF ThrowInLoop, LocalType, Mode
  <2>. QED BY <1>2, <2>1, GotoForget DEF ThrowInLoop, Label
<1>3. ASSUME NEW r \in Request, ThrowInHandler(r) PROVE LocalType'
  <2>1. UNCHANGED <<mode, goal, seen, tries>>
    BY <1>3 DEF ThrowInHandler
  <2>. DEFINE left == IF mode[r] = "one" THEN {"won", "claim", "mark-awaiting", "manual-mark"}
                                         ELSE {"scan", "claim"}
  <2>2. pc' = [pc EXCEPT ![r] = [q \in Quote |->
              IF pc[r][q] \in left THEN "done" ELSE pc[r][q]]]
    BY <1>3 DEF ThrowInHandler
  <2>3. [q \in Quote |-> IF pc[r][q] \in left THEN "done" ELSE pc[r][q]] \in [Quote -> Label]
    <3>1. \A q \in Quote : pc[r][q] \in Label
      BY DEF LocalType
    <3>. QED BY <3>1 DEF Label
  <2>4. pc' \in [Request -> [Quote -> Label]]
    BY <2>2, <2>3, RowUpdate DEF LocalType
  <2>. QED BY <2>1, <2>4 DEF LocalType
<1>4. CASE Crash
  <2>1. "idle" \in Label /\ "done" \in Label /\ "NONE" \in Status
    BY DEF Label, Status
  <2>2. 0 \in 0 .. CasAttempts - 1
    BY CasAttemptsAssumption
  <2>3. pc' \in [Request -> [Quote -> Label]] /\ seen' \in [Request -> [Quote -> Status]]
    BY <1>4, <2>1 DEF Crash
  <2>4. tries' \in [Request -> [Quote -> 0 .. CasAttempts - 1]]
    BY <1>4, <2>2 DEF Crash
  <2>5. UNCHANGED <<mode, goal>>
    BY <1>4 DEF Crash
  <2>. QED BY <1>1, <2>3, <2>4, <2>5 DEF LocalType
<1>. QED
  BY <1>1, <1>2, <1>3, <1>4

LEMMA TypeStep == TypeOK /\ [Next]_vars => TypeOK'
<1>. SUFFICES ASSUME TypeOK, [Next]_vars PROVE TypeOK'
  OBVIOUS
<1>1. ASSUME NEW r \in Request, NEW q \in Quote, Step(r, q) PROVE TypeOK'
  BY <1>1, TypeRead, TypeSwap, TypeSwapMissed, TypeAnnounce, TypePublication, TypeManual
     DEF Step
<1>2. ASSUME NEW r \in Request, BulkStep(r) PROVE TypeOK'
  BY <1>2, TypeBulk DEF BulkStep
<1>3. ASSUME NEW r \in Request, NEW q \in Quote, EntryPoint(r, q) PROVE TypeOK'
  BY <1>3, EntryPointStarts, TypeStart DEF Label
<1>4. CASE Environment
  BY <1>3, <1>4, TypeRows, TypeBulk, TypePublication, TypeFaults DEF Environment, EntryPoint
<1>5. CASE UNCHANGED vars
  BY <1>5, RowUnchanged, LocalUnchanged, HistoryUnchanged DEF vars, TypeOK
<1>. QED
  BY <1>1, <1>2, <1>4, <1>5 DEF Next

LEMMA InitTypeOK == Init => TypeOK
<1>. SUFFICES ASSUME Init PROVE TypeOK
  OBVIOUS
<1>1. 0 \in 0 .. CasAttempts - 1 /\ "idle" \in Label /\ "NONE" \in Status /\ "fresh" \in Mode
      /\ "APPROVED" \in Decision
  BY CasAttemptsAssumption DEF Label, Status, Mode, Decision
<1>2. RowType /\ LocalType
  BY <1>1 DEF Init, RowType, LocalType
<1>3. HistoryType
  BY DEF Init, HistoryType
<1>. QED
  BY <1>2, <1>3 DEF TypeOK

\* The variables keep their types: in particular telegramPostedAt is always null, a
\* post's time or the claim of a request, and no CAS loop runs past CAS_ATTEMPTS.
THEOREM TypeCorrect == Spec => []TypeOK
BY InitTypeOK, TypeStep, PTL DEF Spec

-----------------------------------------------------------------------------
\* What a step does to the request table, action by action

\* Nothing that publication depends on is lost: nobody moves on or starts publishing,
\* nothing is posted, and no claim is cleared except with its row.
Quiet ==
    /\ \A r \in Request, q \in Quote :
          pc'[r][q] \in {"send", "mark", "release"} => pc'[r][q] = pc[r][q]
    /\ \A q \in Quote :
          /\ posts'[q]["auto"] = posts[q]["auto"] /\ slips'[q] = slips[q]
          /\ stamp'[q] = NoStamp => stamp[q] = NoStamp \/ status'[q] = "GONE"
          /\ status[q] = "GONE" => status'[q] = "GONE"

LEMMA QuietGoto ==
    ASSUME TypeOK, NEW r \in Request, NEW q \in Quote,
           NEW l \in Label \ {"send", "mark", "release"}, Goto(r, q, l),
           UNCHANGED <<status, stamp, slips>>,
           \A x \in Quote : posts'[x]["auto"] = posts[x]["auto"]
    PROVE  Quiet
BY GotoType DEF TypeOK, Quiet

LEMMA QuietLoop ==
    ASSUME TypeOK, LocalsSound, NEW r \in Request, NEW q \in Quote,
           Read(r, q) \/ Swap(r, q) \/ SwapMissed(r, q) \/ Announce(r, q) \/ ThrowInLoop(r, q)
    PROVE  Quiet
<1>0. {"cas", "lost", "won", "read", "done", "claim"} \subseteq Label \ {"send", "mark", "release"}
  BY DEF Label
<1>1. CASE Read(r, q)
  BY <1>0, <1>1, QuietGoto DEF Read, row, history
<1>2. CASE Swap(r, q)
  <2>1. UNCHANGED <<stamp, posts, slips>> /\ Goto(r, q, "won")
    BY <1>2 DEF Swap
  <2>2. status[q] # "GONE"
    BY <1>2 DEF Swap, Matches, LocalsSound, Decision
  <2>3. \A x \in Quote : status[x] = "GONE" => status'[x] = "GONE"
    BY <1>2, <2>2 DEF Swap, TypeOK, RowType
  <2>. QED BY <1>0, <2>1, <2>3, GotoType DEF Quiet, TypeOK
<1>3. CASE SwapMissed(r, q)
  BY <1>0, <1>3, QuietGoto DEF SwapMissed, row, history
<1>4. CASE Announce(r, q)
  BY <1>0, <1>4, QuietGoto DEF Announce, row
<1>5. CASE ThrowInLoop(r, q)
  BY <1>0, <1>5, QuietGoto DEF ThrowInLoop, row, history
<1>. QED
  BY <1>1, <1>2, <1>3, <1>4, <1>5

LEMMA QuietManual ==
    ASSUME TypeOK, NEW r \in Request, NEW q \in Quote,
           \/ ManualSend(r, q) \/ ManualSendRefused(r, q) \/ ManualMark(r, q)
           \/ MarkAwaiting(r, q) \/ ReleaseThrows(r, q)
    PROVE  Quiet
<1>0. {"manual-mark", "done"} \subseteq Label \ {"send", "mark", "release"}
  BY DEF Label
<1>1. CASE ManualSend(r, q)
  <2>1. \A x \in Quote : posts'[x]["auto"] = posts[x]["auto"]
    BY <1>1, Delivers DEF ManualSend, TypeOK
  <2>. QED BY <1>0, <1>1, <2>1, QuietGoto DEF ManualSend, row
<1>2. CASE ManualSendRefused(r, q) \/ ReleaseThrows(r, q)
  BY <1>0, <1>2, QuietGoto DEF ManualSendRefused, ReleaseThrows, row, history
<1>3. CASE ManualMark(r, q)
  <2>1. Goto(r, q, "done") /\ UNCHANGED <<status, posts, slips>>
    BY <1>3 DEF ManualMark, history
  <2>2. \A x \in Quote : stamp'[x] = NoStamp => stamp[x] = NoStamp
    BY <1>3, StampAssumption DEF ManualMark, TypeOK, RowType
  <2>. QED BY <1>0, <2>1, <2>2, GotoType DEF Quiet, TypeOK
<1>4. CASE MarkAwaiting(r, q)
  BY <1>0, <1>4, QuietGoto DEF MarkAwaiting, history
<1>. QED
  BY <1>1, <1>2, <1>3, <1>4

LEMMA QuietRows ==
    ASSUME TypeOK,
           \/ \E q \in Quote : Submit(q) \/ Archive(q) \/ Restore(q) \/ HardDelete(q)
           \/ BulkArchive \/ BulkRestore
    PROVE  Quiet
<1>1. UNCHANGED <<pc, posts, slips>>
  BY DEF Submit, Archive, Restore, HardDelete, BulkArchive, BulkRestore, local, history
<1>2. ASSUME NEW q \in Quote, Submit(q) PROVE Quiet
  BY <1>1, <1>2 DEF Submit, Quiet, TypeOK, RowType
<1>3. ASSUME NEW q \in Quote, HardDelete(q) PROVE Quiet
  BY <1>1, <1>3 DEF HardDelete, Quiet, TypeOK, RowType
<1>4. ASSUME UNCHANGED <<status, stamp>> PROVE Quiet
  BY <1>1, <1>4 DEF Quiet
<1>5. ASSUME NEW q \in Quote, Archive(q) \/ Restore(q) PROVE Quiet
  BY <1>4, <1>5 DEF Archive, Restore
<1>6. ASSUME BulkArchive \/ BulkRestore PROVE Quiet
  BY <1>4, <1>6 DEF BulkArchive, BulkRestore
<1>. QED
  BY <1>2, <1>3, <1>5, <1>6

\* A bulk request rewrites its whole row of the request table.
LEMMA QuietRowOfRequest ==
    ASSUME TypeOK, NEW r \in Request, NEW g, pc' = [pc EXCEPT ![r] = g],
           \A q \in Quote : g[q] \in {"send", "mark", "release"} => g[q] = pc[r][q],
           UNCHANGED <<status, stamp, posts, slips>>
    PROVE  Quiet
<1>1. \A x \in Request : pc'[x] = IF x = r THEN g ELSE pc[x]
  BY DEF TypeOK, LocalType
<1>2. \A x \in Request, q \in Quote :
         pc'[x][q] \in {"send", "mark", "release"} => pc'[x][q] = pc[x][q]
  BY <1>1
<1>. QED
  BY <1>2 DEF Quiet

LEMMA QuietBulk ==
    ASSUME TypeOK, NEW r \in Request, BulkModerate(r) \/ BulkAnnounce(r) \/ BulkScan(r)
    PROVE  Quiet
<1>1. UNCHANGED <<status, stamp, posts, slips>>
  BY DEF BulkModerate, BulkAnnounce, BulkScan, row, history
<1>2. CASE BulkModerate(r)
  <2>1. PICK ids \in SUBSET {q \in Quote : status[q] # "NONE"} :
           pc' = [pc EXCEPT ![r] =
                 [q \in Quote |-> IF q \in ids /\ ~archived[q] THEN "read" ELSE "idle"]]
    BY <1>2 DEF BulkModerate
  <2>2. DEFINE g == [q \in Quote |-> IF q \in ids /\ ~archived[q] THEN "read" ELSE "idle"]
  <2>3. pc' = [pc EXCEPT ![r] = g] /\ \A q \in Quote : g[q] \notin {"send", "mark", "release"}
    BY <2>1
  <2>. QED BY <1>1, <2>3, QuietRowOfRequest
<1>3. CASE BulkAnnounce(r)
  <2>. DEFINE g == [q \in Quote |-> IF pc[r][q] = "idle" THEN "idle"
                                    ELSE IF goal[r] = "APPROVED" THEN "scan" ELSE "done"]
  <2>1. pc' = [pc EXCEPT ![r] = g] /\ \A q \in Quote : g[q] \notin {"send", "mark", "release"}
    BY <1>3 DEF BulkAnnounce
  <2>. QED BY <1>1, <2>1, QuietRowOfRequest
<1>4. CASE BulkScan(r)
  <2>. DEFINE g == [q \in Quote |-> IF pc[r][q] # "scan" THEN pc[r][q]
              ELSE IF status[q] = "APPROVED" /\ stamp[q] = NoStamp THEN "claim" ELSE "done"]
  <2>1. /\ pc' = [pc EXCEPT ![r] = g]
        /\ \A q \in Quote : g[q] \in {"send", "mark", "release"} => g[q] = pc[r][q]
    BY <1>4 DEF BulkScan
  <2>. QED BY <1>1, <2>1, QuietRowOfRequest
<1>. QED
  BY <1>2, <1>3, <1>4

LEMMA QuietFaults ==
    ASSUME TypeOK, Crash \/ \E r \in Request : ThrowInHandler(r)
    PROVE  Quiet
<1>1. UNCHANGED <<status, stamp, posts, slips>>
  BY DEF Crash, ThrowInHandler, row, history
<1>2. CASE Crash
  BY <1>1, <1>2 DEF Crash, Quiet
<1>3. ASSUME NEW r \in Request, ThrowInHandler(r) PROVE Quiet
  <2>. DEFINE left == IF mode[r] = "one" THEN {"won", "claim", "mark-awaiting", "manual-mark"}
                                         ELSE {"scan", "claim"}
  <2>1. pc' = [pc EXCEPT ![r] = [q \in Quote |->
              IF pc[r][q] \in left THEN "done" ELSE pc[r][q]]]
    BY <1>3 DEF ThrowInHandler
  <2>. DEFINE g == [q \in Quote |-> IF pc[r][q] \in left THEN "done" ELSE pc[r][q]]
  <2>2. /\ pc' = [pc EXCEPT ![r] = g]
        /\ \A q \in Quote : g[q] \in {"send", "mark", "release"} => g[q] = pc[r][q]
    BY <2>1
  <2>. QED BY <1>1, <2>2, QuietRowOfRequest
<1>. QED
  BY <1>2, <1>3

LEMMA QuietEntry ==
    ASSUME TypeOK, NEW r \in Request, NEW q \in Quote, EntryPoint(r, q)
    PROVE  Quiet
<1>1. PICK d \in Decision, l \in {"read", "mark-awaiting", "manual-send"} : Start(r, q, d, l)
  BY EntryPointStarts
<1>2. l \in Label \ {"send", "mark", "release"}
  BY DEF Label
<1>. QED
  BY <1>1, <1>2, QuietGoto DEF Start, row, history

\* Every step is quiet or one of the publication's own.
LEMMA QuietOrPublishing ==
    ASSUME TypeOK, LocalsSound, [Next]_vars
    PROVE  \/ Quiet
           \/ \E r \in Request, q \in Quote :
                 \/ Claim(r, q) \/ Send(r, q) \/ SendRefused(r, q) \/ SendUnanswered(r, q)
                 \/ Mark(r, q) \/ MarkThrows(r, q) \/ Release(r, q)
<1>1. CASE UNCHANGED vars
  BY <1>1 DEF vars, row, local, history, Quiet
<1>2. ASSUME NEW r \in Request, NEW q \in Quote, EntryPoint(r, q) PROVE Quiet
  BY <1>2, QuietEntry
<1>3. CASE Environment
  BY <1>2, <1>3, QuietLoop, QuietManual, QuietRows, QuietBulk, QuietFaults DEF Environment, EntryPoint
<1>4. ASSUME NEW r \in Request, BulkStep(r) PROVE Quiet
  BY <1>4, QuietBulk DEF BulkStep
<1>. QED
  BY <1>1, <1>3, <1>4, QuietLoop, QuietManual DEF Next, Step

-----------------------------------------------------------------------------
\* Publication is exclusive and leaves one copy per un-stamped delivery

LEMMA QuietKeepsPublication == TypeOK /\ PublicationInv /\ Quiet => PublicationInv'
<1>. SUFFICES ASSUME TypeOK, PublicationInv, Quiet PROVE PublicationInv'
  OBVIOUS
<1>1. OnePublisher'
  BY DEF PublicationInv, OnePublisher, Publishing, Quiet
<1>2. ClaimsHeld'
  BY DEF PublicationInv, ClaimsHeld, Publishing, Quiet
<1>3. CopiesCounted'
  BY DEF PublicationInv, CopiesCounted, Quiet
<1>4. DuplicatesExplained'
  BY DEF PublicationInv, DuplicatesExplained, Quiet
<1>. QED
  BY <1>1, <1>2, <1>3, <1>4 DEF PublicationInv

\* The request that moves on in a publication step; all others keep their place.
PublicationMoves(r, q, from, to) ==
    /\ pc[r][q] = from
    /\ pc'[r][q] = to
    /\ \A x \in Request, y \in Quote : x # r \/ y # q => pc'[x][y] = pc[x][y]

LEMMA GotoMoves ==
    ASSUME TypeOK, NEW r \in Request, NEW q \in Quote, NEW from, NEW to \in Label,
           pc[r][q] = from, Goto(r, q, to)
    PROVE  PublicationMoves(r, q, from, to)
BY GotoType DEF PublicationMoves, TypeOK

LEMMA ClaimKeepsPublication ==
    ASSUME TypeOK, PublicationInv, NEW r \in Request, NEW q \in Quote, Claim(r, q)
    PROVE  PublicationInv'
<1>1. CASE Unclaimed(q) /\ stamp' = [stamp EXCEPT ![q] = r] /\ Goto(r, q, "send")
  <2>1. PublicationMoves(r, q, "claim", "send") /\ UNCHANGED <<status, posts, slips>>
    BY <1>1, GotoMoves DEF Claim, Label, history
  <2>2. /\ stamp[q] = NoStamp /\ status[q] # "GONE" /\ stamp'[q] # NoStamp
        /\ \A y \in Quote : y # q => stamp'[y] = stamp[y]
    BY <1>1, StampAssumption DEF Unclaimed, Exists, TypeOK, RowType
  <2>3. \A x \in Request : pc[x][q] \notin {"send", "mark", "release"}
    BY <2>2 DEF PublicationInv, ClaimsHeld, Publishing
  <2>4. OnePublisher'
    BY <2>1, <2>3 DEF PublicationInv, OnePublisher, Publishing, PublicationMoves
  <2>5. ClaimsHeld'
    BY <2>1, <2>2 DEF PublicationInv, ClaimsHeld, Publishing, PublicationMoves
  <2>6. CopiesCounted'
    BY <2>1, <2>2, <2>3 DEF PublicationInv, CopiesCounted, PublicationMoves
  <2>7. DuplicatesExplained'
    BY <2>1 DEF PublicationInv, DuplicatesExplained
  <2>. QED BY <2>4, <2>5, <2>6, <2>7 DEF PublicationInv
<1>2. CASE Goto(r, q, "done") /\ UNCHANGED stamp
  <2>1. UNCHANGED <<status, posts, slips>>
    BY DEF Claim, history
  <2>2. Quiet
    BY <1>2, <2>1, QuietGoto DEF Label
  <2>. QED BY <2>2, QuietKeepsPublication
<1>. QED
  BY <1>1, <1>2 DEF Claim

LEMMA SendKeepsPublication ==
    ASSUME TypeOK, PublicationInv, NEW r \in Request, NEW q \in Quote,
           Send(r, q) \/ SendRefused(r, q) \/ SendUnanswered(r, q)
    PROVE  PublicationInv'
<1>1. PICK to \in {"mark", "release"} : PublicationMoves(r, q, "send", to)
  BY GotoMoves DEF Send, SendRefused, SendUnanswered, Label
<1>2. UNCHANGED <<status, stamp>>
  BY DEF Send, SendRefused, SendUnanswered, row
<1>3. \A x \in Request : x # r => pc[x][q] \notin {"send", "mark", "release"}
  BY <1>1 DEF PublicationInv, OnePublisher, Publishing, PublicationMoves
<1>4. posts[q]["auto"] <= slips[q] /\ (stamp[q] # NoStamp \/ status[q] = "GONE")
  BY <1>1 DEF PublicationInv, CopiesCounted, ClaimsHeld, Publishing, PublicationMoves
<1>5. /\ \A y \in Quote : y # q => posts'[y]["auto"] = posts[y]["auto"] /\ slips'[y] = slips[y]
      /\ to = "release" => posts'[q]["auto"] <= slips'[q]
      /\ posts'[q]["auto"] <= 1 + slips'[q]
  <2>1. posts[q]["auto"] \in Nat /\ slips[q] \in Nat /\ posts[q]["auto"] <= slips[q]
    BY <1>1 DEF TypeOK, HistoryType, PublicationInv, CopiesCounted, PublicationMoves
  <2>2. CASE Send(r, q)
    <3>1. to = "mark"
      BY <1>1, <2>2, GotoMoves DEF Send, PublicationMoves, Label
    <3>2. UNCHANGED slips
      BY <2>2 DEF Send
    <3>. QED BY <2>1, <2>2, <3>1, <3>2, Delivers DEF Send, TypeOK
  <2>3. CASE SendRefused(r, q)
    BY <2>1, <2>3 DEF SendRefused, history
  <2>4. CASE SendUnanswered(r, q)
    <3>1. slips'[q] = slips[q] + 1 /\ \A y \in Quote : y # q => slips'[y] = slips[y]
      BY <2>4 DEF SendUnanswered, TypeOK, HistoryType
    <3>2. /\ posts'[q]["auto"] = posts[q]["auto"] + 1
          /\ \A y \in Quote : y # q => posts'[y]["auto"] = posts[y]["auto"]
      BY <2>4, Delivers DEF SendUnanswered, TypeOK
    <3>. QED BY <2>1, <3>1, <3>2
  <2>. QED BY <2>2, <2>3, <2>4
<1>6. OnePublisher'
  BY <1>1, <1>3 DEF PublicationInv, OnePublisher, Publishing, PublicationMoves
<1>7. ClaimsHeld'
  BY <1>1, <1>2 DEF PublicationInv, ClaimsHeld, Publishing, PublicationMoves
<1>8. CopiesCounted'
  BY <1>1, <1>2, <1>3, <1>4, <1>5
     DEF PublicationInv, CopiesCounted, ClaimsHeld, Publishing, PublicationMoves
<1>9. DuplicatesExplained'
  BY <1>5 DEF PublicationInv, DuplicatesExplained, TypeOK, HistoryType
<1>. QED
  BY <1>6, <1>7, <1>8, <1>9 DEF PublicationInv

LEMMA MarkKeepsPublication ==
    ASSUME TypeOK, PublicationInv, NEW r \in Request, NEW q \in Quote,
           Mark(r, q) \/ MarkThrows(r, q) \/ Release(r, q)
    PROVE  PublicationInv'
<1>1. CASE Mark(r, q)
  <2>1. PublicationMoves(r, q, "mark", "done") /\ UNCHANGED <<status, posts, slips>>
    BY <1>1, GotoMoves DEF Mark, Label, history
  <2>2. stamp'[q] # NoStamp /\ \A y \in Quote : y # q => stamp'[y] = stamp[y]
    BY <1>1, StampAssumption DEF Mark, TypeOK, RowType
  <2>3. OnePublisher'
    BY <2>1 DEF PublicationInv, OnePublisher, Publishing, PublicationMoves
  <2>4. ClaimsHeld'
    BY <2>1, <2>2 DEF PublicationInv, ClaimsHeld, Publishing, PublicationMoves
  <2>5. CopiesCounted'
    BY <2>1, <2>2 DEF PublicationInv, CopiesCounted, PublicationMoves
  <2>. QED BY <2>1, <2>3, <2>4, <2>5 DEF PublicationInv, DuplicatesExplained
<1>2. CASE MarkThrows(r, q)
  <2>1. PublicationMoves(r, q, "mark", "release") /\ UNCHANGED <<status, stamp, posts>>
    BY <1>2, GotoMoves DEF MarkThrows, Label, row
  <2>2. slips'[q] = slips[q] + 1 /\ \A y \in Quote : y # q => slips'[y] = slips[y]
    BY <1>2 DEF MarkThrows, TypeOK, HistoryType
  <2>3. posts[q]["auto"] <= slips'[q] /\ posts[q]["auto"] <= 1 + slips'[q]
    BY <2>2 DEF TypeOK, HistoryType, PublicationInv, DuplicatesExplained
  <2>4. OnePublisher'
    BY <2>1 DEF PublicationInv, OnePublisher, Publishing, PublicationMoves
  <2>5. ClaimsHeld'
    BY <2>1 DEF PublicationInv, ClaimsHeld, Publishing, PublicationMoves
  <2>6. CopiesCounted'
    BY <2>1, <2>2, <2>3 DEF PublicationInv, CopiesCounted, PublicationMoves
  <2>7. DuplicatesExplained'
    BY <2>1, <2>2, <2>3 DEF PublicationInv, DuplicatesExplained
  <2>. QED BY <2>4, <2>5, <2>6, <2>7 DEF PublicationInv
<1>3. CASE Release(r, q)
  <2>1. PublicationMoves(r, q, "release", "done") /\ UNCHANGED <<status, posts, slips>>
    BY <1>3, GotoMoves DEF Release, Label, history
  <2>2. \A y \in Quote : y # q => stamp'[y] = stamp[y]
    BY <1>3 DEF Release, TypeOK, RowType
  <2>3. posts[q]["auto"] <= slips[q]
    BY <2>1 DEF PublicationInv, CopiesCounted, PublicationMoves
  <2>4. \A x \in Request : pc'[x][q] \notin {"send", "mark", "release"}
    BY <2>1 DEF PublicationInv, OnePublisher, Publishing, PublicationMoves
  <2>5. OnePublisher'
    BY <2>1 DEF PublicationInv, OnePublisher, Publishing, PublicationMoves
  <2>6. ClaimsHeld'
    BY <2>1, <2>2, <2>4 DEF PublicationInv, ClaimsHeld, Publishing, PublicationMoves
  <2>7. CopiesCounted'
    BY <2>1, <2>2, <2>3 DEF PublicationInv, CopiesCounted, PublicationMoves
  <2>. QED BY <2>1, <2>5, <2>6, <2>7 DEF PublicationInv, DuplicatesExplained
<1>. QED
  BY <1>1, <1>2, <1>3

LEMMA PublicationStep ==
    ASSUME TypeOK, LocalsSound, PublicationInv, [Next]_vars
    PROVE  PublicationInv'
BY QuietOrPublishing, QuietKeepsPublication, ClaimKeepsPublication, SendKeepsPublication,
   MarkKeepsPublication

-----------------------------------------------------------------------------
\* Locals of the requests, and whose turn it is

\* Nobody but Read fills the status about to be compared, and a fresh request stays idle.
Undisturbed ==
    /\ \A r \in Request, q \in Quote :
          pc'[r][q] = "cas" =>
             pc[r][q] = "cas" /\ seen'[r][q] = seen[r][q] /\ goal'[r] = goal[r]
    /\ \A r \in Request :
          mode'[r] = "fresh" => mode[r] = "fresh" /\ \A q \in Quote : pc[r][q] = "idle" => pc'[r][q] = "idle"

LEMMA UndisturbedKeepsLocals == LocalsSound /\ Undisturbed => LocalsSound'
BY DEF LocalsSound, Undisturbed, Decision

\* A continuation runs only for a request that has started.
LEMMA UndisturbedGoto ==
    ASSUME TypeOK, LocalsSound, NEW r \in Request, NEW q \in Quote, pc[r][q] # "idle",
           NEW l \in Label \ {"cas"}, Goto(r, q, l), UNCHANGED goal,
           ForgetLocals(r, q) \/ UNCHANGED seen \/ seen' = [seen EXCEPT ![r][q] = "NONE"],
           UNCHANGED mode \/ mode' = [mode EXCEPT ![r] = IF @ = "bulk" THEN "failed" ELSE @]
    PROVE  Undisturbed
<1>1. mode[r] # "fresh"
  BY DEF LocalsSound
<1>2. mode'[r] # "fresh" /\ \A x \in Request : x # r => mode'[x] = mode[x]
  BY <1>1 DEF TypeOK, LocalType
<1>3. \A x \in Request, y \in Quote : x # r \/ y # q => seen'[x][y] = seen[x][y]
  BY ForgetLocalsType, NestedUpdate DEF TypeOK, LocalType, Status
<1>4. pc'[r][q] = l /\ \A x \in Request, y \in Quote : x # r \/ y # q => pc'[x][y] = pc[x][y]
  BY GotoType DEF TypeOK
<1>. QED
  BY <1>2, <1>3, <1>4 DEF Undisturbed

LEMMA UndisturbedStep ==
    ASSUME TypeOK, LocalsSound, NEW r \in Request, NEW q \in Quote,
           \/ Step(r, q) /\ ~Read(r, q)
           \/ SendUnanswered(r, q) \/ ThrowInLoop(r, q) \/ ReleaseThrows(r, q)
    PROVE  Undisturbed
<1>0. {"read", "won", "lost", "claim", "send", "mark", "release", "manual-mark", "done"}
         \subseteq Label \ {"cas"}
  BY DEF Label
<1>1. CASE Swap(r, q) \/ SwapMissed(r, q) \/ ThrowInLoop(r, q)
  <2>1. CASE Swap(r, q)
    BY <1>0, <2>1, UndisturbedGoto DEF Swap
  <2>2. CASE SwapMissed(r, q)
    BY <1>0, <2>2, UndisturbedGoto DEF SwapMissed
  <2>3. CASE ThrowInLoop(r, q)
    BY <1>0, <2>3, UndisturbedGoto DEF ThrowInLoop
  <2>. QED BY <1>1, <2>1, <2>2, <2>3
<1>2. CASE Announce(r, q)
  BY <1>0, <1>2, UndisturbedGoto DEF Announce
<1>3. CASE Claim(r, q)
  BY <1>0, <1>3, UndisturbedGoto DEF Claim
<1>4. CASE Send(r, q) \/ SendRefused(r, q) \/ SendUnanswered(r, q)
  BY <1>0, <1>4, UndisturbedGoto DEF Send, SendRefused, SendUnanswered
<1>5. CASE Mark(r, q) \/ MarkThrows(r, q) \/ Release(r, q) \/ ReleaseThrows(r, q)
  BY <1>0, <1>5, UndisturbedGoto DEF Mark, MarkThrows, Release, ReleaseThrows
<1>6. CASE ManualSend(r, q) \/ ManualSendRefused(r, q) \/ ManualMark(r, q) \/ MarkAwaiting(r, q)
  BY <1>0, <1>6, UndisturbedGoto DEF ManualSend, ManualSendRefused, ManualMark, MarkAwaiting
<1>. QED
  BY <1>1, <1>2, <1>3, <1>4, <1>5, <1>6 DEF Step

LEMMA ReadKeepsLocals ==
    ASSUME TypeOK, LocalsSound, NEW r \in Request, NEW q \in Quote, Read(r, q)
    PROVE  LocalsSound'
<1>0. mode[r] # "fresh" /\ UNCHANGED <<mode, goal>>
  BY DEF LocalsSound, Read
<1>1. CASE /\ Exists(q) /\ status[q] # goal[r]
           /\ seen' = [seen EXCEPT ![r][q] = status[q]] /\ Goto(r, q, "cas")
  <2>1. status[q] \in ({"PENDING"} \cup Decision) \ {goal[r]} /\ status[q] \in Status
    BY <1>1 DEF Exists, TypeOK, RowType, Status
  <2>2. /\ seen'[r][q] = status[q]
        /\ \A x \in Request, y \in Quote : x # r \/ y # q => seen'[x][y] = seen[x][y]
    BY <1>1, <2>1, NestedUpdate DEF TypeOK, LocalType
  <2>3. \A x \in Request, y \in Quote : x # r \/ y # q => pc'[x][y] = pc[x][y]
    BY <1>1, GotoType DEF TypeOK, Label
  <2>. QED BY <1>0, <2>1, <2>2, <2>3 DEF LocalsSound, Decision
<1>2. CASE ForgetLocals(r, q) /\ Goto(r, q, "lost")
  <2>1. Undisturbed
    BY <1>0, <1>2, UndisturbedGoto DEF Label, Read
  <2>. QED BY <2>1, UndisturbedKeepsLocals
<1>. QED
  BY <1>1, <1>2 DEF Read

LEMMA StartKeepsLocals ==
    ASSUME TypeOK, LocalsSound, NEW r \in Request, NEW q \in Quote, EntryPoint(r, q)
    PROVE  LocalsSound'
<1>1. PICK d \in Decision, l \in {"read", "mark-awaiting", "manual-send"} : Start(r, q, d, l)
  BY EntryPointStarts
<1>2. pc'[r][q] = l /\ \A x \in Request, y \in Quote : x # r \/ y # q => pc'[x][y] = pc[x][y]
  BY <1>1, GotoType DEF Start, TypeOK, Label
<1>3. /\ mode[r] = "fresh" /\ mode'[r] = "one" /\ UNCHANGED seen
      /\ \A x \in Request : x # r => mode'[x] = mode[x] /\ goal'[x] = goal[x]
  BY <1>1 DEF Start, TypeOK, LocalType
<1>4. \A y \in Quote : pc'[r][y] # "cas"
  BY <1>2, <1>3 DEF LocalsSound
<1>. QED
  BY <1>2, <1>3, <1>4 DEF LocalsSound, Decision

\* A bulk request rewrites its whole row of the request table.
LEMMA RowKeepsLocals ==
    ASSUME TypeOK, LocalsSound, NEW r \in Request, NEW g, pc' = [pc EXCEPT ![r] = g],
           mode'[r] # "fresh",
           \A q \in Quote : g[q] = "cas" => pc[r][q] = "cas" /\ UNCHANGED goal,
           \A x \in Request : x # r => mode'[x] = mode[x] /\ goal'[x] = goal[x],
           UNCHANGED seen
    PROVE  LocalsSound'
<1>1. pc'[r] = g /\ \A x \in Request : x # r => pc'[x] = pc[x]
  BY DEF TypeOK, LocalType
<1>2. \A x \in Request, q \in Quote :
         /\ mode'[x] = "fresh" => pc'[x][q] = "idle"
         /\ pc'[x][q] = "cas" => seen'[x][q] \in ({"PENDING"} \cup Decision) \ {goal'[x]}
  BY <1>1 DEF LocalsSound
<1>. QED
  BY <1>2 DEF LocalsSound, Decision

LEMMA BulkKeepsLocals ==
    ASSUME TypeOK, LocalsSound, NEW r \in Request,
           \/ BulkModerate(r) \/ BulkAnnounce(r) \/ BulkScan(r) \/ ThrowInHandler(r)
    PROVE  LocalsSound'
<1>1. CASE BulkModerate(r)
  <2>1. PICK ids \in SUBSET {q \in Quote : status[q] # "NONE"}, d \in Decision :
           /\ goal' = [goal EXCEPT ![r] = d]
           /\ pc' = [pc EXCEPT ![r] =
                 [q \in Quote |-> IF q \in ids /\ ~archived[q] THEN "read" ELSE "idle"]]
    BY <1>1 DEF BulkModerate
  <2>. DEFINE g == [q \in Quote |-> IF q \in ids /\ ~archived[q] THEN "read" ELSE "idle"]
  <2>2. pc' = [pc EXCEPT ![r] = g] /\ \A q \in Quote : g[q] # "cas"
    BY <2>1
  <2>3. /\ mode'[r] # "fresh" /\ UNCHANGED seen
        /\ \A x \in Request : x # r => mode'[x] = mode[x] /\ goal'[x] = goal[x]
    BY <1>1, <2>1 DEF BulkModerate, TypeOK, LocalType
  <2>. HIDE DEF g
  <2>4. \A q \in Quote : g[q] = "cas" => pc[r][q] = "cas" /\ UNCHANGED goal
    BY <2>2
  <2>. QED BY <2>2, <2>3, <2>4, RowKeepsLocals
<1>2. CASE BulkAnnounce(r) \/ BulkScan(r) \/ ThrowInHandler(r)
  <2>1. mode[r] # "fresh" /\ UNCHANGED <<mode, goal, seen>>
    BY <1>2 DEF BulkAnnounce, BulkScan, ThrowInHandler, LocalsSound
  <2>2. CASE BulkAnnounce(r)
    <3>. DEFINE g == [q \in Quote |-> IF pc[r][q] = "idle" THEN "idle"
                                      ELSE IF goal[r] = "APPROVED" THEN "scan" ELSE "done"]
    <3>1. pc' = [pc EXCEPT ![r] = g] /\ \A q \in Quote : g[q] # "cas"
      BY <2>2 DEF BulkAnnounce
    <3>. QED BY <2>1, <3>1, RowKeepsLocals
  <2>3. CASE BulkScan(r)
    <3>. DEFINE g == [q \in Quote |-> IF pc[r][q] # "scan" THEN pc[r][q]
              ELSE IF status[q] = "APPROVED" /\ stamp[q] = NoStamp THEN "claim" ELSE "done"]
    <3>1. pc' = [pc EXCEPT ![r] = g] /\ \A q \in Quote : g[q] = "cas" => pc[r][q] = "cas"
      BY <2>3 DEF BulkScan
    <3>. QED BY <2>1, <3>1, RowKeepsLocals
  <2>4. CASE ThrowInHandler(r)
    <3>. DEFINE left == IF mode[r] = "one" THEN {"won", "claim", "mark-awaiting", "manual-mark"}
                                           ELSE {"scan", "claim"}
    <3>. DEFINE g == [q \in Quote |-> IF pc[r][q] \in left THEN "done" ELSE pc[r][q]]
    <3>1. pc' = [pc EXCEPT ![r] = g] /\ \A q \in Quote : g[q] = "cas" => pc[r][q] = "cas"
      BY <2>4 DEF ThrowInHandler
    <3>. QED BY <2>1, <3>1, RowKeepsLocals
  <2>. QED BY <1>2, <2>2, <2>3, <2>4
<1>. QED
  BY <1>1, <1>2

LEMMA LocalsStep == ASSUME TypeOK, LocalsSound, [Next]_vars PROVE LocalsSound'
<1>1. ASSUME NEW r \in Request, NEW q \in Quote,
             \/ Step(r, q)
             \/ SendUnanswered(r, q) \/ ThrowInLoop(r, q) \/ ReleaseThrows(r, q)
      PROVE  LocalsSound'
  BY <1>1, UndisturbedStep, UndisturbedKeepsLocals, ReadKeepsLocals
<1>2. ASSUME UNCHANGED local PROVE LocalsSound'
  BY <1>2 DEF LocalsSound, local
<1>3. CASE Crash
  <2>1. Undisturbed
    BY <1>3 DEF Crash, Undisturbed
  <2>. QED BY <2>1, UndisturbedKeepsLocals
<1>4. ASSUME NEW q \in Quote, Submit(q) \/ Archive(q) \/ Restore(q) \/ HardDelete(q) PROVE LocalsSound'
  BY <1>2, <1>4 DEF Submit, Archive, Restore, HardDelete
<1>5. ASSUME BulkArchive \/ BulkRestore PROVE LocalsSound'
  BY <1>2, <1>5 DEF BulkArchive, BulkRestore
<1>6. CASE Environment
  BY <1>1, <1>3, <1>4, <1>5, <1>6, StartKeepsLocals, BulkKeepsLocals DEF Environment, EntryPoint
<1>7. CASE UNCHANGED vars
  BY <1>2, <1>7 DEF vars
<1>. QED
  BY <1>1, <1>6, <1>7, BulkKeepsLocals DEF Next, BulkStep

\* What Next is made of, for the steps that leave the decisions alone.
LEMMA OnlySwapFlips ==
    ASSUME TypeOK, [Next]_vars,
           ~\E r \in Request, q \in Quote : Swap(r, q),
           ~\E q \in Quote : Submit(q) \/ HardDelete(q)
    PROVE  UNCHANGED <<status, flips>>
<1>1. ASSUME NEW r \in Request, NEW q \in Quote, EntryPoint(r, q) PROVE UNCHANGED <<row, history>>
  BY <1>1, EntryPointStarts DEF Start
<1>2. ASSUME NEW r \in Request, NEW q \in Quote,
             Step(r, q) \/ SendUnanswered(r, q) \/ ThrowInLoop(r, q) \/ ReleaseThrows(r, q)
      PROVE  UNCHANGED <<status, flips>>
  BY <1>2 DEF Step, Read, SwapMissed, Announce, Claim, Send, SendRefused, Mark, MarkThrows,
              Release, MarkAwaiting, ManualSend, ManualSendRefused, ManualMark,
              SendUnanswered, ThrowInLoop, ReleaseThrows, row, history
<1>3. ASSUME NEW r \in Request,
             BulkModerate(r) \/ BulkAnnounce(r) \/ BulkScan(r) \/ ThrowInHandler(r)
      PROVE  UNCHANGED <<status, flips>>
  BY <1>3 DEF BulkModerate, BulkAnnounce, BulkScan, ThrowInHandler, row, history
<1>4. ASSUME Crash \/ BulkArchive \/ BulkRestore \/ \E q \in Quote : Archive(q) \/ Restore(q)
      PROVE  UNCHANGED <<status, flips>>
  BY <1>4 DEF Crash, BulkArchive, BulkRestore, Archive, Restore, row, history
<1>5. CASE Environment
  BY <1>1, <1>2, <1>3, <1>4, <1>5 DEF Environment, EntryPoint, row, history
<1>6. CASE UNCHANGED vars
  BY <1>6 DEF vars, row, history
<1>. QED
  BY <1>2, <1>3, <1>5, <1>6 DEF Next, BulkStep

LEMMA TurnsStep ==
    ASSUME TypeOK, LocalsSound, TurnsTaken, DecisionsAlternate, [Next]_vars
    PROVE  TurnsTaken' /\ DecisionsAlternate'
<1>0. \A q \in Quote : flips[q]["APPROVED"] \in Nat /\ flips[q]["REJECTED"] \in Nat
  BY DEF TypeOK, HistoryType, Decision
<1>1. ASSUME NEW r \in Request, NEW q \in Quote, Swap(r, q)
      PROVE  TurnsTaken' /\ DecisionsAlternate'
  <2>1. goal[r] \in Decision /\ status[q] \in ({"PENDING"} \cup Decision) \ {goal[r]}
    BY <1>1 DEF Swap, Matches, LocalsSound, TypeOK, LocalType
  <2>2. status'[q] = goal[r] /\ \A y \in Quote : y # q => status'[y] = status[y]
    BY <1>1 DEF Swap, TypeOK, RowType
  <2>3. /\ flips'[q][goal[r]] = flips[q][goal[r]] + 1
        /\ \A d \in Decision : d # goal[r] => flips'[q][d] = flips[q][d]
        /\ \A y \in Quote : y # q => flips'[y] = flips[y]
    <3>1. flips' = [flips EXCEPT ![q][goal[r]] = flips[q][goal[r]] + 1]
      BY <1>1, <2>1 DEF Swap, TypeOK, HistoryType
    <3>2. \A y \in Quote : y # q => flips'[y] = flips[y]
      BY <3>1 DEF TypeOK, HistoryType
    <3>3. flips[q][goal[r]] + 1 \in Nat
      BY <2>1 DEF TypeOK, HistoryType
    <3>. QED BY <2>1, <3>1, <3>2, <3>3, NestedUpdate DEF TypeOK, HistoryType
  <2>4. \A y \in Quote : y # q =>
           flips'[y]["APPROVED"] = flips[y]["APPROVED"] /\ flips'[y]["REJECTED"] = flips[y]["REJECTED"]
    BY <2>3
  <2>5. CASE goal[r] = "APPROVED"
    <3>1. /\ flips'[q]["APPROVED"] = flips[q]["APPROVED"] + 1
          /\ flips'[q]["REJECTED"] = flips[q]["REJECTED"]
          /\ flips[q]["APPROVED"] <= flips[q]["REJECTED"]
          /\ flips[q]["REJECTED"] <= flips[q]["APPROVED"] + 1
      BY <1>0, <2>1, <2>3, <2>5 DEF TurnsTaken, DecisionsAlternate, Decision
    <3>. QED BY <1>0, <2>2, <2>4, <2>5, <3>1 DEF TurnsTaken, DecisionsAlternate
  <2>6. CASE goal[r] = "REJECTED"
    <3>1. /\ flips'[q]["REJECTED"] = flips[q]["REJECTED"] + 1
          /\ flips'[q]["APPROVED"] = flips[q]["APPROVED"]
          /\ flips[q]["REJECTED"] <= flips[q]["APPROVED"]
          /\ flips[q]["APPROVED"] <= flips[q]["REJECTED"] + 1
      BY <1>0, <2>1, <2>3, <2>6 DEF TurnsTaken, DecisionsAlternate, Decision
    <3>. QED BY <1>0, <2>2, <2>4, <2>6, <3>1 DEF TurnsTaken, DecisionsAlternate
  <2>. QED BY <2>1, <2>5, <2>6 DEF Decision
<1>2. ASSUME NEW q \in Quote, Submit(q) \/ HardDelete(q)
      PROVE  TurnsTaken' /\ DecisionsAlternate'
  <2>1. UNCHANGED flips
    BY <1>2 DEF Submit, HardDelete, history
  <2>2. status'[q] \in {"PENDING", "APPROVED", "GONE"} /\ \A y \in Quote : y # q => status'[y] = status[y]
    BY <1>2 DEF Submit, HardDelete, TypeOK, RowType
  <2>3. status'[q] \in {"PENDING", "APPROVED"} => status[q] = "NONE"
    BY <1>2 DEF Submit, HardDelete, TypeOK, RowType
  <2>. QED BY <1>0, <2>1, <2>2, <2>3 DEF TurnsTaken, DecisionsAlternate
<1>3. ASSUME UNCHANGED <<status, flips>> PROVE TurnsTaken' /\ DecisionsAlternate'
  BY <1>3 DEF TurnsTaken, DecisionsAlternate
<1>. QED
  BY <1>1, <1>2, <1>3, OnlySwapFlips

-----------------------------------------------------------------------------
\* The inductive invariant and what follows from it

LEMMA InitIInv == Init => IInv
<1>. SUFFICES ASSUME Init PROVE IInv
  OBVIOUS
<1>1. \A r \in Request, q \in Quote :
         /\ pc[r][q] = "idle" /\ status[q] = "NONE" /\ slips[q] = 0
         /\ posts[q]["auto"] = 0 /\ flips[q]["APPROVED"] = 0 /\ flips[q]["REJECTED"] = 0
  BY DEF Init, Decision
<1>2. \A q \in Quote :
         /\ status[q] = "NONE" /\ slips[q] = 0
         /\ posts[q]["auto"] = 0 /\ flips[q]["APPROVED"] = 0 /\ flips[q]["REJECTED"] = 0
  BY DEF Init, Decision
<1>. QED
  BY <1>1, <1>2, InitTypeOK
     DEF IInv, LocalsSound, PublicationInv, OnePublisher, ClaimsHeld, CopiesCounted,
         DuplicatesExplained, TurnsTaken, DecisionsAlternate, Publishing

LEMMA NextIInv == IInv /\ [Next]_vars => IInv'
BY TypeStep, LocalsStep, PublicationStep, TurnsStep DEF IInv

\* The invariant holds for any number of quotes and requests, any number of CAS rounds
\* and any number of faults.
THEOREM Inductive == Spec => []IInv
BY InitIInv, NextIInv, PTL DEF Spec

\* However many approvals of a quote overlap, one of them publishes.
THEOREM PublicationIsExclusive == Spec => []OnePublisher
<1>1. IInv => OnePublisher
  BY DEF IInv, PublicationInv
<1>. QED
  BY <1>1, Inductive, PTL

\* The channel holds one automatic copy plus one per delivery whose claim was given back.
THEOREM CopiesAreExplained == Spec => []DuplicatesExplained
<1>1. IInv => DuplicatesExplained
  BY DEF IInv, PublicationInv
<1>. QED
  BY <1>1, Inductive, PTL

\* Approvals and rejections of a quote take effect in turns.
THEOREM DecisionsTakeTurns == Spec => []DecisionsAlternate
<1>1. IInv => DecisionsAlternate
  BY DEF IInv
<1>. QED
  BY <1>1, Inductive, PTL

\* No step clears a claim but the release of its own holder or the deletion of the row.
THEOREM ClaimsAreReleasedByTheirHolder == Spec => ReleaseUndoesOwnClaim
<1>. DEFINE Own == \A q \in Quote :
        stamp[q] # NoStamp /\ stamp'[q] = NoStamp =>
            \/ status'[q] = "GONE"
            \/ \E r \in Request : stamp[q] = r /\ pc[r][q] = "release"
<1>1. IInv /\ [Next]_vars => [Own]_vars
  <2>. SUFFICES ASSUME IInv, [Next]_vars PROVE Own
    OBVIOUS
  <2>1. CASE Quiet
    BY <2>1 DEF Quiet
  <2>2. ASSUME NEW r \in Request, NEW q \in Quote, Claim(r, q) \/ Mark(r, q) PROVE Own
    BY <2>2, StampAssumption DEF Claim, Mark, IInv, TypeOK, RowType
  <2>3. ASSUME NEW r \in Request, NEW q \in Quote,
               Send(r, q) \/ SendRefused(r, q) \/ SendUnanswered(r, q) \/ MarkThrows(r, q)
        PROVE  Own
    BY <2>3 DEF Send, SendRefused, SendUnanswered, MarkThrows, row
  <2>4. ASSUME NEW r \in Request, NEW q \in Quote, Release(r, q) PROVE Own
    BY <2>4 DEF Release, Holds, IInv, TypeOK, RowType
  <2>. QED BY <2>1, <2>2, <2>3, <2>4, QuietOrPublishing DEF IInv
<1>. QED
  BY <1>1, Inductive, PTL DEF Spec, ReleaseUndoesOwnClaim

-----------------------------------------------------------------------------
(* The ledger: a swap is a decision, an announcement is the notice that was *)
(* owed, and whatever else happens to a request can only lose notices.      *)

\* The notices owed for quote q: each request that has moved it and not told the author.
Owed(q) == {<<r, goal[r]>> : r \in {x \in Request : pc[x][q] = "won"}}

LEMMA OwedMembers ==
    ASSUME NEW q \in Quote, NEW r \in Request, NEW d
    PROVE  <<r, d>> \in Owed(q) <=> pc[r][q] = "won" /\ goal[r] = d
BY DEF Owed

\* Steps after which nobody owes more than before.
Silent ==
    /\ UNCHANGED <<status, notices>>
    /\ \A r \in Request, q \in Quote :
          pc'[r][q] = "won" => pc[r][q] = "won" /\ goal'[r] = goal[r]

LEMMA SilentForgets ==
    ASSUME TypeOK', Silent
    PROVE  Ledger!Forget
<1>1. \A q \in Quote : Owed(q)' \subseteq Request \X Decision
  BY DEF Owed, TypeOK, LocalType
<1>2. \A q \in Quote : Owed(q)' \subseteq Owed(q)
  BY DEF Owed, Silent
<1>. QED
  BY <1>1, <1>2 DEF Silent, Owed, Ledger!Forget, Ledger!Decision, Decision

-----------------------------------------------------------------------------
\* The steps that move the ledger

LEMMA SwapDecides ==
    ASSUME TypeOK, LocalsSound, NEW r \in Request, NEW q \in Quote, Swap(r, q),
           NEW d, d = goal[r]
    PROVE  Ledger!Decide(r, q, d)
<1>1. /\ goal[r] \in Decision /\ status[q] \in ({"PENDING"} \cup Decision) \ {goal[r]}
      /\ pc[r][q] = "cas"
  BY DEF Swap, Matches, LocalsSound, TypeOK, LocalType
<1>2. <<r, goal[r]>> \notin Owed(q)
  BY <1>1, OwedMembers
<1>3. /\ pc'[r][q] = "won"
      /\ \A x \in Request, y \in Quote : x # r \/ y # q => pc'[x][y] = pc[x][y]
  BY GotoType DEF Swap, TypeOK, Label
<1>4. UNCHANGED <<goal, notices>> /\ status' = [status EXCEPT ![q] = goal[r]]
  BY DEF Swap
<1>5. Owed(q)' = Owed(q) \cup {<<r, goal[r]>>}
  BY <1>3, <1>4 DEF Owed
<1>6. \A y \in Quote : y # q => Owed(y)' = Owed(y)
  BY <1>3, <1>4 DEF Owed
<1>7. [y \in Quote |-> Owed(y)'] = [[y \in Quote |-> Owed(y)] EXCEPT ![q] = @ \cup {<<r, goal[r]>>}]
  BY <1>5, <1>6
<1>. QED
  BY <1>1, <1>2, <1>4, <1>7 DEF Owed, Ledger!Decide, Ledger!Decision, Decision

\* Request r tells the authors of some quotes it has moved to d, and owes them nothing more.
Telling(r, d, quotes) ==
    /\ d = goal[r]
    /\ UNCHANGED <<status, goal, flips>>
    /\ \A q \in quotes : pc[r][q] = "won" /\ pc'[r][q] # "won"
    /\ \A q \in Quote \ quotes : pc'[r][q] = "won" <=> pc[r][q] = "won"
    /\ \A x \in Request, q \in Quote : x # r => pc'[x][q] = pc[x][q]
    /\ notices' = [q \in Quote |-> [e \in Decision |->
           notices[q][e] + IF q \in quotes /\ e = d THEN 1 ELSE 0]]

LEMMA TellingTells ==
    ASSUME TypeOK, NEW r \in Request, NEW d, NEW quotes \in SUBSET Quote, Telling(r, d, quotes)
    PROVE  Ledger!Tell(r, d, quotes)
<1>. USE DEF Telling
<1>1. \A q \in quotes : <<r, d>> \in Owed(q) /\ Owed(q)' = Owed(q) \ {<<r, d>>}
  BY DEF Owed
<1>2. \A q \in Quote \ quotes : Owed(q)' = Owed(q)
  BY DEF Owed
<1>3. [q \in Quote |-> Owed(q)'] =
         [q \in Quote |-> IF q \in quotes THEN Owed(q) \ {<<r, d>>} ELSE Owed(q)]
  BY <1>1, <1>2
<1>. QED
  BY <1>1, <1>3 DEF Owed, Ledger!Tell, Ledger!Decision, Decision

LEMMA AnnounceTelling ==
    ASSUME TypeOK, NEW r \in Request, NEW q \in Quote, Announce(r, q), NEW d, d = goal[r]
    PROVE  Telling(r, d, {q})
<1>1. pc[r][q] = "won" /\ goal[r] \in Decision /\ UNCHANGED <<status, goal, flips>>
  BY DEF Announce, row, TypeOK, LocalType
<1>2. /\ pc'[r][q] # "won"
      /\ \A x \in Request, y \in Quote : x # r \/ y # q => pc'[x][y] = pc[x][y]
  BY GotoType DEF Announce, TypeOK, Label
<1>3. notices' = [notices EXCEPT ![q][goal[r]] = notices[q][goal[r]] + 1]
  BY <1>1 DEF Announce, TypeOK, HistoryType
<1>4. notices' = [y \in Quote |-> [e \in Decision |->
         notices[y][e] + IF y \in {q} /\ e = d THEN 1 ELSE 0]]
  <2>1. notices[q][goal[r]] + 1 \in Nat
    BY <1>1 DEF TypeOK, HistoryType
  <2>2. /\ notices' \in [Quote -> [Decision -> Nat]]
        /\ notices'[q][goal[r]] = notices[q][goal[r]] + 1
        /\ \A y \in Quote, e \in Decision :
              y # q \/ e # goal[r] => notices'[y][e] = notices[y][e]
    BY <1>1, <1>3, <2>1, NestedUpdate DEF TypeOK, HistoryType
  <2>3. \A y \in Quote, e \in Decision :
           notices'[y][e] = notices[y][e] + IF y \in {q} /\ e = d THEN 1 ELSE 0
    BY <2>2 DEF TypeOK, HistoryType
  <2>4. \A y \in Quote : notices'[y] = [e \in Decision |->
           notices[y][e] + IF y \in {q} /\ e = d THEN 1 ELSE 0]
    BY <2>2, <2>3
  <2>. QED BY <2>2, <2>4
<1>. QED
  BY <1>1, <1>2, <1>4 DEF Telling

LEMMA BulkAnnounceTelling ==
    ASSUME TypeOK, NEW r \in Request, BulkAnnounce(r), NEW d, d = goal[r],
           NEW quotes \in SUBSET Quote, quotes = {q \in Quote : pc[r][q] = "won"}
    PROVE  Telling(r, d, quotes)
<1>1. UNCHANGED <<status, goal, flips>>
  BY DEF BulkAnnounce, row
<1>2. /\ \A q \in Quote : pc'[r][q] # "won"
      /\ \A x \in Request, q \in Quote : x # r => pc'[x][q] = pc[x][q]
  BY RowUpdate DEF BulkAnnounce, TypeOK, LocalType
<1>3. notices' = [q \in Quote |-> [e \in Decision |->
         notices[q][e] + IF q \in quotes /\ e = d THEN 1 ELSE 0]]
  BY DEF BulkAnnounce, Transitioned
<1>4. /\ \A q \in quotes : pc[r][q] = "won" /\ pc'[r][q] # "won"
      /\ \A q \in Quote \ quotes : pc'[r][q] = "won" <=> pc[r][q] = "won"
  BY <1>2
<1>. QED
  BY <1>1, <1>2, <1>3, <1>4 DEF Telling

-----------------------------------------------------------------------------
\* Rows, requests that start, and everything else

LEMMA RowsMove ==
    ASSUME TypeOK, NEW q \in Quote, Submit(q) \/ HardDelete(q)
    PROVE  Ledger!Submit(q) \/ Ledger!Remove(q)
<1>1. UNCHANGED <<goal, pc, notices>>
  BY DEF Submit, HardDelete, local, history
<1>2. \A y \in Quote : Owed(y)' = Owed(y)
  BY <1>1 DEF Owed
<1>3. CASE Submit(q)
  BY <1>1, <1>2, <1>3 DEF Submit, Owed, Ledger!Submit
<1>4. CASE HardDelete(q)
  BY <1>1, <1>2, <1>4
     DEF HardDelete, Exists, TypeOK, RowType, Status, Decision, Owed, Ledger!Remove,
         Ledger!Decision
<1>. QED BY <1>3, <1>4

\* A request moves on, for one quote, to a statement other than "won".
LEMMA GotoSilent ==
    ASSUME TypeOK, NEW r \in Request, NEW q \in Quote, NEW l \in Label \ {"won"},
           Goto(r, q, l), UNCHANGED <<status, goal, notices>>
    PROVE  Silent
BY GotoType DEF Silent, TypeOK

LEMMA StepMoves ==
    ASSUME TypeOK, LocalsSound, NEW r \in Request, NEW q \in Quote,
           \/ Step(r, q) \/ SendUnanswered(r, q) \/ ThrowInLoop(r, q) \/ ReleaseThrows(r, q)
    PROVE  Swap(r, q) \/ Announce(r, q) \/ Silent
<1>1. CASE Read(r, q) \/ SwapMissed(r, q)
  BY <1>1, GotoSilent DEF Read, SwapMissed, row, history, Label
<1>2. CASE Claim(r, q) \/ Send(r, q) \/ SendRefused(r, q) \/ SendUnanswered(r, q)
  BY <1>2, GotoSilent DEF Claim, Send, SendRefused, SendUnanswered, row, history, Label
<1>3. CASE Mark(r, q) \/ MarkThrows(r, q) \/ Release(r, q) \/ ReleaseThrows(r, q)
  BY <1>3, GotoSilent DEF Mark, MarkThrows, Release, ReleaseThrows, row, history, Label
<1>4. CASE ManualSend(r, q) \/ ManualSendRefused(r, q) \/ ManualMark(r, q)
  BY <1>4, GotoSilent DEF ManualSend, ManualSendRefused, ManualMark, row, history, Label
<1>5. CASE MarkAwaiting(r, q) \/ ThrowInLoop(r, q)
  BY <1>5, GotoSilent DEF MarkAwaiting, ThrowInLoop, row, history, Label
<1>. QED
  BY <1>1, <1>2, <1>3, <1>4, <1>5 DEF Step

LEMMA StartSilent ==
    ASSUME TypeOK, LocalsSound, NEW r \in Request, NEW q \in Quote, EntryPoint(r, q)
    PROVE  Silent
<1>1. PICK d \in Decision, l \in {"read", "mark-awaiting", "manual-send"} : Start(r, q, d, l)
  BY EntryPointStarts
<1>2. /\ \A x \in Request, y \in Quote : x # r \/ y # q => pc'[x][y] = pc[x][y]
      /\ pc'[r][q] = l
  BY <1>1, GotoType DEF Start, TypeOK, Label
<1>3. \A y \in Quote : pc[r][y] = "idle"
  BY <1>1 DEF Start, LocalsSound
<1>4. \A x \in Request : x # r => goal'[x] = goal[x]
  BY <1>1 DEF Start, TypeOK, LocalType
<1>5. UNCHANGED <<status, notices>>
  BY <1>1 DEF Start, row, history
<1>. QED
  BY <1>2, <1>3, <1>4, <1>5 DEF Silent

LEMMA WholeRequestSilent ==
    ASSUME TypeOK, LocalsSound, NEW r \in Request,
           BulkModerate(r) \/ BulkScan(r) \/ ThrowInHandler(r)
    PROVE  Silent
<1>1. UNCHANGED <<status, notices>>
  BY DEF BulkModerate, BulkScan, ThrowInHandler, row, history
<1>2. CASE BulkModerate(r)
  <2>1. \A q \in Quote : pc[r][q] = "idle"
    BY <1>2 DEF BulkModerate, LocalsSound
  <2>2. \A x \in Request : x # r => pc'[x] = pc[x] /\ goal'[x] = goal[x]
    BY <1>2 DEF BulkModerate, TypeOK, LocalType
  <2>3. \A q \in Quote : pc'[r][q] # "won"
    BY <1>2 DEF BulkModerate, TypeOK, LocalType
  <2>. QED BY <1>1, <2>1, <2>2, <2>3 DEF Silent
<1>3. CASE BulkScan(r)
  BY <1>1, <1>3 DEF BulkScan, Silent, TypeOK, LocalType
<1>4. CASE ThrowInHandler(r)
  BY <1>1, <1>4 DEF ThrowInHandler, Silent, TypeOK, LocalType
<1>. QED
  BY <1>2, <1>3, <1>4

LEMMA OthersSilent ==
    ASSUME \/ \E q \in Quote : Archive(q) \/ Restore(q)
           \/ BulkArchive \/ BulkRestore \/ Crash \/ UNCHANGED vars
    PROVE  Silent
<1>1. CASE Crash
  BY <1>1 DEF Crash, Silent, row, history
<1>. QED
  BY <1>1 DEF Archive, Restore, BulkArchive, BulkRestore, Silent, vars, row, local, history

\* What a step can do to the ledger.
LEMMA NextMoves ==
    ASSUME TypeOK, LocalsSound, [Next]_vars
    PROVE  \/ \E r \in Request, q \in Quote : Swap(r, q)
           \/ \E r \in Request, d \in Decision, quotes \in SUBSET Quote : Telling(r, d, quotes)
           \/ \E q \in Quote : Submit(q) \/ HardDelete(q)
           \/ Silent
<1>. DEFINE Moves == \/ \E r \in Request, q \in Quote : Swap(r, q)
                     \/ \E r \in Request, d \in Decision, quotes \in SUBSET Quote :
                           Telling(r, d, quotes)
                     \/ \E q \in Quote : Submit(q) \/ HardDelete(q)
                     \/ Silent
<1>1. ASSUME NEW r \in Request, NEW q \in Quote, Announce(r, q) PROVE Moves
  <2>1. PICK d \in Decision : d = goal[r]
    BY DEF TypeOK, LocalType
  <2>2. Telling(r, d, {q}) /\ {q} \in SUBSET Quote
    BY <1>1, <2>1, AnnounceTelling
  <2>. QED BY <2>2
<1>2. ASSUME NEW r \in Request, BulkAnnounce(r) PROVE Moves
  <2>1. PICK d \in Decision : d = goal[r]
    BY DEF TypeOK, LocalType
  <2>2. PICK quotes \in SUBSET Quote : quotes = {q \in Quote : pc[r][q] = "won"}
    OBVIOUS
  <2>3. Telling(r, d, quotes)
    BY <1>2, <2>1, <2>2, BulkAnnounceTelling
  <2>. QED BY <2>3
<1>3. ASSUME NEW r \in Request, NEW q \in Quote,
             \/ Step(r, q) \/ SendUnanswered(r, q) \/ ThrowInLoop(r, q) \/ ReleaseThrows(r, q)
      PROVE  Moves
  BY <1>1, <1>3, StepMoves
<1>4. ASSUME NEW r \in Request, BulkStep(r) PROVE Moves
  BY <1>2, <1>4, WholeRequestSilent DEF BulkStep
<1>5. CASE Environment
  <2>1. ASSUME NEW r \in Request, NEW q \in Quote, EntryPoint(r, q) PROVE Silent
    BY <2>1, StartSilent
  <2>2. ASSUME NEW r \in Request, BulkModerate(r) \/ ThrowInHandler(r) PROVE Silent
    BY <2>2, WholeRequestSilent
  <2>3. CASE \/ \E q \in Quote : Archive(q) \/ Restore(q)
             \/ BulkArchive \/ BulkRestore \/ Crash
    BY <2>3, OthersSilent
  <2>. QED BY <1>3, <1>5, <2>1, <2>2, <2>3 DEF Environment, EntryPoint
<1>6. CASE UNCHANGED vars
  BY <1>6, OthersSilent
<1>. QED
  BY <1>3, <1>4, <1>5, <1>6 DEF Next

-----------------------------------------------------------------------------
\* The refinement

LEMMA LedgerInit == Init => Ledger!Init
BY DEF Init, Ledger!Init, Ledger!Decision, Decision

LEMMA LedgerStep ==
    ASSUME TypeOK, TypeOK', LocalsSound, [Next]_vars
    PROVE  Ledger!Next
<1>1. ASSUME NEW r \in Request, NEW q \in Quote, Swap(r, q) PROVE Ledger!Next
  <2>1. PICK d \in Ledger!Decision : d = goal[r]
    BY DEF TypeOK, LocalType, Decision, Ledger!Decision
  <2>2. Ledger!Decide(r, q, d)
    BY <1>1, <2>1, SwapDecides
  <2>. QED BY <2>2 DEF Ledger!Next
<1>2. ASSUME NEW r \in Request, NEW d \in Decision, NEW quotes \in SUBSET Quote,
             Telling(r, d, quotes)
      PROVE  Ledger!Next
  <2>1. d \in Ledger!Decision /\ Ledger!Tell(r, d, quotes)
    BY <1>2, TellingTells DEF Decision, Ledger!Decision
  <2>. QED BY <2>1 DEF Ledger!Next
<1>3. ASSUME NEW q \in Quote, Submit(q) \/ HardDelete(q) PROVE Ledger!Next
  BY <1>3, RowsMove DEF Ledger!Next
<1>4. CASE Silent
  BY <1>4, SilentForgets DEF Ledger!Next
<1>. QED
  BY <1>1, <1>2, <1>3, <1>4, NextMoves

\* Moderation keeps its promise with any number of quotes and requests: every decision
\* moves a quote at once and from another status, and each has one owner, who tells the
\* author at most once, the bulk route included.
THEOREM ModerationImplementsLedger == Spec => LedgerSpec
<1>1. IInv => TypeOK /\ LocalsSound
  BY DEF IInv
<1>2. IInv /\ IInv' /\ [Next]_vars => [Ledger!Next]_Ledger!ledger
  BY <1>1, LedgerStep DEF IInv
<1>. QED
  BY <1>2, LedgerInit, Inductive, PTL DEF Spec, LedgerSpec, Ledger!Spec

-----------------------------------------------------------------------------
\* One notice per transition

\* The requests that moved q to d and have not told its author.
Owing(q, d) == {r \in Request : pc[r][q] = "won" /\ goal[r] = d}

\* OneNoticePerFlip, strengthened: cardinalities mean nothing of infinite sets.
Accounted(q, d) ==
    /\ IsFiniteSet(Owing(q, d))
    /\ notices[q][d] + Cardinality(Owing(q, d)) <= flips[q][d]

NoticesAccounted == \A q \in Quote, d \in Decision : Accounted(q, d)

LEMMA AccountedIsNotice == NoticesAccounted => OneNoticePerFlip
BY DEF NoticesAccounted, Accounted, Owing, OneNoticePerFlip

LEMMA InitAccounted == Init => NoticesAccounted
<1>. SUFFICES ASSUME Init, NEW q \in Quote, NEW d \in Decision PROVE Accounted(q, d)
  BY DEF NoticesAccounted
<1>1. Owing(q, d) = {}
  BY DEF Init, Owing
<1>2. notices[q][d] = 0 /\ flips[q][d] = 0
  BY DEF Init
<1>. QED
  BY <1>1, <1>2, FS_EmptySet DEF Accounted

\* Fewer requests owe, no notice was given, and nothing moved.
LEMMA FewerAccounted ==
    ASSUME TypeOK, NEW q \in Quote, NEW d \in Decision, Accounted(q, d),
           Owing(q, d)' \subseteq Owing(q, d), notices'[q][d] = notices[q][d],
           flips'[q][d] = flips[q][d]
    PROVE  Accounted(q, d)'
<1>1. /\ IsFiniteSet(Owing(q, d)') /\ Cardinality(Owing(q, d)') <= Cardinality(Owing(q, d))
      /\ Cardinality(Owing(q, d)) \in Nat /\ Cardinality(Owing(q, d)') \in Nat
  BY FS_Subset, FS_CardinalityType DEF Accounted
<1>2. notices[q][d] \in Nat /\ flips[q][d] \in Nat
  BY DEF TypeOK, HistoryType
<1>. QED
  BY <1>1, <1>2 DEF Accounted

\* One of those who owe gives the notice.
LEMMA ToldAccounted ==
    ASSUME TypeOK, NEW q \in Quote, NEW d \in Decision, Accounted(q, d),
           NEW r \in Owing(q, d), Owing(q, d)' = Owing(q, d) \ {r},
           notices'[q][d] = notices[q][d] + 1, flips'[q][d] = flips[q][d]
    PROVE  Accounted(q, d)'
<1>1. /\ IsFiniteSet(Owing(q, d)') /\ Cardinality(Owing(q, d)') = Cardinality(Owing(q, d)) - 1
      /\ Cardinality(Owing(q, d)) \in Nat
  BY FS_RemoveElement, FS_CardinalityType DEF Accounted
<1>2. notices[q][d] \in Nat /\ flips[q][d] \in Nat
  BY DEF TypeOK, HistoryType
<1>. QED
  BY <1>1, <1>2 DEF Accounted

LEMMA SwapAccounted ==
    ASSUME TypeOK, LocalsSound, NoticesAccounted, NEW r \in Request, NEW q \in Quote, Swap(r, q)
    PROVE  NoticesAccounted'
<1>. SUFFICES ASSUME NEW y \in Quote, NEW d \in Decision PROVE Accounted(y, d)'
  BY DEF NoticesAccounted
<1>1. pc[r][q] = "cas" /\ goal[r] \in Decision /\ UNCHANGED <<goal, notices>>
  BY DEF Swap, TypeOK, LocalType
<1>2. /\ pc'[r][q] = "won"
      /\ \A x \in Request, z \in Quote : x # r \/ z # q => pc'[x][z] = pc[x][z]
  BY GotoType DEF Swap, TypeOK, Label
<1>3. /\ flips'[q][goal[r]] = flips[q][goal[r]] + 1
      /\ y # q \/ d # goal[r] => flips'[y][d] = flips[y][d]
  <2>1. flips' = [flips EXCEPT ![q][goal[r]] = flips[q][goal[r]] + 1]
    BY <1>1 DEF Swap, TypeOK, HistoryType
  <2>2. flips[q][goal[r]] + 1 \in Nat
    BY <1>1 DEF TypeOK, HistoryType
  <2>. QED BY <1>1, <2>1, <2>2, NestedUpdate DEF TypeOK, HistoryType
<1>4. Accounted(y, d)
  BY DEF NoticesAccounted
<1>5. CASE y # q \/ d # goal[r]
  <2>1. Owing(y, d)' \subseteq Owing(y, d)
    BY <1>1, <1>2, <1>5 DEF Owing
  <2>. QED BY <1>1, <1>3, <1>4, <1>5, <2>1, FewerAccounted
<1>6. CASE y = q /\ d = goal[r]
  <2>1. Owing(y, d)' = Owing(y, d) \cup {r} /\ r \notin Owing(y, d)
    BY <1>1, <1>2, <1>6 DEF Owing
  <2>2. /\ IsFiniteSet(Owing(y, d)') /\ Cardinality(Owing(y, d)') = Cardinality(Owing(y, d)) + 1
        /\ Cardinality(Owing(y, d)) \in Nat
    BY <1>4, <2>1, FS_AddElement, FS_CardinalityType DEF Accounted
  <2>3. notices[y][d] \in Nat /\ flips[y][d] \in Nat
    BY DEF TypeOK, HistoryType
  <2>. QED BY <1>1, <1>3, <1>4, <1>6, <2>2, <2>3 DEF Accounted
<1>. QED
  BY <1>5, <1>6

LEMMA TellingAccounted ==
    ASSUME TypeOK, NoticesAccounted, NEW r \in Request, NEW d, NEW quotes \in SUBSET Quote,
           Telling(r, d, quotes)
    PROVE  NoticesAccounted'
<1>. SUFFICES ASSUME NEW q \in Quote, NEW e \in Decision PROVE Accounted(q, e)'
  BY DEF NoticesAccounted
<1>1. Accounted(q, e)
  BY DEF NoticesAccounted
<1>2. /\ notices[q][e] \in Nat
      /\ notices'[q][e] = notices[q][e] + IF q \in quotes /\ e = d THEN 1 ELSE 0
      /\ flips'[q][e] = flips[q][e]
  BY DEF TypeOK, HistoryType, Telling
<1>3. CASE q \in quotes /\ e = d
  <2>1. r \in Owing(q, e) /\ Owing(q, e)' = Owing(q, e) \ {r}
    BY <1>3 DEF Owing, Telling
  <2>. QED BY <1>1, <1>2, <1>3, <2>1, ToldAccounted
<1>4. CASE ~(q \in quotes /\ e = d)
  <2>1. Owing(q, e)' \subseteq Owing(q, e) /\ notices'[q][e] = notices[q][e]
    BY <1>2, <1>4 DEF Owing, Telling
  <2>. QED BY <1>1, <1>2, <2>1, FewerAccounted
<1>. QED
  BY <1>3, <1>4

LEMMA AccountedStep ==
    ASSUME TypeOK, LocalsSound, NoticesAccounted, [Next]_vars
    PROVE  NoticesAccounted'
<1>1. CASE \E r \in Request, q \in Quote : Swap(r, q)
  BY <1>1, SwapAccounted
<1>2. CASE \E r \in Request, d \in Decision, quotes \in SUBSET Quote : Telling(r, d, quotes)
  BY <1>2, TellingAccounted
<1>3. ASSUME UNCHANGED <<notices, flips>>,
             \A r \in Request, q \in Quote :
                 pc'[r][q] = "won" => pc[r][q] = "won" /\ goal'[r] = goal[r]
      PROVE  NoticesAccounted'
  <2>. SUFFICES ASSUME NEW q \in Quote, NEW d \in Decision PROVE Accounted(q, d)'
    BY DEF NoticesAccounted
  <2>1. Owing(q, d)' \subseteq Owing(q, d) /\ Accounted(q, d)
    BY <1>3 DEF Owing, NoticesAccounted
  <2>. QED BY <1>3, <2>1, FewerAccounted
<1>4. CASE \E q \in Quote : Submit(q) \/ HardDelete(q)
  <2>1. UNCHANGED <<notices, flips, pc, goal>>
    BY <1>4 DEF Submit, HardDelete, local, history
  <2>. QED BY <1>3, <2>1
<1>5. CASE /\ Silent
           /\ ~\E r \in Request, q \in Quote : Swap(r, q)
           /\ ~\E q \in Quote : Submit(q) \/ HardDelete(q)
  BY <1>3, <1>5, OnlySwapFlips DEF Silent
<1>. QED
  BY <1>1, <1>2, <1>4, <1>5, NextMoves

\* The author of a quote is told of a decision at most once per time it moved the quote,
\* for any number of quotes, requests and faults.
THEOREM NoticesFollowFlips == Spec => []OneNoticePerFlip
<1>1. IInv => TypeOK /\ LocalsSound
  BY DEF IInv
<1>2. IInv /\ NoticesAccounted /\ [Next]_vars => NoticesAccounted'
  BY <1>1, AccountedStep
<1>3. Spec => []NoticesAccounted
  BY <1>2, InitAccounted, Inductive, PTL DEF Spec
<1>. QED
  BY <1>3, AccountedIsNotice, PTL
=============================================================================
