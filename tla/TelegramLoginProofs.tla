------------------------- MODULE TelegramLoginProofs -------------------------
(***************************************************************************)
(* What the Telegram login and the verification of a phone promise, for    *)
(* any number of chats, profiles, sessions and handlers at a time: a       *)
(* session pays out at most one token, a browser polls in vain only when   *)
(* the handler that won its session failed, a verified phone is the one    *)
(* whose code was typed, and an erased profile stays bare, unless a        *)
(* handler wrote what it had read before (routes/telegram.ts,              *)
(* routes/auth.ts).                                                        *)
(***************************************************************************)
EXTENDS TelegramLogin, SequenceTheorems, TLAPS

-----------------------------------------------------------------------------
(* The inductive invariant *)

OnSession == {"expire", "claim", "find", "create", "attach", "user", "consume", "pay"}
ForChat   == {"claim", "find", "create", "note", "check", "link"}
OnProfile == {"note", "check", "link", "issue", "redeem", "erase"}

\* A handler between two statements knows what its next statement needs, and the profile
\* it was let through for exists: rows are never deleted.
JobsFit == \A t \in Task :
    /\ task[t].pc \in OnSession => task[t].on \in Session
    /\ task[t].pc \in ForChat => task[t].chat \in Chat
    /\ task[t].pc \in OnProfile \cup {"attach", "user", "consume", "pay"} => task[t].user \in Account
    /\ task[t].pc \in OnProfile => row[task[t].user].there
    /\ task[t].pc = "redeem" => task[t].saw.code \in Codes

\* Who is about to pay has deleted the session, nobody else has, and nobody has paid.
PaymentsFit ==
    /\ \A s \in Session : logins[s] <= 1 /\ (logins[s] # 0 => session[s].status = "gone")
    /\ \A t \in Task : task[t].pc = "pay" =>
          session[task[t].on].status = "gone" /\ logins[task[t].on] = 0
    /\ \A t, x \in Task :
          task[t].pc = "pay" /\ task[x].pc = "pay" /\ task[t].on = task[x].on => t = x

\* A link, a code and an erasure are of a profile that exists, and a stored code went to the linked chat.
RowsFit == \A u \in Account :
    /\ row[u].live \/ row[u].code # 0 \/ row[u].blocked => row[u].there
    /\ row[u].code # 0 => row[u].code \in Codes /\ codeOf[row[u].code] = row[u].tg

\* A handler that has read a verified or an erased profile behind an open link came after
\* an overtaken write, which only a first erasure has ended since.
ReadsFit == \A t \in Task :
    LET u == task[t].user  saw == task[t].saw IN
    /\ task[t].pc \in {"check", "link"} =>
          /\ saw.blocked => row[u].blocked
          /\ saw.phone \/ saw.blocked => u \in overtaken \/ (row[u].blocked /\ ~saw.blocked)
    /\ task[t].pc = "issue" => ~saw.phone /\ ~saw.blocked

\* Where no handler overtook another, a verified profile has no open link, and an erased
\* one has neither a link nor a code.
ProfilesFit == \A u \in Account : u \notin overtaken =>
    /\ row[u].phone => ~row[u].live /\ proved[u] = row[u].tg
    /\ row[u].blocked => row[u].tg = Null /\ ~row[u].live /\ ~row[u].phone /\ row[u].code = 0

IInv == /\ TypeOK /\ JobsFit
        /\ PaymentsFit /\ StuckExplained
        /\ RowsFit /\ ReadsFit /\ ProfilesFit

-----------------------------------------------------------------------------
(* Jobs *)

USE TelegramAssumption DEF TelegramAssumption

LEMMA IdleIsJob == Idle \in Job /\ Unseen \in Seen
BY DEF Idle, Job, Unseen, Seen

\* The codes sent are numbered from one.
LEMMA CodesNumbered ==
    ASSUME TypeOK
    PROVE  /\ codeOf \in Seq(Chat) /\ Len(codeOf) \in 0..MaxCodes
           /\ Codes = 1..Len(codeOf)
<1> PICK n \in 0..MaxCodes : Codes = 1..n
  BY DEF TypeOK
<1>1. codeOf \in [1..n -> Chat] /\ n \in Nat
  BY DEF TypeOK, Codes
<1>2. codeOf \in Seq(Chat)
  BY <1>1
<1>3. Len(codeOf) = n
  BY <1>1, <1>2 DEF Codes
<1> QED BY <1>2, <1>3

LEMMA SeenOfType == ASSUME TypeOK, NEW u \in Account PROVE SeenOf(u) \in Seen
BY DEF TypeOK, Row, SeenOf, Seen

LEMMA InitHolds == Init => IInv
<1> SUFFICES ASSUME Init PROVE IInv
  OBVIOUS
<1> PICK made \in SUBSET Account : row = [u \in Account |-> [NoRow EXCEPT !.there = u \in made]]
  BY DEF Init
<1>1. row \in [Account -> Row]
  <2> SUFFICES ASSUME NEW u \in Account PROVE [NoRow EXCEPT !.there = u \in made] \in Row
    OBVIOUS
  <2>1. NoRow \in Row
    BY DEF NoRow, Row
  <2>2. \A r \in Row, b \in BOOLEAN : [r EXCEPT !.there = b] \in Row
    BY DEF Row
  <2>3. (u \in made) \in BOOLEAN
    OBVIOUS
  <2> QED BY <2>1, <2>2, <2>3
<1>2. \A u \in Account : ~row[u].live /\ row[u].code = 0 /\ ~row[u].phone /\ ~row[u].blocked
  BY DEF NoRow
<1>3. \A t \in Task : task[t].pc = "idle" /\ task[t] \in Job
  BY IdleIsJob DEF Init, Idle
<1>4. Codes = 1..0 /\ codeOf \in [Codes -> Chat]
  BY DEF Init, Codes
<1>5. TypeOK
  BY <1>1, <1>3, <1>4 DEF TypeOK, Init
<1>6. JobsFit /\ PaymentsFit /\ StuckExplained /\ ReadsFit
  BY <1>3 DEF Init, JobsFit, PaymentsFit, StuckExplained, ReadsFit, OnSession, ForChat, OnProfile
<1>7. RowsFit /\ ProfilesFit
  BY <1>2 DEF RowsFit, ProfilesFit
<1> QED BY <1>5, <1>6, <1>7 DEF IInv

-----------------------------------------------------------------------------
(* Sessions *)

\* What a step keeps that touches neither profiles nor codes.
LEMMA ProfilesKept ==
    ASSUME RowsFit, ProfilesFit, UNCHANGED <<row, codeOf, proved, overtaken>>
    PROVE  RowsFit' /\ ProfilesFit'
BY DEF RowsFit, ProfilesFit, Codes

LEMMA OpenSessionHolds ==
    ASSUME IInv, NEW s \in Session, OpenSession(s) \/ SessionLapses(s) PROVE IInv'
<1>1. TypeOK'
  BY DEF IInv, TypeOK, OpenSession, SessionLapses, history, Codes
<1>2. JobsFit' /\ ReadsFit'
  BY DEF IInv, JobsFit, ReadsFit, OpenSession, SessionLapses, history, Codes
<1>3. \A x \in Session : /\ session'[x].status = "gone" <=> session[x].status = "gone"
                         /\ session'[x].status = "COMPLETE" => session'[x] = session[x]
  BY DEF IInv, TypeOK, OpenSession, SessionLapses
<1>4. PaymentsFit' /\ StuckExplained'
  BY <1>3 DEF IInv, PaymentsFit, JobsFit, OnSession, StuckExplained, Serving, OpenSession, SessionLapses, history
<1> QED BY <1>1, <1>2, <1>4, ProfilesKept DEF IInv, OpenSession, SessionLapses, history

\* A handler that starts leaves everything else as it is.
LEMMA StartHolds ==
    ASSUME IInv, NEW t \in Task, NEW j \in Job, Start(t, j),
           UNCHANGED <<row, session, late, codeOf, links, faults, history>>,
           j.pc # "pay",
           j.pc \in OnSession => j.on \in Session,
           j.pc \in ForChat => j.chat \in Chat,
           j.pc \in OnProfile \cup {"attach", "user", "consume", "pay"} => j.user \in Account,
           j.pc \in OnProfile => row[j.user].there,
           j.pc = "redeem" => j.saw.code \in Codes,
           j.pc \in {"check", "link"} =>
               /\ j.saw = SeenOf(j.user)
               /\ row[j.user].live,
           j.pc = "issue" => ~j.saw.phone /\ ~j.saw.blocked
    PROVE  IInv'
<1>1. /\ task' \in [Task -> Job] /\ task'[t] = j /\ task[t].pc = "idle"
      /\ \A x \in Task \ {t} : task'[x] = task[x]
  BY DEF IInv, TypeOK, Start
<1>2. TypeOK'
  BY <1>1 DEF IInv, TypeOK, history, Codes
<1>3. JobsFit'
  BY <1>1 DEF IInv, JobsFit, Codes
<1>4. PaymentsFit'
  BY <1>1 DEF IInv, PaymentsFit, history
<1>5. StuckExplained'
  BY <1>1 DEF IInv, StuckExplained, Serving, history
<1>6. j.pc \in {"check", "link"} =>
          LET u == j.user IN
          /\ j.saw.blocked => row[u].blocked
          /\ j.saw.phone \/ j.saw.blocked => u \in overtaken \/ (row[u].blocked /\ ~j.saw.blocked)
  BY DEF IInv, ProfilesFit, SeenOf, OnProfile
<1>7. ReadsFit'
  BY <1>1, <1>6 DEF IInv, ReadsFit, history
<1> QED BY <1>2, <1>3, <1>4, <1>5, <1>7, ProfilesKept DEF IInv, history

LEMMA QuickStartHolds ==
    ASSUME IInv, NEW t \in Task, NEW s \in Session, NEW c \in Chat, QuickStart(t, s, c)
    PROVE  IInv'
<1> DEFINE j == [Idle EXCEPT !.pc = IF s \in late THEN "expire" ELSE "claim", !.chat = c, !.on = s]
<1>1. /\ j \in Job /\ j.on = s /\ j.chat = c /\ j.pc \in {"expire", "claim"}
      /\ Start(t, j) /\ UNCHANGED <<row, session, late, codeOf, links, faults, history>>
  BY IdleIsJob DEF Idle, Job, QuickStart, Bot
<1> HIDE DEF j
<1> QED BY <1>1, StartHolds DEF OnProfile

LEMMA VerifyStartHolds ==
    ASSUME IInv, NEW t \in Task, NEW u \in Account, NEW c \in Chat,
           VerifyStart(t, u, c) \/ Contact(t, u, c)
    PROVE  IInv'
<1> PICK p \in {"note", "check"} :
        /\ row[u].live
        /\ Start(t, [Idle EXCEPT !.pc = p, !.chat = c, !.user = u, !.saw = SeenOf(u)])
        /\ UNCHANGED <<row, session, late, codeOf, links, faults, history>>
  BY DEF VerifyStart, Contact
<1> DEFINE j == [Idle EXCEPT !.pc = p, !.chat = c, !.user = u, !.saw = SeenOf(u)]
<1>1. /\ j \in Job /\ j.pc = p /\ j.user = u /\ j.chat = c /\ j.saw = SeenOf(u)
  BY IdleIsJob, SeenOfType DEF Idle, Job, Bot, IInv
<1>2. row[u].there
  BY DEF IInv, RowsFit
<1> HIDE DEF j
<1>3. Start(t, j)
  BY DEF j
<1> QED BY <1>1, <1>2, <1>3, StartHolds DEF OnSession

LEMMA PollHolds ==
    ASSUME IInv, NEW t \in Task, NEW s \in Session, Poll(t, s) PROVE IInv'
<1>1. UNCHANGED <<row, session, late, codeOf, links, faults, history>>
  BY DEF Poll
<1>2. CASE Start(t, [Idle EXCEPT !.pc = "expire", !.on = s])
  <2> DEFINE j == [Idle EXCEPT !.pc = "expire", !.on = s]
  <2>1. j \in Job /\ j.pc = "expire" /\ j.on = s
    BY IdleIsJob DEF Idle, Job
  <2> HIDE DEF j
  <2>2. Start(t, j)
    BY <1>2 DEF j
  <2> QED BY <1>1, <2>1, <2>2, StartHolds DEF OnProfile, ForChat
<1>3. CASE /\ session[s].user # Null
           /\ Start(t, [Idle EXCEPT !.pc = "user", !.on = s, !.user = session[s].user])
  <2> DEFINE u == session[s].user
             j == [Idle EXCEPT !.pc = "user", !.on = s, !.user = u]
  <2>1. u \in Account
    BY <1>3 DEF IInv, TypeOK
  <2>2. j \in Job /\ j.pc = "user" /\ j.on = s /\ j.user = u
    BY <2>1, IdleIsJob DEF Idle, Job, Web
  <2> HIDE DEF j
  <2>3. Start(t, j)
    BY <1>3 DEF j
  <2> QED BY <1>1, <2>1, <2>2, <2>3, StartHolds DEF OnProfile, ForChat
<1> QED BY <1>2, <1>3 DEF Poll

LEMMA AskHolds ==
    ASSUME IInv, NEW t \in Task, NEW u \in Account,
           AskLink(t, u) \/ AskErase(t, u) \/ \E k \in Codes : TypeCode(t, u, k)
    PROVE  IInv'
<1>1. CASE AskLink(t, u)
  <2> DEFINE j == [Idle EXCEPT !.pc = "issue", !.user = u, !.saw = SeenOf(u)]
  <2>1. /\ j \in Job /\ j.pc = "issue" /\ j.user = u /\ j.saw = SeenOf(u)
    BY IdleIsJob, SeenOfType DEF Idle, Job, Web, IInv
  <2>2. ~SeenOf(u).phone /\ ~SeenOf(u).blocked /\ row[u].there
    BY <1>1 DEF AskLink, MayAsk, SeenOf
  <2>3. Start(t, j) /\ UNCHANGED <<row, session, late, codeOf, links, faults, history>>
    BY <1>1 DEF AskLink
  <2> HIDE DEF j
  <2> QED BY <2>1, <2>2, <2>3, StartHolds DEF OnSession, ForChat
<1>2. CASE AskErase(t, u)
  <2> DEFINE j == [Idle EXCEPT !.pc = "erase", !.user = u]
  <2>1. /\ j \in Job /\ j.pc = "erase" /\ j.user = u
    BY IdleIsJob DEF Idle, Job, Web
  <2>2. row[u].there
    BY <1>2 DEF AskErase, MayAsk
  <2>3. Start(t, j) /\ UNCHANGED <<row, session, late, codeOf, links, faults, history>>
    BY <1>2 DEF AskErase
  <2> HIDE DEF j
  <2> QED BY <2>1, <2>2, <2>3, StartHolds DEF OnSession, ForChat
<1>3. CASE \E k \in Codes : TypeCode(t, u, k)
  <2> PICK k \in Codes : TypeCode(t, u, k)
    BY <1>3
  <2> DEFINE v == [SeenOf(u) EXCEPT !.code = k]
             j == [Idle EXCEPT !.pc = "redeem", !.user = u, !.saw = v]
  <2>1. v \in Seen /\ v.code = k
    BY SeenOfType, CodesNumbered DEF Seen, IInv
  <2>2. /\ j \in Job /\ j.pc = "redeem" /\ j.user = u /\ j.saw = v
    BY <2>1, IdleIsJob DEF Idle, Job, Web
  <2>3. row[u].there
    BY DEF TypeCode, MayAsk
  <2>4. Start(t, j) /\ UNCHANGED <<row, session, late, codeOf, links, faults, history>>
    BY DEF TypeCode
  <2> HIDE DEF j
  <2> QED BY <2>1, <2>2, <2>3, <2>4, StartHolds DEF OnSession, ForChat
<1> QED BY <1>1, <1>2, <1>3

-----------------------------------------------------------------------------
(* The steps of a handler that leave the profiles alone *)

\* A handler that goes on or ends: its place is the only thing about it that changes.
LEMMA GotoType ==
    ASSUME TypeOK, NEW t \in Task, NEW p \in {"idle", "expire"} \cup Bot \cup Web, Goto(t, p)
    PROVE  /\ task' \in [Task -> Job] /\ task'[t].pc = p
           /\ task'[t].on = task[t].on /\ task'[t].user = task[t].user
           /\ task'[t].chat = task[t].chat /\ task'[t].saw = task[t].saw
           /\ \A x \in Task \ {t} : task'[x] = task[x]
<1>1. \A j \in Job : LET k == [j EXCEPT !.pc = p] IN
          k \in Job /\ k.pc = p /\ k.on = j.on /\ k.user = j.user /\ k.chat = j.chat /\ k.saw = j.saw
  BY DEF Job
<1>2. task \in [Task -> Job] /\ task' = [task EXCEPT ![t] = [task[t] EXCEPT !.pc = p]]
  BY DEF TypeOK, Goto
<1> QED BY <1>1, <1>2

LEMMA EndType ==
    ASSUME TypeOK, NEW t \in Task, End(t)
    PROVE  /\ task' \in [Task -> Job] /\ task'[t] = Idle /\ task'[t].pc = "idle"
           /\ \A x \in Task \ {t} : task'[x] = task[x]
BY IdleIsJob DEF TypeOK, End, Idle

\* A handler that ends, having changed neither profiles nor codes, leaves the others able
\* to go on, and what they have read as it was.
LEMMA EndKeepsJobs ==
    ASSUME TypeOK, JobsFit, ReadsFit, NEW t \in Task, End(t),
           UNCHANGED <<row, codeOf, overtaken>>
    PROVE  JobsFit' /\ ReadsFit'
BY EndType DEF JobsFit, ReadsFit, Codes, OnSession, ForChat, OnProfile

\* So does one that goes on with what it has.
LEMMA GotoKeepsJobs ==
    ASSUME TypeOK, JobsFit, ReadsFit, NEW t \in Task, NEW p \in {"find", "create", "link", "consume", "pay"},
           Goto(t, p), UNCHANGED <<row, codeOf, overtaken>>,
           p = "find" => task[t].pc = "claim",
           p = "create" => task[t].pc = "find",
           p = "link" => task[t].pc = "check",
           p = "consume" => task[t].pc = "user",
           p = "pay" => task[t].pc = "consume"
    PROVE  JobsFit' /\ ReadsFit'
<1>1. p \in Bot \cup Web
  BY DEF Bot, Web
<1>2. JobsFit'
  BY <1>1, GotoType DEF JobsFit, Codes, OnSession, ForChat, OnProfile
<1>3. ReadsFit'
  BY <1>1, GotoType DEF ReadsFit
<1> QED BY <1>2, <1>3

LEMMA ExpiresHolds == ASSUME IInv, NEW t \in Task, Expires(t) PROVE IInv'
<1> DEFINE s == task[t].on
<1>1. s \in Session
  BY DEF IInv, JobsFit, OnSession, Expires
<1>2. /\ \A x \in Session : /\ session'[x].status = "gone" <=> session[x].status = "gone"
                            /\ session'[x].status = "COMPLETE" => session'[x] = session[x]
      /\ session' \in [Session -> [status : {"unused", "PENDING", "COMPLETE", "EXPIRED", "gone"},
                                   user : Account \cup {Null}]]
  BY <1>1 DEF IInv, TypeOK, Expires, Expire
<1>3. TypeOK' /\ JobsFit' /\ ReadsFit'
  BY <1>2, EndType, EndKeepsJobs DEF IInv, TypeOK, Expires, history, Codes
<1>4. PaymentsFit'
  BY <1>2, EndType DEF IInv, JobsFit, OnSession, PaymentsFit, Expires, history
<1>5. StuckExplained'
  BY <1>2, EndType DEF IInv, StuckExplained, Serving, Expires, history
<1> QED BY <1>3, <1>4, <1>5, ProfilesKept DEF IInv, Expires, history

LEMMA ClaimHolds == ASSUME IInv, NEW t \in Task, Claim(t) PROVE IInv'
<1> DEFINE s == task[t].on
<1>1. s \in Session
  BY DEF IInv, JobsFit, OnSession, Claim
<1>2. CASE Claimable(s)
  <2>1. Goto(t, "find") /\ session' = [session EXCEPT ![s].status = "COMPLETE"]
    BY <1>2 DEF Claim
  <2>2. /\ \A x \in Session : /\ session'[x].status = "gone" <=> session[x].status = "gone"
                              /\ x # s => session'[x] = session[x]
        /\ session' \in [Session -> [status : {"unused", "PENDING", "COMPLETE", "EXPIRED", "gone"},
                                     user : Account \cup {Null}]]
    <3>1. session[s].status = "PENDING"
      BY <1>2 DEF Claimable
    <3>2. session \in [Session -> [status : {"unused", "PENDING", "COMPLETE", "EXPIRED", "gone"},
                                   user : Account \cup {Null}]]
      BY DEF IInv, TypeOK
    <3> QED BY <1>1, <2>1, <3>1, <3>2
  <2>3. TypeOK' /\ JobsFit' /\ ReadsFit'
    BY <2>1, <2>2, GotoType, GotoKeepsJobs DEF IInv, TypeOK, Claim, history, Codes, Bot
  <2>4. PaymentsFit'
    BY <2>1, <2>2, GotoType DEF IInv, JobsFit, OnSession, PaymentsFit, Claim, history, Bot
  <2>5. StuckExplained'
    BY <2>1, <2>2, GotoType DEF IInv, StuckExplained, Serving, Claim, history, Bot
  <2> QED BY <2>3, <2>4, <2>5, ProfilesKept DEF IInv, Claim, history
<1>3. CASE ~Claimable(s)
  <2>1. End(t) /\ UNCHANGED session
    BY <1>3 DEF Claim
  <2>2. TypeOK' /\ JobsFit' /\ ReadsFit'
    BY <2>1, EndType, EndKeepsJobs DEF IInv, TypeOK, Claim, history, Codes
  <2>3. PaymentsFit' /\ StuckExplained'
    BY <2>1, EndType DEF IInv, PaymentsFit, StuckExplained, Serving, Claim, history
  <2> QED BY <2>2, <2>3, ProfilesKept DEF IInv, Claim, history
<1> QED BY <1>2, <1>3

\* The handler of a session that was found or made an account for goes on to name it.
LEMMA AttachType ==
    ASSUME TypeOK, NEW t \in Task, NEW u \in Account,
           task' = [task EXCEPT ![t].pc = "attach", ![t].user = u]
    PROVE  /\ task' \in [Task -> Job] /\ task'[t].pc = "attach" /\ task'[t].user = u
           /\ task'[t].on = task[t].on
           /\ \A x \in Task \ {t} : task'[x] = task[x]
<1> DEFINE n == [task[t] EXCEPT !.pc = "attach", !.user = u]
<1>1. task \in [Task -> Job] /\ task[t] \in Job
  BY DEF TypeOK
<1>2. n \in Job /\ n.pc = "attach" /\ n.user = u /\ n.on = task[t].on
  BY <1>1 DEF Job, Bot
<1>3. task' = [task EXCEPT ![t] = n]
  BY <1>1
<1> HIDE DEF n
<1> QED BY <1>1, <1>2, <1>3

LEMMA FindUserHolds == ASSUME IInv, NEW t \in Task, FindUser(t) PROVE IInv'
<1>1. UNCHANGED <<row, session, late, codeOf, links, faults, history>> /\ task[t].pc = "find"
  BY DEF FindUser
<1>2. CASE Goto(t, "create")
  <2>1. TypeOK' /\ JobsFit' /\ ReadsFit'
    BY <1>1, <1>2, GotoType, GotoKeepsJobs DEF IInv, TypeOK, history, Codes, Bot
  <2>2. PaymentsFit' /\ StuckExplained'
    BY <1>1, <1>2, GotoType DEF IInv, PaymentsFit, StuckExplained, Serving, history, Bot
  <2> QED BY <1>1, <2>1, <2>2, ProfilesKept DEF IInv, history
<1>3. ASSUME NEW u \in Account, task' = [task EXCEPT ![t].pc = "attach", ![t].user = u]
      PROVE  IInv'
  <2>0. /\ task' \in [Task -> Job] /\ task'[t].pc = "attach" /\ task'[t].user = u
        /\ task'[t].on = task[t].on
        /\ \A x \in Task \ {t} : task'[x] = task[x]
    BY <1>3, AttachType DEF IInv
  <2>1. TypeOK'
    BY <1>1, <2>0 DEF IInv, TypeOK, history, Codes
  <2>2. JobsFit' /\ ReadsFit'
    BY <1>1, <2>0 DEF IInv, JobsFit, ReadsFit, OnSession, ForChat, OnProfile, history, Codes
  <2>3. PaymentsFit' /\ StuckExplained'
    BY <1>1, <2>0 DEF IInv, PaymentsFit, StuckExplained, Serving, history
  <2> QED BY <1>1, <2>1, <2>2, <2>3, ProfilesKept DEF IInv, history
<1> QED BY <1>2, <1>3 DEF FindUser, Holders

LEMMA AttachHolds == ASSUME IInv, NEW t \in Task, Attach(t) PROVE IInv'
<1> DEFINE s == task[t].on
<1>1. s \in Session /\ task[t].user \in Account /\ task[t].user # Null
  BY DEF IInv, JobsFit, OnSession, Attach
<1>2. /\ session' \in [Session -> [status : {"unused", "PENDING", "COMPLETE", "EXPIRED", "gone"},
                                   user : Account \cup {Null}]]
      /\ \A x \in Session : session'[x].status = session[x].status
      /\ \A x \in Session \ {s} : session'[x] = session[x]
      /\ session[s].status # "gone" => session'[s].user # Null
  BY <1>1 DEF IInv, TypeOK, Attach, Attached
<1>3. End(t) /\ UNCHANGED <<row, late, codeOf, links, faults, history>>
  BY DEF Attach
<1>4. TypeOK' /\ JobsFit' /\ ReadsFit'
  BY <1>2, <1>3, EndType, EndKeepsJobs DEF IInv, TypeOK, history, Codes
<1>5. PaymentsFit'
  BY <1>2, <1>3, EndType DEF IInv, JobsFit, OnSession, PaymentsFit, history
<1>6. StuckExplained'
  <2> SUFFICES ASSUME NEW x \in Session, session'[x].status = "COMPLETE", session'[x].user = Null
               PROVE  x \in lost' \/ \E q \in Task : Serving(q, x)'
    BY DEF StuckExplained
  <2>1. x # s /\ session[x].status = "COMPLETE" /\ session[x].user = Null
    BY <1>2
  <2>2. x \in lost \/ \E q \in Task : Serving(q, x)
    BY <2>1 DEF IInv, StuckExplained
  <2> QED BY <1>3, <2>1, <2>2, EndType DEF IInv, Serving, history
<1> QED BY <1>3, <1>4, <1>5, <1>6, ProfilesKept DEF IInv, history

LEMMA CheckHolds == ASSUME IInv, NEW t \in Task, CheckLinked(t) \/ ReadUser(t) PROVE IInv'
<1>1. UNCHANGED <<row, session, late, codeOf, links, faults, history>>
  BY DEF CheckLinked, ReadUser
<1>2. CASE End(t) /\ task[t].pc \in {"check", "user"}
  <2>1. TypeOK' /\ JobsFit' /\ ReadsFit'
    BY <1>1, <1>2, EndType, EndKeepsJobs DEF IInv, TypeOK, history, Codes
  <2>2. PaymentsFit' /\ StuckExplained'
    BY <1>1, <1>2, EndType DEF IInv, PaymentsFit, StuckExplained, Serving, history
  <2> QED BY <1>1, <2>1, <2>2, ProfilesKept DEF IInv, history
<1>3. ASSUME NEW p \in {"link", "consume"}, Goto(t, p),
             p = "link" => task[t].pc = "check", p = "consume" => task[t].pc = "user"
      PROVE  IInv'
  <2>1. TypeOK' /\ JobsFit' /\ ReadsFit'
    BY <1>1, <1>3, GotoType, GotoKeepsJobs DEF IInv, TypeOK, history, Codes, Bot, Web
  <2>2. PaymentsFit' /\ StuckExplained'
    BY <1>1, <1>3, GotoType DEF IInv, PaymentsFit, StuckExplained, Serving, history, Bot, Web
  <2> QED BY <1>1, <2>1, <2>2, ProfilesKept DEF IInv, history
<1> QED BY <1>2, <1>3 DEF CheckLinked, ReadUser

\* The delete tells the poll that took the session from those that came too late.
LEMMA ConsumeHolds == ASSUME IInv, NEW t \in Task, Consume(t) PROVE IInv'
<1> DEFINE s == task[t].on
<1>1. s \in Session /\ task[t].pc = "consume"
  BY DEF IInv, JobsFit, OnSession, Consume
<1>2. /\ session' \in [Session -> [status : {"unused", "PENDING", "COMPLETE", "EXPIRED", "gone"},
                                   user : Account \cup {Null}]]
      /\ session'[s].status = "gone"
      /\ \A x \in Session \ {s} : session'[x] = session[x]
  <2>1. \A r \in [status : {"unused", "PENDING", "COMPLETE", "EXPIRED", "gone"}, user : Account \cup {Null}] :
            LET n == [r EXCEPT !.status = "gone", !.user = Null] IN
            n \in [status : {"unused", "PENDING", "COMPLETE", "EXPIRED", "gone"}, user : Account \cup {Null}]
            /\ n.status = "gone"
    OBVIOUS
  <2>2. session' = [session EXCEPT ![s] = [session[s] EXCEPT !.status = "gone", !.user = Null]]
    BY <1>1 DEF IInv, TypeOK, Consume
  <2> QED BY <1>1, <2>1, <2>2 DEF IInv, TypeOK
<1>3. UNCHANGED <<row, late, codeOf, links, faults, history>>
  BY DEF Consume
<1>4. CASE Consumed(s)
  <2>1. Goto(t, "pay")
    BY <1>4 DEF Consume
  <2>2. TypeOK' /\ JobsFit' /\ ReadsFit'
    BY <1>1, <1>2, <1>3, <2>1, GotoType, GotoKeepsJobs DEF IInv, TypeOK, history, Codes, Web
  <2>3. /\ logins[s] = 0
        /\ \A x \in Task : task[x].pc = "pay" => task[x].on # s
    BY <1>1, <1>4 DEF IInv, PaymentsFit, Consumed
  <2>4. PaymentsFit'
    BY <1>1, <1>2, <1>3, <2>1, <2>3, GotoType DEF IInv, JobsFit, OnSession, PaymentsFit, history, Web
  <2>5. StuckExplained'
    BY <1>1, <1>2, <1>3, <2>1, GotoType DEF IInv, StuckExplained, Serving, history, Web
  <2> QED BY <1>3, <2>2, <2>4, <2>5, ProfilesKept DEF IInv, history
<1>5. CASE ~Consumed(s)
  <2>1. End(t)
    BY <1>5 DEF Consume
  <2>2. TypeOK' /\ JobsFit' /\ ReadsFit'
    BY <1>2, <1>3, <2>1, EndType, EndKeepsJobs DEF IInv, TypeOK, history, Codes
  <2>3. PaymentsFit'
    <3>1. \A x \in Task : task'[x].pc = "pay" =>
              x # t /\ task[x].pc = "pay" /\ task'[x] = task[x] /\ task[x].on \in Session
      BY <2>1, EndType DEF IInv, JobsFit, OnSession
    <3> QED BY <1>1, <1>2, <1>3, <3>1 DEF IInv, PaymentsFit, history
  <2>4. StuckExplained'
    BY <1>1, <1>2, <1>3, <2>1, EndType DEF IInv, StuckExplained, Serving, history
  <2> QED BY <1>3, <2>2, <2>3, <2>4, ProfilesKept DEF IInv, history
<1> QED BY <1>4, <1>5

LEMMA PayHolds == ASSUME IInv, NEW t \in Task, Pay(t) PROVE IInv'
<1> DEFINE s == task[t].on
<1>1. s \in Session /\ task[t].pc = "pay" /\ session[s].status = "gone" /\ logins[s] = 0
  BY DEF IInv, JobsFit, OnSession, PaymentsFit, Pay
<1>2. End(t) /\ UNCHANGED <<row, session, late, codeOf, links, faults, lost, proved, overtaken>>
  BY DEF Pay
<1>3. /\ logins' \in [Session -> 0..2] /\ logins'[s] = 1
      /\ \A x \in Session \ {s} : logins'[x] = logins[x]
  BY <1>1 DEF IInv, TypeOK, Pay
<1>4. TypeOK' /\ JobsFit' /\ ReadsFit'
  BY <1>2, <1>3, EndType, EndKeepsJobs DEF IInv, TypeOK, Codes
<1>5. PaymentsFit'
  <2>1. \A x \in Task : task'[x].pc = "pay" => x # t /\ task[x].pc = "pay" /\ task'[x] = task[x] /\ task[x].on # s
    BY <1>1, <1>2, EndType DEF IInv, PaymentsFit
  <2> QED BY <1>1, <1>2, <1>3, <2>1 DEF IInv, JobsFit, OnSession, PaymentsFit
<1>6. StuckExplained'
  BY <1>1, <1>2, EndType DEF IInv, StuckExplained, Serving
<1> QED BY <1>2, <1>4, <1>5, <1>6, ProfilesKept DEF IInv

LEMMA FailHolds == ASSUME IInv, NEW t \in Task, Fail(t) PROVE IInv'
<1>1. task[t].on \in Session
  BY DEF IInv, JobsFit, OnSession, Fail
<1>2. End(t) /\ UNCHANGED <<row, session, late, codeOf, links, logins, proved, overtaken>>
      /\ lost' = lost \cup {task[t].on}
  BY DEF Fail
<1>3. TypeOK' /\ JobsFit' /\ ReadsFit'
  BY <1>1, <1>2, EndType, EndKeepsJobs DEF IInv, TypeOK, Codes, Fail
<1>4. PaymentsFit'
  BY <1>2, EndType DEF IInv, PaymentsFit
<1>5. StuckExplained'
  BY <1>2, EndType DEF IInv, StuckExplained, Serving
<1> QED BY <1>2, <1>3, <1>4, <1>5, ProfilesKept DEF IInv

-----------------------------------------------------------------------------
(* The steps that write a profile *)

\* A code that is sent takes the next number and leaves the others with their chats.
LEMMA CodeSent ==
    ASSUME TypeOK, NEW c \in Chat, Len(codeOf) + 1 <= MaxCodes, codeOf' = Append(codeOf, c)
    PROVE  /\ Codes' \in {1..n : n \in 0..MaxCodes} /\ codeOf' \in [Codes' -> Chat]
           /\ Len(codeOf) + 1 \in Codes' /\ codeOf'[Len(codeOf) + 1] = c
           /\ \A k \in Codes : k \in Codes' /\ codeOf'[k] = codeOf[k]
<1> DEFINE m == Len(codeOf)
<1>1. codeOf \in Seq(Chat) /\ m \in Nat /\ Codes = 1..m
  BY CodesNumbered
<1>2. codeOf' \in Seq(Chat) /\ Len(codeOf') = m + 1
  BY <1>1, AppendProperties
<1>3. Codes' = 1..(m + 1) /\ codeOf' \in [1..(m + 1) -> Chat]
  BY <1>2, LenProperties DEF Codes
<1>4. \A k \in 1..m : codeOf'[k] = codeOf[k]
  BY <1>1
<1>5. codeOf'[m + 1] = c
  BY <1>1
<1> QED BY <1>1, <1>3, <1>4, <1>5

\* The row stays, and an erased one stays erased.
Writes(u, n) ==
    /\ n \in Row /\ row' = [row EXCEPT ![u] = n]
    /\ n.there /\ (row[u].blocked => n.blocked)

\* The handler that wrote ends, or goes on to name the account it made.
WriterMoves ==
    /\ task' \in [Task -> Job]
    /\ \A x \in Task :
          \/ task'[x] = task[x]
          \/ task'[x].pc = "idle" /\ task[x].pc \notin {"find", "create", "attach"}
          \/ /\ task[x].pc = "create" /\ task'[x].pc = "attach"
             /\ task'[x].on = task[x].on /\ task'[x].user \in Account

\* Codes keep their chats, and the one of the row went to the chat it is linked to.
CodesKept(n) ==
    /\ Codes' \in {1..k : k \in 0..MaxCodes} /\ codeOf' \in [Codes' -> Chat]
    /\ \A k \in Codes : k \in Codes' /\ codeOf'[k] = codeOf[k]
    /\ n.code # 0 => n.code \in Codes' /\ codeOf'[n.code] = n.tg

\* The row is sound unless the write overtook another; only a first erasure ends that.
Marks(u, n) ==
    /\ overtaken' \subseteq Account /\ proved' \in [Account -> Chat \cup {Null}]
    /\ \A x \in Account \ {u} : /\ x \in overtaken <=> x \in overtaken'
                                /\ proved'[x] = proved[x]
    /\ u \in overtaken \ overtaken' => n.blocked /\ ~row[u].blocked
    /\ u \notin overtaken' =>
          /\ n.phone => ~n.live /\ proved'[u] = n.tg
          /\ n.blocked => n.tg = Null /\ ~n.live /\ ~n.phone /\ n.code = 0

\* A write of one profile that sees to all of that preserves the invariant.
LEMMA WriteHolds ==
    ASSUME IInv, NEW u \in Account, NEW n, Writes(u, n), WriterMoves, CodesKept(n), Marks(u, n),
           links' \in 0..MaxLinks, UNCHANGED <<session, late, faults, logins, lost>>
    PROVE  IInv'
<1> USE DEF Writes, WriterMoves, CodesKept, Marks
<1>1. /\ row' \in [Account -> Row] /\ row'[u] = n
      /\ \A x \in Account \ {u} : row'[x] = row[x]
  BY DEF IInv, TypeOK
<1>2. TypeOK'
  BY <1>1 DEF IInv, TypeOK
<1>3. JobsFit'
  <2> SUFFICES ASSUME NEW t \in Task
               PROVE  /\ task'[t].pc \in OnSession => task'[t].on \in Session
                      /\ task'[t].pc \in ForChat => task'[t].chat \in Chat
                      /\ task'[t].pc \in OnProfile \cup {"attach", "user", "consume", "pay"}
                            => task'[t].user \in Account
                      /\ task'[t].pc \in OnProfile => row'[task'[t].user].there
                      /\ task'[t].pc = "redeem" => task'[t].saw.code \in Codes'
    BY DEF JobsFit
  <2>1. CASE task'[t] = task[t]
    BY <2>1, <1>1 DEF IInv, JobsFit, OnProfile
  <2>2. CASE task'[t].pc = "idle"
    BY <2>2 DEF OnSession, ForChat, OnProfile
  <2>3. CASE /\ task[t].pc = "create" /\ task'[t].pc = "attach"
             /\ task'[t].on = task[t].on /\ task'[t].user \in Account
    BY <2>3 DEF IInv, JobsFit, OnSession, ForChat, OnProfile
  <2> QED BY <2>1, <2>2, <2>3
<1>4. PaymentsFit'
  <2>1. \A t \in Task : task'[t].pc = "pay" => task'[t] = task[t]
    OBVIOUS
  <2> QED BY <2>1 DEF IInv, PaymentsFit
<1>5. StuckExplained'
  <2>1. \A t \in Task, s \in Session : Serving(t, s) => Serving(t, s)'
    BY DEF Serving
  <2> QED BY <2>1 DEF IInv, StuckExplained
<1>6. RowsFit'
  BY <1>1 DEF IInv, RowsFit
<1>7. ReadsFit'
  <2> SUFFICES ASSUME NEW t \in Task, task'[t].pc \in {"check", "link", "issue"}
               PROVE  LET v == task'[t].user  saw == task'[t].saw IN
                      /\ task'[t].pc \in {"check", "link"} =>
                            /\ saw.blocked => row'[v].blocked
                            /\ saw.phone \/ saw.blocked =>
                                  v \in overtaken' \/ (row'[v].blocked /\ ~saw.blocked)
                      /\ task'[t].pc = "issue" => ~saw.phone /\ ~saw.blocked
    BY DEF ReadsFit
  <2>1. task'[t] = task[t] /\ task[t].user \in Account
    BY DEF IInv, JobsFit, OnProfile
  <2>2. CASE task[t].user # u
    BY <1>1, <2>1, <2>2 DEF IInv, ReadsFit
  <2>3. CASE task[t].user = u
    BY <1>1, <2>1, <2>3 DEF IInv, ReadsFit
  <2> QED BY <2>2, <2>3
<1>8. ProfilesFit'
  BY <1>1 DEF IInv, ProfilesFit
<1> QED BY <1>2, <1>3, <1>4, <1>5, <1>6, <1>7, <1>8 DEF IInv

LEMMA LapseHolds ==
    ASSUME IInv, NEW u \in Account, LinkLapses(u) \/ CodeLapses(u) PROVE IInv'
<1>1. UNCHANGED <<session, late, task, codeOf, links, faults, logins, lost, proved, overtaken>>
  BY DEF LinkLapses, CodeLapses, history
<1>2. PICK n \in Row :
         /\ row' = [row EXCEPT ![u] = n]
         /\ n.there = row[u].there /\ n.tg = row[u].tg /\ n.phone = row[u].phone
         /\ n.blocked = row[u].blocked
         /\ n.live => row[u].live
         /\ n.code \in {0, row[u].code}
  <2>1. row \in [Account -> Row] /\ row[u] \in Row
    BY DEF IInv, TypeOK
  <2>2. CASE LinkLapses(u)
    <3> DEFINE n == [row[u] EXCEPT !.live = FALSE]
    <3>1. /\ n \in Row /\ ~n.live /\ n.there = row[u].there /\ n.tg = row[u].tg
          /\ n.phone = row[u].phone /\ n.blocked = row[u].blocked /\ n.code = row[u].code
      BY <2>1 DEF Row
    <3>2. row' = [row EXCEPT ![u] = n]
      BY <2>1, <2>2 DEF LinkLapses
    <3> HIDE DEF n
    <3> QED BY <3>1, <3>2
  <2>3. CASE CodeLapses(u)
    <3> DEFINE n == [row[u] EXCEPT !.code = 0]
    <3>1. /\ n \in Row /\ n.code = 0 /\ n.there = row[u].there /\ n.tg = row[u].tg
          /\ n.phone = row[u].phone /\ n.blocked = row[u].blocked /\ n.live = row[u].live
      BY <2>1 DEF Row
    <3>2. row' = [row EXCEPT ![u] = n]
      BY <2>1, <2>3 DEF CodeLapses
    <3> HIDE DEF n
    <3> QED BY <3>1, <3>2
  <2> QED BY <2>2, <2>3
<1>3. row[u].live \/ row[u].code # 0
  BY DEF LinkLapses, CodeLapses
<1>4. CASE row[u].there
  <2>1. Writes(u, n)
    BY <1>2, <1>4 DEF Writes
  <2>2. WriterMoves
    BY <1>1 DEF IInv, TypeOK, WriterMoves
  <2>3. CodesKept(n)
    BY <1>1, <1>2 DEF IInv, TypeOK, Codes, RowsFit, CodesKept
  <2>4. Marks(u, n)
    BY <1>1, <1>2 DEF IInv, TypeOK, ProfilesFit, Marks
  <2>5. links' \in 0..MaxLinks
    BY <1>1 DEF IInv, TypeOK
  <2> QED BY <1>1, <2>1, <2>2, <2>3, <2>4, <2>5, WriteHolds
<1>5. CASE ~row[u].there
  BY <1>3, <1>5 DEF IInv, RowsFit
<1> QED BY <1>4, <1>5

LEMMA CreateUserHolds == ASSUME IInv, NEW t \in Task, CreateUser(t) PROVE IInv'
<1> DEFINE c == task[t].chat
<1>1. c \in Chat /\ task[t].on \in Session /\ task[t].pc = "create"
  BY DEF IInv, JobsFit, OnSession, ForChat, CreateUser
<1>2. UNCHANGED <<session, late, codeOf, links, faults, logins, proved, overtaken>>
  BY DEF CreateUser
<1>3. ASSUME NEW u \in Account, ~row[u].there, UNCHANGED lost,
             row' = [row EXCEPT ![u] = [NoRow EXCEPT !.there = TRUE, !.quick = TRUE, !.tg = c]],
             task' = [task EXCEPT ![t].pc = "attach", ![t].user = u]
      PROVE  IInv'
  <2> DEFINE n == [NoRow EXCEPT !.there = TRUE, !.quick = TRUE, !.tg = c]
  <2>1. n \in Row /\ n.there /\ ~n.phone /\ ~n.live /\ ~n.blocked /\ n.code = 0
    <3>1. NoRow \in Row /\ ~NoRow.phone /\ ~NoRow.live /\ ~NoRow.blocked /\ NoRow.code = 0
      BY DEF NoRow, Row
    <3>2. \A r \in Row : LET m == [r EXCEPT !.there = TRUE, !.quick = TRUE, !.tg = c] IN
             /\ m \in Row /\ m.there /\ m.phone = r.phone /\ m.live = r.live
             /\ m.blocked = r.blocked /\ m.code = r.code
      BY <1>1 DEF Row
    <3> QED BY <3>1, <3>2
  <2>2. row' = [row EXCEPT ![u] = n]
    BY <1>3
  <2> HIDE DEF n
  <2>3. /\ task' \in [Task -> Job] /\ task'[t].pc = "attach" /\ task'[t].user = u
        /\ task'[t].on = task[t].on
        /\ \A x \in Task \ {t} : task'[x] = task[x]
    BY <1>3, AttachType DEF IInv
  <2>4. ~row[u].blocked
    BY <1>3 DEF IInv, RowsFit
  <2>5. Writes(u, n)
    BY <2>1, <2>2, <2>4 DEF Writes
  <2>6. WriterMoves
    BY <1>1, <2>3 DEF WriterMoves
  <2>7. CodesKept(n)
    BY <1>2, <2>1 DEF IInv, TypeOK, Codes, CodesKept
  <2>8. Marks(u, n)
    BY <1>2, <2>1 DEF IInv, TypeOK, Marks
  <2>9. links' \in 0..MaxLinks
    BY <1>2 DEF IInv, TypeOK
  <2> QED BY <1>2, <1>3, <2>5, <2>6, <2>7, <2>8, <2>9, WriteHolds
<1>4. CASE lost' = lost \cup {task[t].on} /\ End(t) /\ UNCHANGED row
  <2>1. TypeOK' /\ JobsFit' /\ ReadsFit'
    BY <1>1, <1>2, <1>4, EndType, EndKeepsJobs DEF IInv, TypeOK, Codes
  <2>2. PaymentsFit' /\ StuckExplained'
    BY <1>1, <1>2, <1>4, EndType DEF IInv, PaymentsFit, StuckExplained, Serving
  <2> QED BY <1>2, <1>4, <2>1, <2>2, ProfilesKept DEF IInv
<1> QED BY <1>3, <1>4 DEF CreateUser

\* What a handler writes to a profile it has read is sound, unless the write is marked.
LEMMA OvertakeMarks ==
    ASSUME IInv, NEW u \in Account, row[u].there, NEW saw, Overtake(u, saw)
    PROVE  /\ overtaken' \subseteq Account
           /\ \A x \in Account \ {u} : x \in overtaken <=> x \in overtaken'
           /\ u \in overtaken => u \in overtaken'
           /\ u \notin overtaken' => saw = SeenOf(u)
BY DEF IInv, TypeOK, Overtake

LEMMA NoteChatHolds == ASSUME IInv, NEW t \in Task, NoteChat(t) PROVE IInv'
<1> DEFINE u == task[t].user  n == [row[u] EXCEPT !.chat = task[t].chat]
<1>1. u \in Account /\ row[u].there /\ task[t].chat \in Chat /\ row[u] \in Row
      /\ row \in [Account -> Row]
  BY DEF IInv, JobsFit, ForChat, OnProfile, NoteChat, TypeOK
<1>2. /\ n \in Row /\ n.there = row[u].there /\ n.tg = row[u].tg /\ n.phone = row[u].phone
      /\ n.blocked = row[u].blocked /\ n.live = row[u].live /\ n.code = row[u].code
  BY <1>1 DEF Row
<1>3. row' = [row EXCEPT ![u] = n]
  BY <1>1 DEF NoteChat
<1> HIDE DEF n
<1>4. End(t) /\ Overtake(u, task[t].saw) /\ task[t].pc = "note"
      /\ UNCHANGED <<session, late, codeOf, links, faults, logins, lost, proved>>
  BY DEF NoteChat
<1>5. Writes(u, n)
  BY <1>1, <1>2, <1>3 DEF Writes
<1>6. WriterMoves
  BY <1>4, EndType DEF IInv, WriterMoves
<1>7. CodesKept(n)
  BY <1>1, <1>2, <1>4 DEF IInv, TypeOK, Codes, RowsFit, CodesKept
<1>8. Marks(u, n)
  BY <1>1, <1>2, <1>4, OvertakeMarks DEF IInv, TypeOK, ProfilesFit, Marks
<1>9. links' \in 0..MaxLinks
  BY <1>4 DEF IInv, TypeOK
<1> QED BY <1>1, <1>4, <1>5, <1>6, <1>7, <1>8, <1>9, WriteHolds

\* The phone of a profile that the link's holder had read is not verified, nor the profile
\* erased: whoever had read it so came after an overtaken write.
LEMMA LinkChatHolds == ASSUME IInv, NEW t \in Task, LinkChat(t) PROVE IInv'
<1> DEFINE u == task[t].user  c == task[t].chat  k == Len(codeOf) + 1
           n == [row[u] EXCEPT !.tg = c, !.code = k, !.chat = Null]
<1>1. u \in Account /\ row[u].there /\ c \in Chat /\ row[u] \in Row /\ task[t].pc = "link"
      /\ row \in [Account -> Row]
  BY DEF IInv, JobsFit, ForChat, OnProfile, LinkChat, TypeOK
<1>2. /\ task' \in [Task -> Job] /\ task'[t].pc = "idle"
      /\ \A x \in Task \ {t} : task'[x] = task[x]
      /\ End(t) /\ UNCHANGED <<session, late, links, faults, logins, lost, proved>>
  BY EndType DEF IInv, LinkChat
<1>3. CASE k <= MaxCodes /\ codeOf' = Append(codeOf, c) /\ Overtake(u, task[t].saw)
           /\ row' = [row EXCEPT ![u].tg = c, ![u].code = k, ![u].chat = Null]
  <2>1. k \in 0..MaxCodes
    BY <1>3, CodesNumbered DEF IInv
  <2>2. /\ n \in Row /\ n.there = row[u].there /\ n.tg = c /\ n.phone = row[u].phone
        /\ n.blocked = row[u].blocked /\ n.live = row[u].live /\ n.code = k
    BY <1>1, <2>1 DEF Row
  <2>3. row' = [row EXCEPT ![u] = n]
    BY <1>1, <1>3
  <2> HIDE DEF n
  <2>4. CodesKept(n)
    BY <1>1, <1>3, <2>2, CodeSent DEF IInv, CodesKept
  <2>5. u \notin overtaken' => ~n.phone /\ ~n.blocked
    <3> SUFFICES ASSUME u \notin overtaken' PROVE ~row[u].phone /\ ~row[u].blocked
      BY <2>2
    <3>1. task[t].saw = SeenOf(u) /\ u \notin overtaken
      BY <1>1, <1>3, OvertakeMarks
    <3>2. task[t].saw.phone = row[u].phone /\ task[t].saw.blocked = row[u].blocked
      BY <3>1 DEF SeenOf
    <3> QED BY <1>1, <3>1, <3>2 DEF IInv, ReadsFit
  <2>6. Marks(u, n)
    BY <1>1, <1>2, <1>3, <2>5, OvertakeMarks DEF IInv, TypeOK, Marks
  <2>7. Writes(u, n)
    BY <1>1, <2>2, <2>3 DEF Writes
  <2>8. WriterMoves
    BY <1>1, <1>2 DEF WriterMoves
  <2>9. links' \in 0..MaxLinks
    BY <1>2 DEF IInv, TypeOK
  <2> QED BY <1>1, <1>2, <2>4, <2>6, <2>7, <2>8, <2>9, WriteHolds
<1>4. CASE UNCHANGED <<row, codeOf, overtaken>>
  <2>1. TypeOK' /\ JobsFit' /\ ReadsFit'
    BY <1>2, <1>4, EndKeepsJobs DEF IInv, TypeOK, Codes
  <2>2. PaymentsFit' /\ StuckExplained'
    BY <1>1, <1>2, <1>4 DEF IInv, PaymentsFit, StuckExplained, Serving
  <2> QED BY <1>2, <1>4, <2>1, <2>2, ProfilesKept DEF IInv
<1> QED BY <1>3, <1>4 DEF LinkChat

LEMMA IssuedType ==
    ASSUME NEW r \in Row
    PROVE  LET n == [r EXCEPT !.live = TRUE, !.chat = Null, !.code = 0] IN
           /\ n \in Row /\ n.there = r.there /\ n.phone = r.phone
           /\ n.blocked = r.blocked /\ n.code = 0
<1>1. 0 \in 0..MaxCodes
  OBVIOUS
<1> QED BY <1>1 DEF Row

LEMMA RedeemedType ==
    ASSUME NEW r \in Row
    PROVE  LET n == Redeemed(r) IN
           /\ n \in Row /\ n.there = r.there /\ n.tg = r.tg /\ ~n.live
           /\ n.blocked = r.blocked /\ n.code = 0
<1>1. 0 \in 0..MaxCodes
  OBVIOUS
<1> QED BY <1>1 DEF Row, Redeemed

LEMMA IssueLinkHolds == ASSUME IInv, NEW t \in Task, IssueLink(t) PROVE IInv'
<1> DEFINE u == task[t].user  n == [row[u] EXCEPT !.live = TRUE, !.chat = Null, !.code = 0]
<1>1. u \in Account /\ row[u].there /\ row[u] \in Row /\ task[t].pc = "issue"
      /\ row \in [Account -> Row] /\ ~task[t].saw.phone /\ ~task[t].saw.blocked
  BY DEF IInv, JobsFit, OnProfile, IssueLink, TypeOK, ReadsFit
<1>2. /\ n \in Row /\ n.there = row[u].there /\ n.phone = row[u].phone
      /\ n.blocked = row[u].blocked /\ n.code = 0
  BY <1>1, IssuedType
<1>3. row' = [row EXCEPT ![u] = n]
  BY <1>1 DEF IssueLink
<1> HIDE DEF n
<1>4. End(t) /\ Overtake(u, task[t].saw)
      /\ UNCHANGED <<session, late, codeOf, faults, logins, lost, proved>>
  BY DEF IssueLink
<1>5. Writes(u, n)
  BY <1>1, <1>2, <1>3 DEF Writes
<1>6. WriterMoves
  BY <1>1, <1>4, EndType DEF IInv, WriterMoves
<1>7. CodesKept(n)
  BY <1>2, <1>4 DEF IInv, TypeOK, Codes, CodesKept
<1>8. u \notin overtaken' => ~n.phone /\ ~n.blocked
  BY <1>1, <1>2, <1>4, OvertakeMarks DEF SeenOf
<1>9. Marks(u, n)
  BY <1>1, <1>2, <1>4, <1>8, OvertakeMarks DEF IInv, TypeOK, Marks
<1>10. links' \in 0..MaxLinks
  BY DEF IInv, TypeOK, IssueLink
<1> QED BY <1>1, <1>4, <1>5, <1>6, <1>7, <1>9, <1>10, WriteHolds

\* The code that was typed is still the profile's: it went to the chat linked by now.
LEMMA RedeemHolds == ASSUME IInv, NEW t \in Task, Redeem(t) PROVE IInv'
<1> DEFINE u == task[t].user  k == task[t].saw.code  n == Redeemed(row[u])
<1>1. u \in Account /\ row[u].there /\ row[u] \in Row /\ task[t].pc = "redeem"
      /\ row \in [Account -> Row] /\ k \in Codes
  BY DEF IInv, JobsFit, OnProfile, Redeem, TypeOK
<1>2. k # 0 /\ codeOf[k] \in Chat
  BY <1>1, CodesNumbered DEF IInv, TypeOK
<1>3. /\ n \in Row /\ n.there = row[u].there /\ n.tg = row[u].tg /\ ~n.live
      /\ n.blocked = row[u].blocked /\ n.code = 0
  BY <1>1, RedeemedType
<1>4. row' = [row EXCEPT ![u] = n]
  BY <1>1 DEF Redeem
<1> HIDE DEF n
<1>5. /\ End(t) /\ proved' = [proved EXCEPT ![u] = codeOf[k]]
      /\ overtaken' = IF row[u].code = k THEN overtaken ELSE overtaken \cup {u}
      /\ UNCHANGED <<session, late, codeOf, links, faults, logins, lost>>
  BY DEF Redeem
<1>6. Writes(u, n)
  BY <1>1, <1>3, <1>4 DEF Writes
<1>7. WriterMoves
  BY <1>1, <1>5, EndType DEF IInv, WriterMoves
<1>8. CodesKept(n)
  BY <1>3, <1>5 DEF IInv, TypeOK, Codes, CodesKept
<1>9. u \notin overtaken' => ~n.blocked /\ codeOf[k] = n.tg
  BY <1>1, <1>2, <1>3, <1>5 DEF IInv, ProfilesFit, RowsFit
<1>10. /\ proved' \in [Account -> Chat \cup {Null}] /\ proved'[u] = codeOf[k]
       /\ \A x \in Account \ {u} : proved'[x] = proved[x]
  BY <1>1, <1>2, <1>5 DEF IInv, TypeOK
<1>11. Marks(u, n)
  BY <1>1, <1>3, <1>5, <1>9, <1>10 DEF IInv, TypeOK, Marks
<1>12. links' \in 0..MaxLinks
  BY <1>5 DEF IInv, TypeOK
<1> QED BY <1>1, <1>5, <1>6, <1>7, <1>8, <1>11, <1>12, WriteHolds

LEMMA EraseHolds == ASSUME IInv, NEW t \in Task, Erase(t) PROVE IInv'
<1> DEFINE u == task[t].user  n == Erased(row[u])
<1>1. u \in Account /\ row \in [Account -> Row] /\ task[t].pc = "erase"
  BY DEF IInv, JobsFit, OnProfile, Erase, TypeOK
<1>2. /\ n \in Row /\ n.there /\ n.blocked /\ n.tg = Null /\ ~n.live /\ ~n.phone /\ n.code = 0
  <2>1. NoRow \in Row /\ NoRow.tg = Null /\ ~NoRow.phone /\ ~NoRow.live /\ NoRow.code = 0
    BY DEF NoRow, Row
  <2>2. \A r \in Row : LET m == [r EXCEPT !.there = TRUE, !.blocked = TRUE] IN
           /\ m \in Row /\ m.there /\ m.blocked /\ m.tg = r.tg
           /\ m.phone = r.phone /\ m.live = r.live /\ m.code = r.code
    BY DEF Row
  <2> QED BY <2>1, <2>2 DEF Erased
<1>3. row' = [row EXCEPT ![u] = n]
  BY <1>1 DEF Erase, Erased
<1> HIDE DEF n
<1>4. /\ End(t) /\ proved' = [proved EXCEPT ![u] = Null]
      /\ overtaken' = IF row[u].blocked THEN overtaken ELSE overtaken \ {u}
      /\ UNCHANGED <<session, late, codeOf, links, faults, logins, lost>>
  BY DEF Erase
<1>5. Writes(u, n)
  BY <1>2, <1>3 DEF Writes
<1>6. WriterMoves
  BY <1>1, <1>4, EndType DEF IInv, WriterMoves
<1>7. CodesKept(n)
  BY <1>2, <1>4 DEF IInv, TypeOK, Codes, CodesKept
<1>8. /\ proved' \in [Account -> Chat \cup {Null}]
      /\ \A x \in Account \ {u} : proved'[x] = proved[x]
  BY <1>1, <1>4 DEF IInv, TypeOK
<1>9. Marks(u, n)
  BY <1>1, <1>2, <1>4, <1>8 DEF IInv, TypeOK, Marks
<1>10. links' \in 0..MaxLinks
  BY <1>4 DEF IInv, TypeOK
<1> QED BY <1>1, <1>4, <1>5, <1>6, <1>7, <1>9, <1>10, WriteHolds

-----------------------------------------------------------------------------
(* The theorems *)

LEMMA StutterHolds == ASSUME IInv, UNCHANGED vars PROVE IInv'
BY DEF IInv, TypeOK, JobsFit, PaymentsFit, StuckExplained, Serving, RowsFit, ReadsFit,
       ProfilesFit, vars, history, Codes

\* Whatever the bot and the browsers do, in whatever order, the invariant holds.
THEOREM Inductive == Spec => []IInv
<1>1. IInv /\ [Next]_vars => IInv'
  <2> SUFFICES ASSUME IInv, [Next]_vars PROVE IInv'
    OBVIOUS
  <2>1. CASE \E s \in Session : OpenSession(s) \/ SessionLapses(s)
    BY <2>1, OpenSessionHolds
  <2>2. CASE \E u \in Account : LinkLapses(u) \/ CodeLapses(u)
    BY <2>2, LapseHolds
  <2>3. ASSUME NEW t \in Task, NEW s \in Session,
               Poll(t, s) \/ \E c \in Chat : QuickStart(t, s, c)
        PROVE  IInv'
    BY <2>3, PollHolds, QuickStartHolds
  <2>4. ASSUME NEW t \in Task, NEW u \in Account,
               \/ \E c \in Chat : VerifyStart(t, u, c) \/ Contact(t, u, c)
               \/ AskLink(t, u) \/ AskErase(t, u) \/ \E k \in Codes : TypeCode(t, u, k)
        PROVE  IInv'
    BY <2>4, VerifyStartHolds, AskHolds
  <2>5. ASSUME NEW t \in Task, Steps(t) PROVE IInv'
    BY <2>5, ExpiresHolds, ClaimHolds, FindUserHolds, CreateUserHolds, AttachHolds, NoteChatHolds,
       CheckHolds, LinkChatHolds, ConsumeHolds, PayHolds, IssueLinkHolds, RedeemHolds, EraseHolds,
       FailHolds DEF Steps
  <2>6. CASE UNCHANGED vars
    BY <2>6, StutterHolds
  <2> QED BY <2>1, <2>2, <2>3, <2>4, <2>5, <2>6 DEF Next
<1> QED BY InitHolds, <1>1, PTL DEF Spec

\* A session pays out one token however many polls race for it, and a browser polls in
\* vain only if the handler that won its session failed.
THEOREM LoginsAreExplained == Spec => []LoginsExplained
<1>1. IInv => LoginsExplained
  BY DEF IInv, PaymentsFit, LoginsExplained, OneTokenPerSession
<1> QED BY <1>1, Inductive, PTL

\* A verified phone is the one whose code was typed, and an erased profile stays bare,
\* except where a handler wrote to a profile that had changed since it read it.
THEOREM ProfilesAreSound == Spec => []ProfilesHold
<1>1. IInv => ProfilesHold
  BY DEF IInv, ProfilesFit, ProfilesHold, PhoneProved, ErasedStaysBare
<1> QED BY <1>1, Inductive, PTL

=============================================================================
