----------------------- MODULE AccountSessionsProofs -----------------------
(* Theorems about AccountSessions, for any accounts, browsers and requests. *)
EXTENDS AccountSessions, TLAPS

USE NoAssumption

-----------------------------------------------------------------------------
\* What the statements of the handlers write into a row

Field == {"email", "digest", "password", "personal", "reset", "verify", "verified", "blocked",
          "trashed"}

\* Only the named fields may differ.
Same(u, v, changed) == \A f \in Field \ changed : v[f] = u[f]

\* Updates of one field.
LEMMA Fields ==
    ASSUME NEW u \in Row, NEW t \in Request \cup {No}, NEW p \in BOOLEAN
    PROVE  /\ LET v == [u EXCEPT !.digest = t]
              IN  v \in Row /\ v.digest = t /\ Same(u, v, {"digest"})
           /\ LET v == [u EXCEPT !.verify = t]
              IN  v \in Row /\ v.verify = t /\ Same(u, v, {"verify"})
           /\ LET v == [u EXCEPT !.reset = t] IN v \in Row /\ v.reset = t /\ Same(u, v, {"reset"})
           /\ LET v == [u EXCEPT !.personal = p] IN v \in Row /\ Same(u, v, {"personal"})
           /\ LET v == [u EXCEPT !.blocked = p]
              IN  v \in Row /\ v.blocked = p /\ Same(u, v, {"blocked"})
           /\ LET v == [u EXCEPT !.trashed = TRUE] IN v \in Row /\ Same(u, v, {"trashed"})
<1>1. LET v == [u EXCEPT !.digest = t] IN v \in Row /\ v.digest = t /\ Same(u, v, {"digest"})
  BY DEF Row, Same, Field
<1>2. LET v == [u EXCEPT !.verify = t] IN v \in Row /\ v.verify = t /\ Same(u, v, {"verify"})
  BY DEF Row, Same, Field
<1>3. LET v == [u EXCEPT !.reset = t] IN v \in Row /\ v.reset = t /\ Same(u, v, {"reset"})
  BY DEF Row, Same, Field
<1>4. LET v == [u EXCEPT !.personal = p] IN v \in Row /\ Same(u, v, {"personal"})
  BY DEF Row, Same, Field
<1>5. LET v == [u EXCEPT !.blocked = p] IN v \in Row /\ v.blocked = p /\ Same(u, v, {"blocked"})
  BY DEF Row, Same, Field
<1>6. LET v == [u EXCEPT !.trashed = TRUE] IN v \in Row /\ Same(u, v, {"trashed"})
  BY DEF Row, Same, Field
<1> QED BY <1>1, <1>2, <1>3, <1>4, <1>5, <1>6

\* Updates of two fields.
LEMMA TwoFields ==
    ASSUME NEW u \in Row
    PROVE  /\ LET v == [u EXCEPT !.password = TRUE, !.reset = No]
              IN  v \in Row /\ v.reset = No /\ Same(u, v, {"password", "reset"})
           /\ LET v == [u EXCEPT !.verified = TRUE, !.verify = No]
              IN  v \in Row /\ v.verify = No /\ Same(u, v, {"verified", "verify"})
           /\ LET v == [u EXCEPT !.trashed = FALSE, !.blocked = FALSE]
              IN  v \in Row /\ v.blocked = FALSE /\ Same(u, v, {"trashed", "blocked"})
<1>1. LET v == [u EXCEPT !.password = TRUE, !.reset = No]
      IN  v \in Row /\ v.reset = No /\ Same(u, v, {"password", "reset"})
  BY DEF Row, Same, Field
<1>2. LET v == [u EXCEPT !.verified = TRUE, !.verify = No]
      IN  v \in Row /\ v.verify = No /\ Same(u, v, {"verified", "verify"})
  BY DEF Row, Same, Field
<1>3. LET v == [u EXCEPT !.trashed = FALSE, !.blocked = FALSE]
      IN  v \in Row /\ v.blocked = FALSE /\ Same(u, v, {"trashed", "blocked"})
  BY DEF Row, Same, Field
<1> QED BY <1>1, <1>2, <1>3

\* The row that a registration inserts.
LEMMA Created ==
    LET v == [Blank EXCEPT !.email = "real", !.password = TRUE, !.personal = TRUE]
    IN  /\ v \in Row /\ v.email = "real" /\ ~v.blocked
        /\ v.digest = No /\ v.reset = No /\ v.verify = No
BY DEF Row, Blank

\* The row that an erasure leaves.
LEMMA ErasedRow ==
    ASSUME NEW u
    PROVE  /\ Erased(u) \in Row /\ Erased(u).email = "marker" /\ Erased(u).blocked
           /\ ~Erased(u).personal /\ ~Erased(u).password
           /\ Erased(u).digest = No /\ Erased(u).reset = No /\ Erased(u).verify = No
BY DEF Row, Blank, Erased

-----------------------------------------------------------------------------
\* The inductive invariant

Rows ==
    /\ row \in [Account -> Row]
    /\ \A a, b \in Account : row[a].email = "real" /\ row[b].email = "real" => a = b
    /\ spent \subseteq Secret \X Request
    /\ admitted \subseteq Request /\ unsealed \subseteq Account /\ recalled \subseteq Account

Requests ==
    /\ jar \in [Browser -> Request \cup {No}] /\ minted \subseteq Account
    /\ at \in [Request -> Statement]
    /\ by \in [Request -> Browser \cup {No}]
    /\ held \in [Request -> Request \cup {No}]
    /\ acct \in [Request -> Account \cup {No}]
    /\ left \subseteq Request /\ disturbed \subseteq Browser

\* Statements that follow the read of a row, and those whose answer touches the cookie.
HasRow == {"register-code", "issue", "compare", "revoke", "profile", "erase", "reset", "verify",
           "restore", "set-cookie"}
Answers == {"create", "register-code", "issue", "find", "compare", "revoke", "logout", "erase",
            "set-cookie", "clear-cookie"}

Seated ==
    /\ \A r \in Request : at[r] \in HasRow => acct[r] \in Account
    /\ \A r \in Request : at[r] \in Answers => by[r] \in Browser
    /\ \A r \in Request : at[r] \in {"find", "compare", "logout"} => held[r] # No
    /\ \A r \in Request : at[r] = "idle" => by[r] = No

\* A refresh token is held by the browser that was given it.
Cookies ==
    /\ \A a \in Account : row[a].digest # No => by[row[a].digest] \in Browser
    /\ \A b \in Browser : jar[b] # No => by[jar[b]] = b /\ at[jar[b]] # "idle"
    /\ \A r \in Request : held[r] # No => by[held[r]] = by[r] /\ at[held[r]] # "idle"

Unborn ==
    \A a \in Account : row[a].email = "none" =>
        row[a] = Blank /\ \A r \in Request : acct[r] # a

\* The statements at which a request may have written its secret.
Past(f) == IF f = "digest" THEN {"set-cookie", "done"}
           ELSE IF f = "verify" THEN {"issue", "set-cookie", "done"} ELSE {"done"}

\* A secret is in one row, or spent, or still to be written.
Secrets ==
    \A f \in Secret :
       /\ \A a \in Account : row[a][f] # No =>
             at[row[a][f]] \in Past(f) /\ <<f, row[a][f]>> \notin spent
       /\ \A t \in Request : <<f, t>> \in spent => at[t] \in Past(f)
       /\ \A a, b \in Account : row[a][f] = row[b][f] /\ row[a][f] # No => a = b

\* Statements that follow a check of `blocked`.
Checked == {"register-code", "compare", "issue", "profile", "erase"}

Guarded ==
    \A r \in Request : at[r] \in Checked /\ row[acct[r]].blocked => r \in admitted

\* Nobody who could still write to an erased row has read it, but for a reset by its marker.
Sealed ==
    \A a \in Account \ unsealed : row[a].email = "marker" =>
       /\ row[a].blocked /\ ~row[a].personal /\ row[a].digest = No
       /\ row[a].password \/ row[a].reset # No => a \in recalled
       /\ \A r \in Request : acct[r] = a /\ at[r] \in Late => at[r] = "reset" /\ a \in recalled

\* A browser that is alone and undisturbed has one request under way, and its token is live
\* until that request has replaced or dropped it, which it drops only to sign out.
Alone(b) ==
    /\ \A x, y \in InFlight : by[x] = b /\ by[y] = b => x = y
    /\ jar[b] # No
       /\ (\A x \in Request : by[x] = b => at[x] \notin {"set-cookie", "clear-cookie"})
          => Owner(jar[b]) # {}
    /\ \A x \in Request : by[x] = b =>
          /\ at[x] = "set-cookie" => row[acct[x]].digest = x
          /\ at[x] = "compare" => row[acct[x]].digest = held[x]
          /\ at[x] = "find" => held[x] = jar[b]
          /\ at[x] \in {"logout", "erase", "clear-cookie"} => x \in left
          /\ at[x] # "revoke"

Solo == \A b \in Browser \ disturbed : Alone(b)

Shape == Rows /\ Requests /\ Seated /\ Cookies
Stable == Unborn /\ Guarded /\ Sealed

IInv == Shape /\ Stable /\ Secrets /\ Solo

-----------------------------------------------------------------------------
\* Steps that write to no row

Quiet == UNCHANGED <<row, history>>

\* A request that has written its secret has it behind it.
Onward == \A t \in Request, f \in Secret : at[t] \in Past(f) => at'[t] \in Past(f)

\* Secrets that nobody writes stay where they are.
LEMMA QuietSecrets == ASSUME Rows, Secrets, Quiet, Onward PROVE Secrets'
<1>1. \A a \in Account, f \in Secret : row[a][f] \in Request \cup {No}
  BY DEF Rows, Row, Secret
<1>2. row' = row /\ spent' = spent
  BY DEF Quiet, history
<1> QED BY <1>1, <1>2 DEF Secrets, Onward

\* A request that arrives from a browser finds it alone, or disturbs it.
LEMMA ArriveSolo ==
    ASSUME Shape, Solo, Quiet, UNCHANGED jar, NEW r \in Request, NEW b \in Browser,
           NEW cookie, From(r, b, cookie), at[r] = "idle", NEW s \in Statement,
           at' = [at EXCEPT ![r] = s], s \notin {"set-cookie", "compare", "revoke"},
           s = "find" => cookie = jar[b], left \subseteq left',
           s \in {"logout", "erase", "clear-cookie"} => r \in left',
           \A x \in Request : x # r => acct'[x] = acct[x]
    PROVE  Solo'
<1>. SUFFICES ASSUME NEW c \in Browser \ disturbed' PROVE Alone(c)'
  BY DEF Solo
<1>1. /\ by'[r] = b /\ at'[r] = s /\ held'[r] = cookie /\ r \notin InFlight
      /\ \A x \in Request : x # r => by'[x] = by[x] /\ at'[x] = at[x] /\ held'[x] = held[x]
      /\ InFlight' \subseteq InFlight \cup {r} /\ row' = row /\ jar' = jar
  BY DEF From, Shape, Requests, InFlight, Quiet
<1>2. Alone(c)
  BY DEF Solo, From
<1>3. CASE c = b
  <2>1. \A x \in InFlight : by[x] # b
    BY <1>3 DEF From
  <2>2. \A x \in Request : x # r /\ by'[x] = b => at'[x] \in {"idle", "done"}
    BY <1>1, <2>1 DEF InFlight
  <2>3. Owner(jar[c]) # {} \/ jar[c] = No
    BY <1>2, <1>3, <2>1 DEF Alone, InFlight
  <2>4. Owner(jar[c])' = Owner(jar[c])
    BY <1>1 DEF Owner
  <2> QED BY <1>1, <1>3, <2>2, <2>3, <2>4 DEF Alone, InFlight
<1>4. CASE c # b
  <2>1. Owner(jar[c])' = Owner(jar[c])
    BY <1>1 DEF Owner
  <2>2. \A x \in Request : by'[x] = c => x # r /\ by[x] = c
    BY <1>1, <1>4
  <2>3. \A x \in InFlight' : by'[x] = c => x \in InFlight /\ by[x] = c
    BY <1>1, <2>2 DEF InFlight
  <2>4. /\ \A x, y \in InFlight' : by'[x] = c /\ by'[y] = c => x = y
        /\ (\A x \in Request : by'[x] = c => at'[x] \notin {"set-cookie", "clear-cookie"})
           => (\A x \in Request : by[x] = c => at[x] \notin {"set-cookie", "clear-cookie"})
    BY <1>1, <1>2, <1>4, <2>2, <2>3 DEF Alone
  <2> QED BY <1>1, <1>2, <2>1, <2>2, <2>4 DEF Alone
<1> QED BY <1>3, <1>4

\* The actions that read, answer or give up.
Reads(r, b) ==
    \/ b \in Browser /\ Arrive(r, b)
    \/ Find(r) \/ Compare(r) \/ SetCookie(r) \/ ClearCookie(r) \/ Profile(r)
    \/ Forgot(r) \/ Reset(r) \/ Verify(r) \/ Resend(r) \/ Restore(r) \/ Drop(r)

\* They change no row and undo no written secret.
LEMMA ReadsAreQuiet ==
    ASSUME Shape, NEW r \in Request, NEW b, Reads(r, b)
    PROVE  Quiet /\ Onward
<1>1. Quiet
  BY DEF Reads, Arrive, Quiet, Register, Login, Refresh, Logout, Erase, Find, Compare, SetCookie,
     ClearCookie, Profile, Forgot, Reset, Verify, Resend, Restore, Drop
<1>2. \E s \in Statement : /\ at' = [at EXCEPT ![r] = s]
                           /\ at[r] \in {"issue", "set-cookie", "done"} => s = "done"
                           /\ at[r] # "done"
  BY DEF Reads, Arrive, Register, Login, Refresh, Logout, Erase, Find, Compare, SetCookie,
     ClearCookie, Profile, Forgot, Reset, Verify, Resend, Restore, Drop, Named, Goto, Read, Leave,
     Statement, InFlight
<1>3. Onward
  BY <1>2 DEF Onward, Past, Shape, Requests
<1> QED BY <1>1, <1>3

\* They keep the types and who holds what.
LEMMA ReadsShape ==
    ASSUME Shape, NEW r \in Request, NEW b, Reads(r, b)
    PROVE  Shape'
<1>. USE DEF Shape, Rows, Requests, Seated, Cookies, Statement, HasRow, Answers, session, history,
         Goto, Read, Leave, From
<1>1. CASE b \in Browser /\ Register(r, b)
  BY <1>1 DEF Register
<1>2. CASE b \in Browser /\ Login(r, b)
  BY <1>2 DEF Login, Admissible
<1>3. CASE b \in Browser /\ Refresh(r, b)
  BY <1>3 DEF Refresh
<1>4. CASE b \in Browser /\ Logout(r, b)
  BY <1>4 DEF Logout
<1>5. CASE b \in Browser /\ Erase(r, b)
  BY <1>5 DEF Erase
<1>6. CASE Find(r)
  BY <1>6 DEF Find, Owner
<1>7. CASE Compare(r)
  BY <1>7 DEF Compare
<1>8. CASE SetCookie(r)
  BY <1>8 DEF SetCookie, NewCookie
<1>9. CASE ClearCookie(r)
  BY <1>9 DEF ClearCookie
<1>10. CASE Profile(r)
  BY <1>10 DEF Profile
<1>11. CASE Forgot(r)
  BY <1>11 DEF Forgot, Named
<1>12. CASE Reset(r)
  BY <1>12 DEF Reset
<1>13. CASE Verify(r)
  BY <1>13 DEF Verify
<1>14. CASE Resend(r)
  BY <1>14 DEF Resend, Named
<1>15. CASE Restore(r)
  BY <1>15 DEF Restore
<1>16. CASE Drop(r)
  BY <1>16 DEF Drop, InFlight
<1> QED BY <1>1, <1>2, <1>3, <1>4, <1>5, <1>6, <1>7, <1>8, <1>9, <1>10, <1>11, <1>12, <1>13,
   <1>14, <1>15, <1>16 DEF Reads, Arrive

\* They admit no request past a block or to an erased row.
LEMMA ReadsStable ==
    ASSUME Shape, Stable, NEW r \in Request, NEW b, Reads(r, b)
    PROVE  Stable'
<1>. USE DEF Stable, Unborn, Guarded, Sealed, Shape, Rows, Row, Requests, Seated, Checked, Late,
         HasRow, session, history, Goto, Read, Leave, From
<1>1. CASE b \in Browser /\ Register(r, b)
  BY <1>1 DEF Register
<1>2. CASE b \in Browser /\ Login(r, b)
  BY <1>2 DEF Login, Admissible
<1>3. CASE b \in Browser /\ Refresh(r, b)
  BY <1>3 DEF Refresh
<1>4. CASE b \in Browser /\ Logout(r, b)
  BY <1>4 DEF Logout
<1>5. CASE b \in Browser /\ Erase(r, b)
  BY <1>5 DEF Erase, Admissible
<1>6. CASE Find(r)
  BY <1>6 DEF Find, Owner, Admissible
<1>7. CASE Compare(r)
  BY <1>7 DEF Compare, Current
<1>8. CASE SetCookie(r)
  BY <1>8 DEF SetCookie, NewCookie
<1>9. CASE ClearCookie(r)
  BY <1>9 DEF ClearCookie
<1>10. CASE Profile(r)
  BY <1>10 DEF Profile, Admissible
<1>11. CASE Forgot(r)
  BY <1>11 DEF Forgot, Named
<1>12. CASE Reset(r)
  BY <1>12 DEF Reset, Blank
<1>13. CASE Verify(r)
  BY <1>13 DEF Verify, Blank
<1>14. CASE Resend(r)
  BY <1>14 DEF Resend, Named
<1>15. CASE Restore(r)
  BY <1>15 DEF Restore, Blank
<1>16. CASE Drop(r)
  BY <1>16 DEF Drop, InFlight
<1> QED BY <1>1, <1>2, <1>3, <1>4, <1>5, <1>6, <1>7, <1>8, <1>9, <1>10, <1>11, <1>12, <1>13,
   <1>14, <1>15, <1>16 DEF Reads, Arrive

\* They sign no undisturbed browser out.
LEMMA ReadsSolo ==
    ASSUME Shape, Secrets, Solo, NEW r \in Request, NEW b, Reads(r, b)
    PROVE  Solo'
<1>. USE DEF Shape, Requests, Statement
<1>1. Quiet
  BY ReadsAreQuiet
<1>2. CASE b \in Browser /\ Register(r, b)
  BY <1>1, <1>2, ArriveSolo DEF Register, Goto
<1>3. CASE b \in Browser /\ Login(r, b)
  BY <1>1, <1>3, ArriveSolo DEF Login, Goto, Read
<1>4. CASE b \in Browser /\ Refresh(r, b)
  BY <1>1, <1>4, ArriveSolo DEF Refresh, Goto
<1>5. CASE b \in Browser /\ Logout(r, b)
  BY <1>1, <1>5, ArriveSolo DEF Logout, Goto
<1>6. CASE b \in Browser /\ Erase(r, b)
  BY <1>1, <1>6, ArriveSolo DEF Erase, Goto, Read
<1>7. CASE Find(r)
  <2>1. /\ UNCHANGED <<row, jar, by, held, disturbed>> /\ left \subseteq left'
        /\ r \in InFlight /\ at'[r] \in {"compare", "clear-cookie"}
        /\ \A x \in Request : x # r => at'[x] = at[x] /\ acct'[x] = acct[x]
    BY <1>7 DEF Find, Read, Goto, InFlight
  <2>2. \A t : Owner(t)' = Owner(t)
    BY <2>1 DEF Owner
  <2>3. at'[r] = "compare" => row[acct'[r]].digest = held[r]
    BY <1>7 DEF Find, Read, Goto, Owner
  <2>4. at'[r] = "clear-cookie" => Owner(held[r]) = {} \/ r \in left'
    BY <1>7 DEF Find, Read, Goto
  <2>. SUFFICES ASSUME NEW c \in Browser \ disturbed PROVE Alone(c)'
    BY <2>1 DEF Solo
  <2>5. Alone(c)
    BY DEF Solo
  <2>6. by[r] = c => Owner(held[r]) # {}
    <3>1. at[r] = "find" /\ held[r] # No
      BY <1>7 DEF Find, Seated
    <3>2. by[r] = c => \A x \in Request : by[x] = c => at[x] \notin {"set-cookie", "clear-cookie"}
      BY <2>1, <2>5, <3>1 DEF Alone, InFlight
    <3> QED BY <2>5, <3>1, <3>2 DEF Alone
  <2>7. InFlight' = InFlight /\ at[r] = "find"
    BY <1>7, <2>1 DEF InFlight, Find
  <2>8. (jar[c] # No /\ (\A x \in Request : by[x] = c => at'[x] \notin {"set-cookie", "clear-cookie"}))
        => Owner(jar[c]) # {}
    BY <2>1, <2>5, <2>7 DEF Alone
  <2>9. ASSUME NEW x \in Request, by[x] = c
        PROVE  /\ at'[x] = "set-cookie" => row[acct'[x]].digest = x
               /\ at'[x] = "compare" => row[acct'[x]].digest = held[x]
               /\ at'[x] = "find" => held[x] = jar[c]
               /\ at'[x] \in {"logout", "erase", "clear-cookie"} => x \in left'
               /\ at'[x] # "revoke"
    BY <2>1, <2>3, <2>4, <2>5, <2>6, <2>9 DEF Alone
  <2> QED BY <2>1, <2>2, <2>5, <2>7, <2>8, <2>9 DEF Alone
<1>8. CASE Compare(r)
  BY <1>8 DEF Compare, Current, Solo, Alone, InFlight, Owner, session, Goto
<1>9. CASE SetCookie(r)
  BY <1>9 DEF SetCookie, NewCookie, Solo, Alone, InFlight, Seated, HasRow, Answers, Leave, Read,
     Goto, Owner
<1>10. CASE ClearCookie(r)
  BY <1>10 DEF ClearCookie, Solo, Alone, InFlight, Leave, Read, Goto, Owner
<1>11. CASE Drop(r)
  BY <1>11 DEF Drop, Solo, Alone, InFlight, Leave, Read, Goto, Owner
<1>12. CASE Profile(r) \/ Forgot(r) \/ Reset(r) \/ Verify(r) \/ Resend(r) \/ Restore(r)
  <2>1. at[r] = "idle" /\ UNCHANGED <<row, session, disturbed>>
    BY <1>12 DEF Profile, Forgot, Reset, Verify, Resend, Restore, Named
  <2>2. by[r] \notin Browser
    BY <2>1 DEF Seated
  <2>3. \A x \in Request : x # r => at'[x] = at[x] /\ acct'[x] = acct[x]
    BY <1>12 DEF Profile, Forgot, Reset, Verify, Resend, Restore, Named, Goto, Read
  <2> QED BY <2>1, <2>2, <2>3 DEF Solo, Alone, InFlight, session, Owner
<1> QED BY <1>2, <1>3, <1>4, <1>5, <1>6, <1>7, <1>8, <1>9, <1>10, <1>11, <1>12 DEF Reads, Arrive

-----------------------------------------------------------------------------
\* Steps that write to a row

\* One UPDATE keeps the table well typed and the address unique.
LEMMA WriteRows ==
    ASSUME Rows, NEW a \in Account, NEW new \in Row, Write(a, new),
           new.email \in {row[a].email, "marker"} \/ Registered = {}
    PROVE  Rows' /\ row'[a] = new /\ \A x \in Account : x # a => row'[x] = row[x]
<1>1. row' \in [Account -> Row] /\ row'[a] = new
      /\ \A x \in Account : x # a => row'[x] = row[x]
  BY DEF Rows, Write
<1>2. \A x, y \in Account : row'[x].email = "real" /\ row'[y].email = "real" => x = y
  BY <1>1 DEF Rows, Registered
<1>3. spent' \subseteq Secret \X Request
  <2>1. \A s \in Secret : row[a][s] \in Request \cup {No}
    BY DEF Rows, Row, Secret
  <2> QED BY <2>1 DEF Rows, Write
<1>4. admitted' \subseteq Request /\ unsealed' \subseteq Account /\ recalled' \subseteq Account
  BY DEF Rows, Write
<1> QED
  BY <1>1, <1>2, <1>3, <1>4 DEF Rows, Write

\* How a request goes on when it has written: to the cookie, or to the end.
Advance ==
    /\ UNCHANGED session
    /\ at' \in [Request -> Statement] /\ acct' \in [Request -> Account \cup {No}]
    /\ \A x \in Request :
          \/ at'[x] = at[x] /\ acct'[x] = acct[x]
          \/ /\ at[x] \notin {"idle", "done", "set-cookie", "clear-cookie"}
             /\ acct'[x] \in {acct[x], No}
             /\ \/ at[x] = "register-code" /\ at'[x] = "issue" /\ acct'[x] = acct[x]
                \/ at[x] = "issue" /\ at'[x] = "set-cookie" /\ acct'[x] = acct[x]
                \/ at[x] \in {"revoke", "logout", "erase"} /\ at'[x] = "clear-cookie"
                \/ at[x] # "issue" /\ at'[x] = "done"

\* A written secret stays written.
LEMMA AdvanceOnward == Advance => Onward
BY DEF Advance, Onward, Past

\* Going on keeps the types and who holds what.
LEMMA AdvanceRequests ==
    ASSUME Shape, Advance, Rows', disturbed' \subseteq Browser,
           \A a \in Account : row'[a].digest # No => by[row'[a].digest] \in Browser
    PROVE  Shape'
<1>1. UNCHANGED <<jar, minted, by, held, left>>
  BY DEF Advance, session
<1>2. Requests'
  BY <1>1 DEF Shape, Requests, Advance
<1>3. Seated'
  BY <1>1 DEF Shape, Seated, Requests, Advance, HasRow, Answers
<1>4. Cookies'
  <2>1. \A x \in Request : at[x] # "idle" => at'[x] # "idle"
    BY DEF Advance
  <2> QED BY <1>1, <2>1 DEF Shape, Cookies, Requests
<1> QED BY <1>2, <1>3, <1>4 DEF Shape

\* Going on without a write, where no row matched, keeps the invariant.
LEMMA AdvanceQuietly ==
    ASSUME IInv, Advance, Quiet, UNCHANGED disturbed,
           \A x \in Request : at'[x] = "set-cookie" => at[x] = "set-cookie"
    PROVE  IInv'
<1>1. UNCHANGED <<row, spent, admitted, unsealed, recalled>>
  BY DEF Quiet, history
<1>2. Shape'
  <2>1. Rows'
    BY <1>1 DEF IInv, Shape, Rows
  <2> QED BY <1>1, <2>1, AdvanceRequests DEF IInv, Shape, Cookies, Requests
<1>3. Secrets'
  BY AdvanceOnward, QuietSecrets DEF IInv, Shape
<1>4. Stable'
  BY <1>1 DEF IInv, Shape, Rows, Requests, Seated, HasRow, Stable, Unborn, Guarded, Sealed, Advance,
     Checked, Late
<1>5. Solo'
  BY <1>1 DEF IInv, Shape, Requests, Solo, Alone, InFlight, Owner, Advance, session
<1> QED BY <1>2, <1>3, <1>4, <1>5 DEF IInv

\* A secret in the new row was in the old one, or is written by its request now.
SecretsFrom(a, new) ==
    \A f \in Secret :
       \/ new[f] \in {No, row[a][f]}
       \/ new[f] \in Request /\ at[new[f]] \notin Past(f) /\ at'[new[f]] \in Past(f)

\* One UPDATE spends the secrets it replaces.
LEMMA WriteSecrets ==
    ASSUME Rows, Secrets, Onward, NEW a \in Account, NEW new \in Row, Write(a, new),
           SecretsFrom(a, new), Rows', row'[a] = new,
           \A x \in Account : x # a => row'[x] = row[x]
    PROVE  Secrets'
<1>. SUFFICES ASSUME NEW f \in Secret
     PROVE  /\ \A x \in Account : row'[x][f] # No =>
                  at'[row'[x][f]] \in Past(f) /\ <<f, row'[x][f]>> \notin spent'
            /\ \A t \in Request : <<f, t>> \in spent' => at'[t] \in Past(f)
            /\ \A x, y \in Account : row'[x][f] = row'[y][f] /\ row'[x][f] # No => x = y
  BY DEF Secrets, Past
<1>1. \A x \in Account : row[x][f] \in Request \cup {No} /\ row'[x][f] \in Request \cup {No}
  BY DEF Rows, Row, Secret
<1>2. \A t : <<f, t>> \in spent' <=>
         <<f, t>> \in spent \/ (t = row[a][f] /\ t # No /\ t # new[f])
  BY DEF Write
<1>3. \A t \in Request : at[t] \in Past(f) => at'[t] \in Past(f)
  BY DEF Onward
<1>4. /\ \A x \in Account : row[x][f] # No =>
            at[row[x][f]] \in Past(f) /\ <<f, row[x][f]>> \notin spent
      /\ \A t \in Request : <<f, t>> \in spent => at[t] \in Past(f)
      /\ \A x, y \in Account : row[x][f] = row[y][f] /\ row[x][f] # No => x = y
  BY DEF Secrets
<1>5. CASE new[f] \in {No, row[a][f]}
  BY <1>1, <1>2, <1>3, <1>4, <1>5
<1>6. CASE new[f] \in Request /\ at[new[f]] \notin Past(f) /\ at'[new[f]] \in Past(f)
  <2>1. \A x \in Account : row[x][f] # new[f]
    BY <1>1, <1>4, <1>6
  <2>2. <<f, new[f]>> \notin spent /\ <<f, new[f]>> \notin spent'
    BY <1>2, <1>4, <1>6
  <2>3. \A x \in Account : x # a /\ row[x][f] # No => row[x][f] # row[a][f]
    BY <1>4
  <2>4. \A x \in Account : row'[x][f] = IF x = a THEN new[f] ELSE row[x][f]
    OBVIOUS
  <2>5. \A x \in Account : row'[x][f] # No =>
           at'[row'[x][f]] \in Past(f) /\ <<f, row'[x][f]>> \notin spent'
    BY <1>1, <1>2, <1>3, <1>4, <1>6, <2>2, <2>3, <2>4
  <2>6. \A t \in Request : <<f, t>> \in spent' => at'[t] \in Past(f)
    BY <1>1, <1>2, <1>3, <1>4
  <2>7. \A x, y \in Account : row'[x][f] = row'[y][f] /\ row'[x][f] # No => x = y
    BY <1>4, <2>1, <2>4
  <2> QED BY <2>5, <2>6, <2>7
<1> QED BY <1>5, <1>6 DEF SecretsFrom

\* What may be written to an erased row: nothing personal, unless a late request writes it,
\* and no reset code or password but by its marker.
SealKept(a, new) ==
    \/ /\ new.email = row[a].email
       /\ \E x \in Request : acct[x] = a /\ at[x] \in Late \ {"reset"}
    \/ new.email = row[a].email /\ row[a].email = "real"
    \/ /\ new.email = row[a].email /\ new.personal = row[a].personal
       /\ new.digest \in {No, row[a].digest}
       /\ \/ new.password = row[a].password /\ new.reset \in {No, row[a].reset}
          \/ new.password = row[a].password /\ row[a].email = "marker" /\ new.reset # No
          \/ \E x \in Request : acct[x] = a /\ at[x] = "reset"
    \/ /\ new.email = "marker" /\ new.blocked /\ ~new.personal /\ ~new.password
       /\ new.digest = No /\ new.reset = No

\* One UPDATE keeps blocked accounts guarded and erased ones sealed.
LEMMA WriteStable ==
    ASSUME Shape, Stable, Advance, NEW a \in Account, NEW new \in Row, Write(a, new),
           row[a].email # "none", new.email # "none", SealKept(a, new), Rows', row'[a] = new,
           \A x \in Account : x # a => row'[x] = row[x]
    PROVE  Stable'
<1>1. Unborn'
  BY DEF Stable, Unborn, Advance
<1>2. Guarded'
  <2>. SUFFICES ASSUME NEW r \in Request, at'[r] \in Checked, row'[acct'[r]].blocked
       PROVE  r \in admitted'
    BY DEF Guarded
  <2>1. at[r] \in Checked /\ acct'[r] = acct[r] /\ acct[r] \in Account
    BY DEF Advance, Checked, Shape, Seated, HasRow
  <2>2. CASE row[acct[r]].blocked
    BY <2>1, <2>2 DEF Stable, Guarded, Write
  <2>3. CASE ~row[acct[r]].blocked
    <3>1. acct[r] = a /\ new.blocked /\ ~row[a].blocked
      BY <2>1, <2>3
    <3> QED BY <3>1 DEF Write
  <2> QED BY <2>2, <2>3
<1>3. Sealed'
  <2>. SUFFICES ASSUME NEW x \in Account \ unsealed', row'[x].email = "marker"
       PROVE  /\ row'[x].blocked /\ ~row'[x].personal /\ row'[x].digest = No
              /\ row'[x].password \/ row'[x].reset # No => x \in recalled'
              /\ \A r \in Request : acct'[r] = x /\ at'[r] \in Late =>
                    at'[r] = "reset" /\ x \in recalled'
    BY DEF Sealed
  <2>1. x \notin unsealed /\ recalled \subseteq recalled'
    BY DEF Write
  <2>2. \A r \in Request : acct'[r] = x /\ at'[r] \in Late =>
           acct[r] = x /\ at[r] \in Late /\ (at[r] = "reset" => at'[r] = "reset")
    BY DEF Advance, Late
  <2>3. CASE x # a
    BY <2>1, <2>2, <2>3 DEF Stable, Sealed
  <2>4. CASE x = a /\ row[a].email = "marker"
    <3>1. new.blocked /\ (new.reset \notin {No, row[a].reset} => a \in recalled')
      BY <2>4 DEF Write
    <3>2. /\ ~row[a].personal /\ row[a].digest = No
          /\ row[a].password \/ row[a].reset # No => a \in recalled
          /\ \A r \in Request : acct[r] = a /\ at[r] \in Late => at[r] = "reset" /\ a \in recalled
      BY <2>1, <2>4 DEF Stable, Sealed
    <3>3. /\ ~new.personal /\ new.digest = No
          /\ new.password \/ new.reset # No => a \in recalled'
      BY <2>1, <2>4, <3>1, <3>2 DEF SealKept, Late
    <3> QED BY <2>1, <2>2, <2>4, <3>1, <3>2, <3>3
  <2>5. CASE x = a /\ row[a].email # "marker"
    <3>1. row[a].email = "real"
      <4>1. row[a] \in Row
        BY DEF Shape, Rows
      <4> QED BY <2>5, <4>1 DEF Row
    <3>2. new.email = "marker" /\ ~\E r \in Request : acct[r] = a /\ at[r] \in Late
      BY <2>5, <3>1 DEF Write
    <3> QED BY <2>2, <2>5, <3>1, <3>2 DEF SealKept
  <2> QED BY <2>3, <2>4, <2>5
<1> QED BY <1>1, <1>2, <1>3 DEF Stable

\* What may happen to a refresh token: nothing, or its browser is unseated by the request
\* that replaces or drops it.
SoloKept(a, new) ==
    \/ /\ new.digest = row[a].digest /\ disturbed' = disturbed
       /\ \A x \in Request : at'[x] = "set-cookie" => at[x] = "set-cookie"
    \/ \E r \in InFlight :
          /\ by[r] \in Browser /\ Unseat(r, a)
          /\ at'[r] \in {"set-cookie", "clear-cookie"}
          /\ at'[r] = "set-cookie" => acct[r] = a /\ new.digest = r
          /\ \A x \in Request : x # r => at'[x] = at[x]

\* One UPDATE signs no undisturbed browser out.
LEMMA WriteSolo ==
    ASSUME Shape, Solo, Advance, NEW a \in Account, NEW new \in Row,
           SoloKept(a, new), Rows', row'[a] = new,
           \A x \in Account : x # a => row'[x] = row[x]
    PROVE  Solo' /\ disturbed' \subseteq Browser
<1>. UNCHANGED <<jar, by, held, left>>
  BY DEF Advance, session
<1>1. CASE /\ new.digest = row[a].digest /\ disturbed' = disturbed
           /\ \A x \in Request : at'[x] = "set-cookie" => at[x] = "set-cookie"
  <2>1. \A x \in Account : row'[x].digest = row[x].digest
    BY <1>1
  <2>2. \A t : Owner(t)' = Owner(t)
    BY <2>1 DEF Owner
  <2>3. Solo'
    BY <1>1, <2>1, <2>2 DEF Solo, Alone, InFlight, Advance, Shape, Requests, Seated, HasRow
  <2> QED BY <1>1, <2>3 DEF Shape, Requests
<1>2. ASSUME NEW r \in InFlight, by[r] \in Browser, Unseat(r, a),
             at'[r] \in {"set-cookie", "clear-cookie"},
             at'[r] = "set-cookie" => acct[r] = a /\ new.digest = r,
             \A x \in Request : x # r => at'[x] = at[x]
      PROVE  Solo' /\ disturbed' \subseteq Browser
  <2>1. disturbed' \subseteq Browser
    BY <1>2 DEF Unseat, Shape, Cookies, Requests
  <2>2. ASSUME NEW c \in Browser \ disturbed' PROVE Alone(c)'
    <3>1. Alone(c)
      BY <1>2, <2>2 DEF Unseat, Solo
    <3>2. CASE c = by[r]
      BY <1>2, <3>1, <3>2 DEF Alone, InFlight, Advance
    <3>3. CASE c # by[r]
      <4>1. row[a].digest # No => by[row[a].digest] # c
        BY <1>2, <2>2, <3>3 DEF Unseat
      <4>2. jar[c] # No => Owner(jar[c]) \subseteq Owner(jar[c])'
        BY <4>1 DEF Owner, Shape, Cookies
      <4>3. \A x \in Request : by[x] = c => x # r /\ at'[x] = at[x] /\ acct'[x] = acct[x]
        BY <1>2, <3>3 DEF Advance
      <4>4. \A x \in Request : at[x] \in {"set-cookie", "compare"} /\ by[x] = c =>
               acct[x] # a /\ acct[x] \in Account
        BY <3>1, <4>1 DEF Alone, Shape, Seated, Cookies, HasRow
      <4> QED BY <1>2, <3>1, <4>2, <4>3, <4>4 DEF Alone, InFlight
    <3> QED BY <3>2, <3>3
  <2> QED BY <2>1, <2>2 DEF Solo
<1> QED BY <1>1, <1>2 DEF SoloKept

\* The four together: what each writing statement has to show.
LEMMA WriteKeeps ==
    ASSUME IInv, Advance, NEW a \in Account, NEW new \in Row, Write(a, new),
           row[a].email # "none", new.email \in {row[a].email, "marker"},
           new.digest \notin {No, row[a].digest} => by[new.digest] \in Browser,
           SecretsFrom(a, new), SealKept(a, new), SoloKept(a, new)
    PROVE  IInv'
<1>1. Rows' /\ row'[a] = new /\ \A x \in Account : x # a => row'[x] = row[x]
  BY WriteRows DEF IInv, Shape
<1>2. Solo' /\ disturbed' \subseteq Browser
  BY <1>1, WriteSolo DEF IInv
<1>3. Shape'
  <2>1. \A x \in Account : row'[x].digest # No => by[row'[x].digest] \in Browser
    BY <1>1 DEF IInv, Shape, Cookies
  <2> QED BY <1>1, <1>2, <2>1, AdvanceRequests DEF IInv
<1>4. Secrets'
  BY <1>1, AdvanceOnward, WriteSecrets DEF IInv, Shape
<1>5. Stable'
  BY <1>1, WriteStable DEF IInv
<1> QED BY <1>2, <1>3, <1>4, <1>5 DEF IInv

-----------------------------------------------------------------------------
\* The writing actions one by one

\* A request that has read a row names one that exists.
LEMMA Seat ==
    ASSUME IInv, NEW r \in Request, at[r] \in HasRow
    PROVE  acct[r] \in Account /\ row[acct[r]] \in Row /\ row[acct[r]].email # "none"
BY DEF IInv, Shape, Rows, Seated, Stable, Unborn

\* A writing statement goes on in one of the four ways.
LEMMA MovesOn ==
    ASSUME IInv, NEW r \in Request, NEW s \in Statement, UNCHANGED session,
           at' = [at EXCEPT ![r] = s], acct' = acct \/ acct' = [acct EXCEPT ![r] = No],
           at[r] \notin {"idle", "done", "set-cookie", "clear-cookie"},
           \/ at[r] = "register-code" /\ s = "issue" /\ acct' = acct
           \/ at[r] = "issue" /\ s = "set-cookie" /\ acct' = acct
           \/ at[r] \in {"revoke", "logout", "erase"} /\ s = "clear-cookie"
           \/ at[r] # "issue" /\ s = "done"
    PROVE  Advance
BY DEF IInv, Shape, Requests, Advance

\* The new token unseats the browser that held the old one.
LEMMA IssueKeeps == ASSUME IInv, NEW r \in Request, Issue(r) PROVE IInv'
<1>1. PICK a, new : a \in Account /\ a = acct[r] /\ new = [row[a] EXCEPT !.digest = r]
  BY Seat DEF Issue, HasRow
<1>2. row[a] \in Row /\ row[a].email # "none" /\ by[r] \in Browser /\ r \in InFlight
  BY <1>1, Seat DEF Issue, HasRow, IInv, Shape, Seated, Answers, InFlight
<1>3. new \in Row /\ new.digest = r /\ Same(row[a], new, {"digest"})
  BY <1>1, <1>2, Fields
<1>4. Write(a, new) /\ Unseat(r, a)
  BY <1>1 DEF Issue
<1>5. Advance
  BY MovesOn DEF Issue, Goto, Statement
<1>6. at'[r] = "set-cookie" /\ \A x \in Request : x # r => at'[x] = at[x]
  BY DEF Issue, Goto, IInv, Shape, Requests
<1>7. SecretsFrom(a, new)
  BY <1>3, <1>6 DEF SecretsFrom, Past, Same, Field, Secret, Issue
<1>8. SealKept(a, new) /\ SoloKept(a, new)
  BY <1>1, <1>2, <1>3, <1>4, <1>6 DEF SealKept, SoloKept, Same, Field, Late, Issue
<1> QED BY <1>1, <1>2, <1>3, <1>4, <1>5, <1>7, <1>8, WriteKeeps DEF Same, Field

\* A revoked token unseats its browser.
LEMMA RevokeKeeps == ASSUME IInv, NEW r \in Request, Revoke(r) PROVE IInv'
<1>1. PICK a, new : a \in Account /\ a = acct[r] /\ new = [row[a] EXCEPT !.digest = No]
  BY Seat DEF Revoke, HasRow
<1>2. row[a] \in Row /\ row[a].email # "none" /\ by[r] \in Browser /\ r \in InFlight
  BY <1>1, Seat DEF Revoke, HasRow, IInv, Shape, Seated, Answers, InFlight
<1>3. new \in Row /\ new.digest = No /\ Same(row[a], new, {"digest"})
  BY <1>1, <1>2, Fields
<1>4. Write(a, new) /\ Unseat(r, a)
  BY <1>1 DEF Revoke
<1>5. Advance
  BY MovesOn DEF Revoke, Goto, Statement, Answers
<1>6. at'[r] = "clear-cookie" /\ \A x \in Request : x # r => at'[x] = at[x]
  BY DEF Revoke, Goto, IInv, Shape, Requests
<1>7. SecretsFrom(a, new)
  BY <1>3 DEF SecretsFrom, Same, Field, Secret
<1>8. SealKept(a, new) /\ SoloKept(a, new)
  BY <1>2, <1>3, <1>4, <1>6 DEF SealKept, SoloKept, Same, Field
<1> QED BY <1>1, <1>2, <1>3, <1>4, <1>5, <1>7, <1>8, WriteKeeps DEF Same, Field

\* An erasure unseats the browser and seals the row.
LEMMA EraseWriteKeeps == ASSUME IInv, NEW r \in Request, EraseWrite(r) PROVE IInv'
<1>1. PICK a, new : a \in Account /\ a = acct[r] /\ new = Erased(row[a])
  BY Seat DEF EraseWrite, HasRow
<1>2. row[a] \in Row /\ row[a].email # "none" /\ by[r] \in Browser /\ r \in InFlight
  BY <1>1, Seat DEF EraseWrite, HasRow, IInv, Shape, Seated, Answers, InFlight
<1>3. /\ new \in Row /\ new.email = "marker" /\ new.blocked /\ ~new.personal /\ ~new.password
      /\ new.digest = No /\ new.reset = No /\ new.verify = No
  BY <1>1, ErasedRow
<1>4. Write(a, new) /\ Unseat(r, a)
  BY <1>1 DEF EraseWrite
<1>5. Advance
  BY MovesOn DEF EraseWrite, Goto, Statement, Answers
<1>6. at'[r] = "clear-cookie" /\ \A x \in Request : x # r => at'[x] = at[x]
  BY DEF EraseWrite, Goto, IInv, Shape, Requests
<1>7. SecretsFrom(a, new)
  BY <1>3 DEF SecretsFrom, Secret
<1>8. SealKept(a, new) /\ SoloKept(a, new)
  BY <1>2, <1>3, <1>4, <1>6 DEF SealKept, SoloKept
<1> QED BY <1>1, <1>2, <1>3, <1>4, <1>5, <1>7, <1>8, WriteKeeps

\* A logout finds the row by the token, or finds none.
LEMMA LogoutWriteKeeps == ASSUME IInv, NEW r \in Request, LogoutWrite(r) PROVE IInv'
<1>1. Advance
  BY MovesOn DEF LogoutWrite, Goto, Statement, Answers
<1>2. by[r] \in Browser /\ r \in InFlight /\ at'[r] = "clear-cookie"
      /\ \A x \in Request : x # r => at'[x] = at[x]
  BY DEF LogoutWrite, Goto, IInv, Shape, Seated, Requests, Answers, InFlight
<1>3. CASE Owner(held[r]) = {}
  BY <1>1, <1>2, <1>3, AdvanceQuietly DEF LogoutWrite, Quiet, Owner
<1>4. ASSUME NEW a \in Owner(held[r]), Write(a, [row[a] EXCEPT !.digest = No]), Unseat(r, a)
      PROVE  IInv'
  <2>1. PICK new : new = [row[a] EXCEPT !.digest = No]
    OBVIOUS
  <2>2. a \in Account /\ row[a] \in Row /\ row[a].email # "none"
    BY DEF Owner, IInv, Shape, Rows, Seated, Stable, Unborn, Blank, LogoutWrite
  <2>3. new \in Row /\ new.digest = No /\ Same(row[a], new, {"digest"})
    BY <2>1, <2>2, Fields
  <2>4. SecretsFrom(a, new)
    BY <2>3 DEF SecretsFrom, Same, Field, Secret
  <2>5. SealKept(a, new) /\ SoloKept(a, new)
    BY <1>2, <1>4, <2>3 DEF SealKept, SoloKept, Same, Field
  <2> QED BY <1>1, <1>4, <2>1, <2>2, <2>3, <2>4, <2>5, WriteKeeps DEF Same, Field
<1> QED BY <1>3, <1>4 DEF LogoutWrite

\* The other statements leave the refresh token alone.
Settled(a, new) ==
    /\ new \in Row /\ new.email = row[a].email /\ new.digest = row[a].digest
    /\ disturbed' = disturbed
    /\ \A x \in Request : at'[x] = "set-cookie" => at[x] = "set-cookie"

\* For these it is enough to look at secrets and at erased rows.
LEMMA SettledKeeps ==
    ASSUME IInv, Advance, NEW a \in Account, NEW new, Write(a, new), Settled(a, new),
           row[a].email # "none", SecretsFrom(a, new), SealKept(a, new)
    PROVE  IInv'
BY WriteKeeps DEF Settled, SoloKept

\* A code for the row that has the address by now.
LEMMA RegisterCodeKeeps == ASSUME IInv, NEW r \in Request, RegisterCode(r) PROVE IInv'
<1>1. CASE Registered = {}
  <2>1. Advance /\ Quiet /\ UNCHANGED disturbed
    BY <1>1, MovesOn DEF RegisterCode, Leave, Read, Goto, Statement, Quiet
  <2>2. at'[r] # "set-cookie" /\ \A x \in Request : x # r => at'[x] = at[x]
    BY <1>1 DEF RegisterCode, Leave, Read, Goto, IInv, Shape, Requests
  <2> QED BY <2>1, <2>2, AdvanceQuietly
<1>2. ASSUME NEW a \in Registered, Write(a, [row[a] EXCEPT !.verify = r]), Goto(r, "issue"),
             UNCHANGED acct
      PROVE  IInv'
  <2>1. PICK new : new = [row[a] EXCEPT !.verify = r]
    OBVIOUS
  <2>2. a \in Account /\ row[a] \in Row /\ row[a].email = "real"
    BY DEF Registered, IInv, Shape, Rows
  <2>3. new \in Row /\ new.verify = r /\ Same(row[a], new, {"verify"})
    BY <2>1, <2>2, Fields
  <2>4. Advance
    BY <1>2, MovesOn DEF RegisterCode, Goto, Statement
  <2>5. at'[r] = "issue" /\ \A x \in Request : x # r => at'[x] = at[x]
    BY <1>2 DEF Goto, IInv, Shape, Requests
  <2>6. SecretsFrom(a, new)
    BY <2>3, <2>5 DEF SecretsFrom, Same, Field, Secret, Past, RegisterCode
  <2>7. SealKept(a, new) /\ Settled(a, new)
    BY <2>2, <2>3, <2>5 DEF SealKept, Settled, Same, Field, RegisterCode
  <2> QED BY <1>2, <2>1, <2>2, <2>4, <2>6, <2>7, SettledKeeps
<1> QED BY <1>1, <1>2 DEF RegisterCode

\* A row found by the address or by a marker exists.
LEMMA Borne ==
    ASSUME IInv, NEW r \in Request, NEW a \in Bearer(r)
    PROVE  a \in Account /\ row[a] \in Row /\ row[a].email # "none"
<1>1. CASE acct[r] = No
  BY <1>1 DEF Bearer, Registered, IInv, Shape, Rows
<1>2. CASE acct[r] # No
  BY <1>2 DEF Bearer, IInv, Shape, Rows, Requests, Stable, Unborn
<1> QED BY <1>1, <1>2

\* A reset code for the row that has the address by now, or the marker.
LEMMA ForgotWriteKeeps == ASSUME IInv, NEW r \in Request, ForgotWrite(r) PROVE IInv'
<1>1. Advance
  BY MovesOn DEF ForgotWrite, Leave, Read, Goto, Statement
<1>2. at'[r] = "done" /\ \A x \in Request : x # r => at'[x] = at[x]
  BY DEF ForgotWrite, Leave, Read, Goto, IInv, Shape, Requests
<1>3. CASE UNCHANGED <<row, history>>
  BY <1>1, <1>2, <1>3, AdvanceQuietly DEF ForgotWrite, Quiet
<1>4. ASSUME NEW a \in Bearer(r), Write(a, [row[a] EXCEPT !.reset = r])
      PROVE  IInv'
  <2>1. PICK new : new = [row[a] EXCEPT !.reset = r]
    OBVIOUS
  <2>2. a \in Account /\ row[a] \in Row /\ row[a].email # "none"
    BY Borne
  <2>3. new \in Row /\ new.reset = r /\ Same(row[a], new, {"reset"})
    BY <2>1, <2>2, Fields
  <2>4. SecretsFrom(a, new)
    BY <1>2, <2>3 DEF SecretsFrom, Same, Field, Secret, Past, ForgotWrite
  <2>5. row[a].email \in {"real", "marker"}
    BY <2>2 DEF Row
  <2>6. SealKept(a, new) /\ Settled(a, new)
    BY <1>2, <2>3, <2>5 DEF SealKept, Settled, Same, Field, ForgotWrite
  <2> QED BY <1>1, <1>4, <2>1, <2>2, <2>4, <2>6, SettledKeeps
<1> QED BY <1>3, <1>4 DEF ForgotWrite

\* A verification code, by address or by marker.
LEMMA CodeWriteKeeps == ASSUME IInv, NEW r \in Request, CodeWrite(r) PROVE IInv'
<1>1. Advance
  BY MovesOn DEF CodeWrite, Leave, Read, Goto, Statement
<1>2. at'[r] = "done" /\ \A x \in Request : x # r => at'[x] = at[x]
  BY DEF CodeWrite, Leave, Read, Goto, IInv, Shape, Requests
<1>3. CASE UNCHANGED <<row, history>>
  BY <1>1, <1>2, <1>3, AdvanceQuietly DEF CodeWrite, Quiet
<1>4. ASSUME NEW a \in Bearer(r), Write(a, [row[a] EXCEPT !.verify = r])
      PROVE  IInv'
  <2>1. PICK new : new = [row[a] EXCEPT !.verify = r]
    OBVIOUS
  <2>2. a \in Account /\ row[a] \in Row /\ row[a].email # "none"
    BY Borne
  <2>3. new \in Row /\ new.verify = r /\ Same(row[a], new, {"verify"})
    BY <2>1, <2>2, Fields, ZenonT(30)
  <2>4. SecretsFrom(a, new)
    BY <1>2, <2>3 DEF SecretsFrom, Same, Field, Secret, Past, CodeWrite
  <2>5. SealKept(a, new) /\ Settled(a, new)
    BY <1>2, <2>2, <2>3 DEF SealKept, Settled, Same, Field, CodeWrite
  <2> QED BY <1>1, <1>4, <2>1, <2>2, <2>4, <2>5, SettledKeeps
<1> QED BY <1>3, <1>4 DEF CodeWrite

\* A late profile write to an erased row is accounted for in unsealed.
LEMMA ProfileWriteKeeps == ASSUME IInv, NEW r \in Request, ProfileWrite(r) PROVE IInv'
<1>1. PICK a, p, new :
         /\ a \in Account /\ p \in BOOLEAN /\ a = acct[r]
         /\ new = [row[a] EXCEPT !.personal = p] /\ Write(a, new)
  BY Seat DEF ProfileWrite, HasRow
<1>2. row[a] \in Row /\ row[a].email # "none"
  BY <1>1, Seat DEF ProfileWrite, HasRow
<1>3. new \in Row /\ Same(row[a], new, {"personal"})
  BY <1>1, <1>2, Fields
<1>4. Advance
  BY MovesOn DEF ProfileWrite, Leave, Read, Goto, Statement
<1>5. at'[r] = "done" /\ \A x \in Request : x # r => at'[x] = at[x]
  BY DEF ProfileWrite, Leave, Read, Goto, IInv, Shape, Requests
<1>6. SecretsFrom(a, new)
  BY <1>3 DEF SecretsFrom, Same, Field, Secret
<1>7. SealKept(a, new) /\ Settled(a, new)
  BY <1>1, <1>3, <1>5 DEF SealKept, Settled, Same, Field, Late, ProfileWrite
<1> QED BY <1>1, <1>2, <1>4, <1>6, <1>7, SettledKeeps

\* So is a late password reset, and one by the marker in recalled.
LEMMA ResetWriteKeeps == ASSUME IInv, NEW r \in Request, ResetWrite(r) PROVE IInv'
<1>1. PICK a, new :
         /\ a \in Account /\ a = acct[r]
         /\ new = [row[a] EXCEPT !.password = TRUE, !.reset = No] /\ Write(a, new)
  BY Seat DEF ResetWrite, HasRow
<1>2. row[a] \in Row /\ row[a].email # "none"
  BY <1>1, Seat DEF ResetWrite, HasRow
<1>3. new \in Row /\ new.reset = No /\ Same(row[a], new, {"password", "reset"})
  BY <1>1, <1>2, TwoFields
<1>4. Advance
  BY MovesOn DEF ResetWrite, Leave, Read, Goto, Statement
<1>5. at'[r] = "done" /\ \A x \in Request : x # r => at'[x] = at[x]
  BY DEF ResetWrite, Leave, Read, Goto, IInv, Shape, Requests
<1>6. SecretsFrom(a, new)
  BY <1>3 DEF SecretsFrom, Same, Field, Secret
<1>7. SealKept(a, new) /\ Settled(a, new)
  BY <1>1, <1>3, <1>5 DEF SealKept, Settled, Same, Field, ResetWrite
<1> QED BY <1>1, <1>2, <1>4, <1>6, <1>7, SettledKeeps

\* A verified address touches nothing an erased row must not hold.
LEMMA VerifyWriteKeeps == ASSUME IInv, NEW r \in Request, VerifyWrite(r) PROVE IInv'
<1>1. PICK a, new :
         /\ a \in Account /\ a = acct[r]
         /\ new = [row[a] EXCEPT !.verified = TRUE, !.verify = No] /\ Write(a, new)
  BY Seat DEF VerifyWrite, HasRow
<1>2. row[a] \in Row /\ row[a].email # "none"
  BY <1>1, Seat DEF VerifyWrite, HasRow
<1>3. new \in Row /\ new.verify = No /\ Same(row[a], new, {"verified", "verify"})
  BY <1>1, <1>2, TwoFields
<1>4. Advance
  BY MovesOn DEF VerifyWrite, Leave, Read, Goto, Statement
<1>5. at'[r] = "done" /\ \A x \in Request : x # r => at'[x] = at[x]
  BY DEF VerifyWrite, Leave, Read, Goto, IInv, Shape, Requests
<1>6. SecretsFrom(a, new)
  BY <1>3 DEF SecretsFrom, Same, Field, Secret
<1>7. SealKept(a, new) /\ Settled(a, new)
  BY <1>3, <1>5 DEF SealKept, Settled, Same, Field, VerifyWrite
<1> QED BY <1>1, <1>2, <1>4, <1>6, <1>7, SettledKeeps

\* A restored row is unblocked, which re-opens it when it was erased.
LEMMA RestoreWriteKeeps == ASSUME IInv, NEW r \in Request, RestoreWrite(r) PROVE IInv'
<1>1. PICK a, new :
         /\ a \in Account /\ a = acct[r]
         /\ new = [row[a] EXCEPT !.trashed = FALSE, !.blocked = FALSE]
         /\ Write(a, new)
  BY Seat DEF RestoreWrite, HasRow
<1>2. row[a] \in Row /\ row[a].email # "none"
  BY <1>1, Seat DEF RestoreWrite, HasRow
<1>3. new \in Row /\ Same(row[a], new, {"trashed", "blocked"})
  BY <1>1, <1>2, TwoFields
<1>4. Advance
  BY MovesOn DEF RestoreWrite, Leave, Read, Goto, Statement
<1>5. at'[r] = "done" /\ \A x \in Request : x # r => at'[x] = at[x]
  BY DEF RestoreWrite, Leave, Read, Goto, IInv, Shape, Requests
<1>6. SecretsFrom(a, new)
  BY <1>3 DEF SecretsFrom, Same, Field, Secret
<1>7. SealKept(a, new) /\ Settled(a, new)
  BY <1>3, <1>5 DEF SealKept, Settled, Same, Field, RestoreWrite
<1> QED BY <1>1, <1>2, <1>4, <1>6, <1>7, SettledKeeps

\* The statements of administrators.
LEMMA AdminKeeps ==
    ASSUME IInv, NEW a \in Account,
           Block(a) \/ Unblock(a) \/ Trash(a) \/ RevokeCode(a) \/ BulkRestore(a)
    PROVE  IInv'
<1>1. Advance /\ disturbed' = disturbed /\ at' = at
  BY DEF IInv, Shape, Requests, Advance, Block, Unblock, Trash, RevokeCode, BulkRestore, Admin
<1>2. row[a] \in Row /\ row[a].email # "none"
  BY DEF IInv, Shape, Rows, Stable, Unborn, Blank, Exists, Block, Unblock, Trash, RevokeCode,
     BulkRestore
<1>. DEFINE Rewritten(new) ==
         /\ new \in Row /\ Write(a, new) /\ new.verify \in {No, row[a].verify}
         /\ Same(row[a], new, {"blocked", "trashed", "verify"})
<1>3. \E new : Rewritten(new)
  <2>1. ASSUME Block(a), NEW new, new = [row[a] EXCEPT !.blocked = TRUE] PROVE Rewritten(new)
    <3>1. new \in Row /\ Same(row[a], new, {"blocked"})
      BY <1>2, <2>1, Fields
    <3>2. Write(a, new)
      BY <2>1 DEF Block
    <3> QED BY <3>1, <3>2 DEF Same, Field
  <2>2. ASSUME Unblock(a), NEW new, new = [row[a] EXCEPT !.blocked = FALSE] PROVE Rewritten(new)
    <3>1. new \in Row /\ Same(row[a], new, {"blocked"})
      BY <1>2, <2>2, Fields
    <3>2. Write(a, new)
      BY <2>2 DEF Unblock
    <3> QED BY <3>1, <3>2 DEF Same, Field
  <2>3. ASSUME Trash(a), NEW new, new = [row[a] EXCEPT !.trashed = TRUE] PROVE Rewritten(new)
    <3>1. new \in Row /\ Same(row[a], new, {"trashed"})
      BY <1>2, <2>3, Fields
    <3>2. Write(a, new)
      BY <2>3 DEF Trash
    <3> QED BY <3>1, <3>2 DEF Same, Field
  <2>4. ASSUME RevokeCode(a), NEW new, new = [row[a] EXCEPT !.verify = No] PROVE Rewritten(new)
    <3>1. new \in Row /\ Same(row[a], new, {"verify"}) /\ new.verify = No
      BY <1>2, <2>4, Fields
    <3>2. Write(a, new)
      BY <2>4 DEF RevokeCode
    <3> QED BY <3>1, <3>2 DEF Same, Field
  <2>5. ASSUME BulkRestore(a), NEW new, new = [row[a] EXCEPT !.trashed = FALSE, !.blocked = FALSE]
        PROVE  Rewritten(new)
    <3>1. new \in Row /\ Same(row[a], new, {"trashed", "blocked"})
      BY <1>2, <2>5, TwoFields
    <3>2. Write(a, new)
      BY <2>5 DEF BulkRestore
    <3> QED BY <3>1, <3>2 DEF Same, Field
  <2> QED BY <2>1, <2>2, <2>3, <2>4, <2>5
<1>4. PICK new : Rewritten(new)
  BY <1>3
<1>5. SecretsFrom(a, new)
  BY <1>4 DEF SecretsFrom, Same, Field, Secret
<1>6. SealKept(a, new) /\ Settled(a, new)
  BY <1>1, <1>4 DEF SealKept, Settled, Same, Field
<1> QED BY <1>1, <1>2, <1>4, <1>5, <1>6, SettledKeeps

\* A new row: the only write to a row that has no address yet.
LEMMA CreateKeeps == ASSUME IInv, NEW r \in Request, Create(r) PROVE IInv'
<1>1. CASE ~Free
  <2>1. Advance /\ Quiet /\ UNCHANGED disturbed
    BY <1>1, MovesOn DEF Create, Goto, Statement, Quiet
  <2>2. at'[r] # "set-cookie" /\ \A x \in Request : x # r => at'[x] = at[x]
    BY <1>1 DEF Create, Goto, IInv, Shape, Requests
  <2> QED BY <2>1, <2>2, AdvanceQuietly
<1>2. CASE Free
  <2>1. PICK a, new :
           /\ a \in Account
           /\ new = [Blank EXCEPT !.email = "real", !.password = TRUE, !.personal = TRUE]
           /\ row[a].email = "none" /\ Write(a, new) /\ Read(r, a, "register-code")
    BY <1>2 DEF Create
  <2>2. /\ new \in Row /\ new.email = "real" /\ ~new.blocked
        /\ new.digest = No /\ new.reset = No /\ new.verify = No
    BY <2>1, Created
  <2>3. row[a] = Blank /\ row[a].digest = No /\ \A x \in Request : acct[x] # a
    <3>1. row[a] = Blank /\ \A x \in Request : acct[x] # a
      BY <2>1 DEF IInv, Stable, Unborn
    <3> QED BY <3>1 DEF Blank
  <2>4. Rows' /\ row'[a] = new /\ \A x \in Account : x # a => row'[x] = row[x]
    BY <1>2, <2>1, <2>2, WriteRows DEF Free, IInv, Shape
  <2>5. /\ at[r] = "create" /\ at'[r] = "register-code" /\ acct'[r] = a
        /\ \A x \in Request : x # r => at'[x] = at[x] /\ acct'[x] = acct[x]
        /\ UNCHANGED <<jar, minted, by, held, left, disturbed>>
    BY <2>1 DEF Create, Read, Goto, session, IInv, Shape, Requests
  <2>6. Shape'
    <3>1. Requests'
      BY <2>1, <2>5 DEF IInv, Shape, Requests, Read, Goto, Statement
    <3>2. a \in Account /\ acct'[r] \in Account /\ by[r] \in Browser
      BY <2>1, <2>5 DEF IInv, Shape, Seated, Answers
    <3>3. Seated'
      BY <2>5, <3>2 DEF IInv, Shape, Seated, Requests, HasRow, Answers
    <3>4. Cookies'
      BY <2>2, <2>3, <2>4, <2>5, <3>2 DEF IInv, Shape, Cookies, Requests
    <3> QED BY <2>4, <3>1, <3>3, <3>4 DEF Shape
  <2>7. Secrets'
    <3>1. Onward
      BY <2>5 DEF Onward, Past
    <3>2. SecretsFrom(a, new)
      BY <2>2 DEF SecretsFrom, Secret
    <3> QED BY <2>1, <2>2, <2>4, <3>1, <3>2, WriteSecrets DEF IInv, Shape
  <2>8. Stable'
    <3>1. admitted \subseteq admitted' /\ unsealed \subseteq unsealed' /\ recalled \subseteq recalled'
      BY <2>1 DEF Write
    <3>2. Unborn'
      BY <2>2, <2>4, <2>5 DEF IInv, Stable, Unborn
    <3>3. Guarded'
      BY <2>2, <2>3, <2>4, <2>5, <3>1 DEF IInv, Stable, Guarded, Shape, Seated, HasRow, Checked
    <3>4. Sealed'
      BY <2>2, <2>3, <2>4, <2>5, <3>1 DEF IInv, Stable, Sealed, Late
    <3> QED BY <3>2, <3>3, <3>4 DEF Stable
  <2>9. Solo'
    <3>1. \A x \in Account : row'[x].digest = row[x].digest
      BY <2>2, <2>3, <2>4
    <3>2. \A t : Owner(t)' = Owner(t)
      BY <3>1 DEF Owner
    <3> QED BY <2>5, <3>1, <3>2 DEF IInv, Solo, Alone, InFlight, Shape, Requests, Seated, HasRow
  <2> QED BY <2>6, <2>7, <2>8, <2>9 DEF IInv
<1> QED BY <1>1, <1>2

-----------------------------------------------------------------------------
\* The invariant

\* Reads, answers and failures keep the invariant.
LEMMA ReadsKeep == ASSUME IInv, NEW r \in Request, NEW b, Reads(r, b) PROVE IInv'
BY ReadsShape, ReadsStable, ReadsSolo, ReadsAreQuiet, QuietSecrets DEF IInv, Shape

Writes(r) ==
    \/ Create(r) \/ RegisterCode(r) \/ Issue(r) \/ Revoke(r) \/ LogoutWrite(r)
    \/ ProfileWrite(r) \/ EraseWrite(r) \/ ForgotWrite(r) \/ ResetWrite(r)
    \/ VerifyWrite(r) \/ CodeWrite(r) \/ RestoreWrite(r)

\* Every writing statement keeps the invariant.
LEMMA WritesKeep == ASSUME IInv, NEW r \in Request, Writes(r) PROVE IInv'
BY CreateKeeps, RegisterCodeKeeps, IssueKeeps, RevokeKeeps, LogoutWriteKeeps, ProfileWriteKeeps,
   EraseWriteKeeps, ForgotWriteKeeps, ResetWriteKeeps, VerifyWriteKeeps, CodeWriteKeeps,
   RestoreWriteKeeps DEF Writes

\* Every step is one of the three kinds.
LEMMA StepKinds ==
    Next => \/ \E r \in Request, b \in Browser \cup {No} : Reads(r, b)
            \/ \E r \in Request : Writes(r)
            \/ \E a \in Account :
                  Block(a) \/ Unblock(a) \/ Trash(a) \/ RevokeCode(a) \/ BulkRestore(a)
BY DEF Next, Reads, Writes

\* An empty table satisfies the invariant.
LEMMA InitInv == Init => IInv
<1>. SUFFICES ASSUME Init PROVE IInv
  OBVIOUS
<1>1. Shape
  BY DEF Init, Shape, Rows, Requests, Seated, Cookies, Row, Blank, Statement, HasRow, Answers
<1>2. Stable
  BY DEF Init, Stable, Unborn, Guarded, Sealed, Blank, Checked
<1>3. Secrets
  BY DEF Init, Secrets, Secret, Blank
<1>4. Solo
  BY DEF Init, Solo, Alone, InFlight
<1> QED BY <1>1, <1>2, <1>3, <1>4 DEF IInv

\* The invariant that carries the others holds in every reachable state: reads, answers and
\* failures change no row, and every writing statement keeps it.
THEOREM Inductive == Spec => []IInv
<1>1. IInv /\ [Next]_vars => IInv'
  <2>. SUFFICES ASSUME IInv, [Next]_vars PROVE IInv'
    OBVIOUS
  <2>1. CASE Next
    BY <2>1, StepKinds, ReadsKeep, WritesKeep, AdminKeeps
  <2>2. CASE UNCHANGED vars
    BY <2>2 DEF vars, session, history, IInv, Shape, Rows, Requests, Seated, Cookies, Stable,
       Unborn, Guarded, Sealed, Secrets, Solo, Alone, InFlight, Owner
  <2> QED BY <2>1, <2>2
<1> QED BY InitInv, <1>1, PTL DEF Spec

\* The state is well typed, and at most one row has the address (User.email is unique).
THEOREM TypeCorrect == Spec => []TypeOK
<1>1. IInv => TypeOK
  BY DEF IInv, Shape, Rows, Requests, TypeOK
<1> QED BY Inductive, <1>1, PTL

\* A blocked account gets nothing from a request that was not past its check before.
THEOREM BlockingIsImmediate == Spec => []BlockedOnlyAdmitted
<1>1. IInv => BlockedOnlyAdmitted
  BY DEF IInv, Stable, Guarded, Checked, BlockedOnlyAdmitted
<1> QED BY Inductive, <1>1, PTL

\* An erased account stays blocked and without session or personal data unless a late request
\* or an administrator re-opens it, and without a code or a password unless its marker is used.
THEOREM ErasureLasts == Spec => []ErasedHoldsNothing
<1>1. IInv => ErasedHoldsNothing
  BY DEF IInv, Stable, Sealed, ErasedHoldsNothing
<1> QED BY Inductive, <1>1, PTL

\* A browser that was alone and undisturbed is still signed in: the cookie it holds is live,
\* and an answer takes it away only to sign out, or for a block or an expired token.
THEOREM UndisturbedSessionsLast == Spec => []SoloKeepsSession
<1>1. IInv => SoloKeepsSession
  <2>. SUFFICES ASSUME IInv, NEW b \in Browser \ disturbed
       PROVE  /\ (jar[b] # No /\ ~\E r \in InFlight : by[r] = b) => Owner(jar[b]) # {}
              /\ \A r \in Request : at[r] = "clear-cookie" /\ by[r] = b => r \in left
    BY DEF SoloKeepsSession
  <2>1. (~\E r \in InFlight : by[r] = b) =>
           \A x \in Request : by[x] = b => at[x] \notin {"set-cookie", "clear-cookie"}
    BY DEF InFlight
  <2> QED BY <2>1 DEF IInv, Solo, Alone
<1> QED BY Inductive, <1>1, PTL

\* Only the second read of a refresh, the lookup of a reset and the lookup of a verification
\* accept a secret.
LEMMA Redeems ==
    ASSUME IInv, Next, NEW r \in Request
    PROVE  /\ at[r] = "compare" /\ at'[r] = "issue" => Compare(r)
           /\ at[r] # "reset" /\ at'[r] = "reset" => Reset(r)
           /\ at[r] # "verify" /\ at'[r] = "verify" => Verify(r)
<1>. USE DEF IInv, Shape, Requests, Goto, Read, Leave
<1>1. ASSUME NEW x \in Request, NEW b, Reads(x, b)
      PROVE  /\ at[r] = "compare" /\ at'[r] = "issue" => Compare(r)
             /\ at[r] # "reset" /\ at'[r] = "reset" => Reset(r)
             /\ at[r] # "verify" /\ at'[r] = "verify" => Verify(r)
  BY <1>1 DEF Reads, Arrive, Register, Login, Refresh, Logout, Erase, Find, SetCookie, ClearCookie,
     Profile, Forgot, Resend, Restore, Drop, Compare, Reset, Verify, Named
<1>2. ASSUME NEW x \in Request, Writes(x)
      PROVE  /\ at'[r] # at[r] => at'[r] \notin {"reset", "verify"}
             /\ at'[r] # at[r] => at[r] # "compare"
  BY <1>2 DEF Writes, Create, RegisterCode, Issue, Revoke, LogoutWrite, ProfileWrite, EraseWrite,
     ForgotWrite, ResetWrite, VerifyWrite, CodeWrite, RestoreWrite
<1>3. ASSUME NEW a \in Account,
             Block(a) \/ Unblock(a) \/ Trash(a) \/ RevokeCode(a) \/ BulkRestore(a)
      PROVE  at' = at
  BY <1>3 DEF Block, Unblock, Trash, RevokeCode, BulkRestore, Admin
<1> QED BY <1>1, <1>2, <1>3, StepKinds

\* A secret that was rotated, redeemed, replaced, revoked or erased is never accepted again.
THEOREM SpentStaysSpent == Spec => SpentNeverRedeemed
<1>. DEFINE Accepts(r) ==
         /\ at[r] = "compare" /\ at'[r] = "issue" => <<"digest", held[r]>> \notin spent
         /\ at[r] # "reset" /\ at'[r] = "reset" => <<"reset", row[acct'[r]].reset>> \notin spent
         /\ at[r] # "verify" /\ at'[r] = "verify" => <<"verify", row[acct'[r]].verify>> \notin spent
<1>1. ASSUME IInv, Next, NEW r \in Request PROVE Accepts(r)
  <2>1. \A a \in Account :
           /\ row[a].digest # No => <<"digest", row[a].digest>> \notin spent
           /\ row[a].reset # No => <<"reset", row[a].reset>> \notin spent
           /\ row[a].verify # No => <<"verify", row[a].verify>> \notin spent
    BY <1>1 DEF IInv, Secrets, Secret
  <2>2. Compare(r) /\ at'[r] = "issue" => <<"digest", held[r]>> \notin spent
    BY <1>1, <2>1 DEF Compare, Current, Goto, IInv, Shape, Requests, Seated, HasRow
  <2>3. Reset(r) => <<"reset", row[acct'[r]].reset>> \notin spent
    BY <1>1, <2>1 DEF Reset, Read, IInv, Shape, Requests
  <2>4. Verify(r) => <<"verify", row[acct'[r]].verify>> \notin spent
    BY <1>1, <2>1 DEF Verify, Read, IInv, Shape, Requests
  <2> QED BY <1>1, <2>2, <2>3, <2>4, Redeems
<1>2. IInv /\ [Next]_vars => [\A r \in Request : Accepts(r)]_vars
  BY <1>1
<1> QED BY Inductive, <1>2, PTL DEF Spec, SpentNeverRedeemed
=============================================================================
