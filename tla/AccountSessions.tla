--------------------------- MODULE AccountSessions ---------------------------
(***************************************************************************)
(* Accounts behind one e-mail address and the sessions of the browsers     *)
(* that use them: src/server/src/routes/auth.ts with lib/verifyEmail.ts,   *)
(* and the administrators' operations on an account (routes/admin.ts,      *)
(* routes/adminEmails.ts).  The row of a User is read and written in       *)
(* separate statements, none of them in a transaction; tabs of one browser *)
(* share its cookie jar.                                                   *)
(*                                                                         *)
(* A refresh token, a reset code and a verification code are named by the  *)
(* request that generated them.  The link and the digits of one mail are   *)
(* one code.  A request that is in time to be refused for an expired       *)
(* credential may always be refused; the 15 minutes of an access token     *)
(* never end here.  Roles are the matter of another part: accounts here    *)
(* are those of plain users.                                               *)
(***************************************************************************)
CONSTANTS
    Account,  \* rows of the User table that may come to exist
    Browser,  \* cookie jars
    Request,  \* requests, each served once
    No        \* SQL NULL; no cookie

ASSUME NoAssumption == No \notin Request \cup Account \cup Browser

VARIABLES
    row,        \* row[a]: the User
    jar,        \* jar[b]: the refresh cookie of browser b
    minted,     \* accounts some browser has an access token of
    at,         \* at[r]: the next statement of request r
    by,         \* by[r]: its browser, when the answer touches the cookie
    held,       \* held[r]: the cookie it carries, until it is answered
    acct,       \* acct[r]: the row its handler has read, until it answers
    spent,      \* history: secrets that were in a row and are not any more
    admitted,   \* history: requests past their read when their account was blocked
    unsealed,   \* history: accounts erased under another request, or re-opened since
    recalled,   \* history: erased accounts sent a reset code by their marker
    left,       \* history: logouts, erasures, refreshes refused to a blocked account or
                \*   an expired token
    disturbed   \* history: browsers that did not use the account alone and undisturbed

session == <<jar, minted, by, held, left>>
history == <<spent, admitted, unsealed, recalled>>
vars    == <<row, session, at, acct, history, disturbed>>

Secret == {"digest", "reset", "verify"}

Row == [email    : {"none", "real", "marker"},  \* no row yet; the address; deleted-<id>@...
        digest   : Request \cup {No},           \* refreshTokenHash
        password : BOOLEAN,                     \* passwordHash is not null
        personal : BOOLEAN,                     \* name, nickname, avatar, watermark
        reset    : Request \cup {No},           \* resetPasswordToken, resetPasswordCodeHash
        verify   : Request \cup {No},           \* emailVerificationToken, emailVerifyCodeHash
        verified : BOOLEAN,
        blocked  : BOOLEAN,
        trashed  : BOOLEAN]                     \* deletedAt is not null

Blank == [email |-> "none", digest |-> No, password |-> FALSE, personal |-> FALSE,
          reset |-> No, verify |-> No, verified |-> FALSE,
          blocked |-> FALSE, trashed |-> FALSE]

Statement == {"idle", "create", "register-code", "issue", "find", "compare", "revoke",
              "logout", "profile", "erase", "forgot", "reset", "verify", "code",
              "restore", "set-cookie", "clear-cookie", "done"}

TypeOK ==
    /\ row \in [Account -> Row]
    /\ \A a, b \in Account : row[a].email = "real" /\ row[b].email = "real" => a = b
    /\ jar \in [Browser -> Request \cup {No}] /\ minted \subseteq Account
    /\ at \in [Request -> Statement]
    /\ by \in [Request -> Browser \cup {No}]
    /\ held \in [Request -> Request \cup {No}]
    /\ acct \in [Request -> Account \cup {No}]
    /\ spent \subseteq Secret \X Request
    /\ admitted \subseteq Request /\ left \subseteq Request /\ disturbed \subseteq Browser
    /\ unsealed \subseteq Account /\ recalled \subseteq Account

Init ==
    /\ row = [a \in Account |-> Blank]
    /\ jar = [b \in Browser |-> No] /\ minted = {}
    /\ at = [r \in Request |-> "idle"]
    /\ by = [r \in Request |-> No]
    /\ held = [r \in Request |-> No]
    /\ acct = [r \in Request |-> No]
    /\ spent = {} /\ admitted = {} /\ unsealed = {} /\ recalled = {}
    /\ left = {} /\ disturbed = {}

-----------------------------------------------------------------------------
\* Requests and rows

Goto(r, s) == at' = [at EXCEPT ![r] = s]

\* The handler has read row a and goes on to statement s.
Read(r, a, s) == acct' = [acct EXCEPT ![r] = a] /\ Goto(r, s)

\* The handler is through with the row.
Leave(r, s) == Read(r, No, s)

InFlight == {r \in Request : at[r] \notin {"idle", "done"}}

\* A request of browser b whose answer will touch the cookie starts.
From(r, b, cookie) ==
    /\ by' = [by EXCEPT ![r] = b]
    /\ held' = [held EXCEPT ![r] = cookie]
    /\ disturbed' = disturbed \cup IF \E x \in InFlight : by[x] = b THEN {b} ELSE {}

\* findUnique({ where: { email } }) with the address.
Registered == {a \in Account : row[a].email = "real"}

\* findUnique({ where: { email } }), where the marker of an erased account is an address like
\* any other.  Only the address can be another row's, or nobody's, by the next statement.
Named(r, a, s) ==
    \/ row[a].email = "real" /\ Goto(r, s) /\ UNCHANGED acct
    \/ row[a].email = "marker" /\ Read(r, a, s)

\* update({ where: { email } }): the row that has it by now.
Bearer(r) == IF acct[r] = No THEN Registered ELSE {acct[r]}

\* Requests that will write to the row they have read, whatever it holds by then.
Late == {"register-code", "issue", "profile", "reset"}

\* One UPDATE of row a.
Write(a, new) ==
    /\ row' = [row EXCEPT ![a] = new]
    /\ spent' = spent \cup {<<s, row[a][s]>> :
          s \in {f \in Secret : row[a][f] \notin {No, new[f]}}}
    /\ admitted' = admitted \cup IF new.blocked /\ ~row[a].blocked
          THEN {r \in Request : acct[r] = a} ELSE {}
    /\ unsealed' = unsealed \cup
          IF \/ /\ row[a].email = "real" /\ new.email = "marker"
                /\ \E r \in Request : acct[r] = a /\ at[r] \in Late
             \/ row[a].email = "marker" /\ ~new.blocked
          THEN {a} ELSE {}
    /\ recalled' = recalled \cup
          IF row[a].email = "marker" /\ new.reset \notin {No, row[a].reset} THEN {a} ELSE {}

\* The browser that has the live token of row a loses it to request r of another.
Unseat(r, a) ==
    disturbed' = disturbed \cup
        IF row[a].digest = No THEN {} ELSE {by[row[a].digest]} \ {by[r]}

-----------------------------------------------------------------------------
\* Signing in

\* Mutant of Free: the e-mail column has no unique index.
FreeAsRead == TRUE

\* email String? @unique
Free == Registered = {}

\* POST /register: the address is looked up, then inserted.
Register(r, b) ==
    /\ at[r] = "idle" /\ Free
    /\ From(r, b, No) /\ Goto(r, "create")
    /\ UNCHANGED <<row, jar, minted, left, acct, history>>

Create(r) ==
    /\ at[r] = "create"
    /\ \/ /\ Free
          /\ \E a \in Account :
                /\ row[a].email = "none"
                /\ Write(a, [Blank EXCEPT !.email = "real", !.password = TRUE,
                                          !.personal = TRUE])
                /\ Read(r, a, "register-code")
       \/ ~Free /\ Goto(r, "done") /\ UNCHANGED <<row, acct, history>>
    /\ UNCHANGED <<session, disturbed>>

\* createEmailVerificationCode updates the row that has the address by now, and throws
\* when there is none.
RegisterCode(r) ==
    /\ at[r] = "register-code"
    /\ \/ \E a \in Registered :
             Write(a, [row[a] EXCEPT !.verify = r]) /\ Goto(r, "issue") /\ UNCHANGED acct
       \/ Registered = {} /\ Leave(r, "done") /\ UNCHANGED <<row, history>>
    /\ UNCHANGED <<session, disturbed>>

\* Mutant of Admissible: the check of `blocked` is missing.
AdmissibleAnyway(a) == row[a].email # "none"

\* `blocked` of the row as read, by login, refresh and requireAuth.
Admissible(a) == row[a].email # "none" /\ ~row[a].blocked

\* POST /login with the right password, by the address or by a marker.
Login(r, b) ==
    /\ at[r] = "idle"
    /\ \E a \in Account :
          /\ row[a].password /\ Admissible(a)
          /\ Read(r, a, "issue")
    /\ From(r, b, No)
    /\ UNCHANGED <<row, jar, minted, left, history>>

\* issueRefreshCookie: the digest is replaced whatever it is.
Issue(r) ==
    /\ at[r] = "issue"
    /\ Write(acct[r], [row[acct[r]] EXCEPT !.digest = r])
    /\ Unseat(r, acct[r])
    /\ Goto(r, "set-cookie")
    /\ UNCHANGED <<session, acct>>

\* Mutant of NewCookie: the answer repeats the cookie of the request.
SameCookie(r) == IF held[r] # No THEN held[r] ELSE r

NewCookie(r) == r

\* The answer arrives: cookie and access token.
SetCookie(r) ==
    /\ at[r] = "set-cookie"
    /\ jar' = [jar EXCEPT ![by[r]] = NewCookie(r)]
    /\ minted' = minted \cup {acct[r]}
    /\ held' = [held EXCEPT ![r] = No]
    /\ Leave(r, "done")
    /\ UNCHANGED <<row, by, left, history, disturbed>>

ClearCookie(r) ==
    /\ at[r] = "clear-cookie"
    /\ jar' = [jar EXCEPT ![by[r]] = No]
    /\ held' = [held EXCEPT ![r] = No]
    /\ Leave(r, "done")
    /\ UNCHANGED <<row, minted, by, left, history, disturbed>>

-----------------------------------------------------------------------------
\* Refresh and logout

\* The cookie leaves the browser now; the handler looks it up later.
Refresh(r, b) ==
    /\ at[r] = "idle" /\ jar[b] # No
    /\ From(r, b, jar[b]) /\ Goto(r, "find")
    /\ UNCHANGED <<row, jar, minted, left, acct, history>>

Owner(t) == {a \in Account : row[a].digest = t}

\* The first findUnique of /refresh, and its 401: the account is blocked or the token
\* expired, or nobody has the token.
Find(r) ==
    /\ at[r] = "find"
    /\ \/ \E a \in Owner(held[r]) : Admissible(a) /\ Read(r, a, "compare") /\ UNCHANGED left
       \/ /\ Owner(held[r]) # {} /\ left' = left \cup {r}
          /\ Goto(r, "clear-cookie") /\ UNCHANGED acct
       \/ /\ Owner(held[r]) = {} /\ UNCHANGED left
          /\ Goto(r, "clear-cookie") /\ UNCHANGED acct
    /\ UNCHANGED <<row, jar, minted, by, held, history, disturbed>>

\* Mutant of Current: the second read is not compared.
CurrentAsFound(r) == TRUE

Current(r) == row[acct[r]].digest = held[r]

\* The second findUnique.
Compare(r) ==
    /\ at[r] = "compare"
    /\ Goto(r, IF Current(r) THEN "issue" ELSE "revoke")
    /\ UNCHANGED <<row, session, acct, history, disturbed>>

\* "token replay detected, session revoked"
Revoke(r) ==
    /\ at[r] = "revoke"
    /\ Write(acct[r], [row[acct[r]] EXCEPT !.digest = No])
    /\ Unseat(r, acct[r])
    /\ Goto(r, "clear-cookie")
    /\ UNCHANGED <<session, acct>>

Logout(r, b) ==
    /\ at[r] = "idle"
    /\ From(r, b, jar[b]) /\ Goto(r, IF jar[b] = No THEN "clear-cookie" ELSE "logout")
    /\ left' = left \cup {r}
    /\ UNCHANGED <<row, jar, minted, acct, history>>

\* updateMany({ where: { refreshTokenHash: digest } }).
LogoutWrite(r) ==
    /\ at[r] = "logout"
    /\ \/ \E a \in Owner(held[r]) :
             Write(a, [row[a] EXCEPT !.digest = No]) /\ Unseat(r, a)
       \/ Owner(held[r]) = {} /\ UNCHANGED <<row, history, disturbed>>
    /\ Goto(r, "clear-cookie")
    /\ UNCHANGED <<session, acct>>

-----------------------------------------------------------------------------
\* Requests with an access token

\* requireAuth, before PATCH /me and before POST /me/delete.
Profile(r) ==
    /\ at[r] = "idle"
    /\ \E a \in minted : Admissible(a) /\ Read(r, a, "profile")
    /\ UNCHANGED <<row, session, history, disturbed>>

ProfileWrite(r) ==
    /\ at[r] = "profile"
    /\ \E p \in BOOLEAN : Write(acct[r], [row[acct[r]] EXCEPT !.personal = p])
    /\ Leave(r, "done")
    /\ UNCHANGED <<session, disturbed>>

Erase(r, b) ==
    /\ at[r] = "idle"
    /\ \E a \in minted : Admissible(a) /\ Read(r, a, "erase")
    /\ From(r, b, No) /\ left' = left \cup {r}
    /\ UNCHANGED <<row, jar, minted, history>>

\* Mutant of Erased: the reset code is forgotten.
ErasedButReset(u) ==
    [Blank EXCEPT !.email = "marker", !.blocked = TRUE, !.trashed = TRUE, !.reset = u.reset]

\* The data of the UPDATE of /me/delete.
Erased(u) == [Blank EXCEPT !.email = "marker", !.blocked = TRUE, !.trashed = TRUE]

EraseWrite(r) ==
    /\ at[r] = "erase"
    /\ Write(acct[r], Erased(row[acct[r]]))
    /\ Unseat(r, acct[r])
    /\ Goto(r, "clear-cookie")
    /\ UNCHANGED <<session, acct>>

-----------------------------------------------------------------------------
\* Mailed codes

\* POST /forgot-password, whatever the account's state: erased accounts have their marker.
Forgot(r) ==
    /\ at[r] = "idle"
    /\ \E a \in Account : Named(r, a, "forgot")
    /\ UNCHANGED <<row, session, history, disturbed>>

ForgotWrite(r) ==
    /\ at[r] = "forgot"
    /\ \/ \E a \in Bearer(r) : Write(a, [row[a] EXCEPT !.reset = r])
       \/ Bearer(r) = {} /\ UNCHANGED <<row, history>>
    /\ Leave(r, "done")
    /\ UNCHANGED <<session, disturbed>>

\* POST /reset-password: by the link's token or by address and code.
Reset(r) ==
    /\ at[r] = "idle"
    /\ \E a \in Account : row[a].reset # No /\ Read(r, a, "reset")
    /\ UNCHANGED <<row, session, history, disturbed>>

\* The fields are cleared whatever they hold by now; the sessions stay.
ResetWrite(r) ==
    /\ at[r] = "reset"
    /\ Write(acct[r], [row[acct[r]] EXCEPT !.password = TRUE, !.reset = No])
    /\ Leave(r, "done")
    /\ UNCHANGED <<session, disturbed>>

\* POST /verify-email.
Verify(r) ==
    /\ at[r] = "idle"
    /\ \E a \in Account : row[a].verify # No /\ Read(r, a, "verify")
    /\ UNCHANGED <<row, session, history, disturbed>>

VerifyWrite(r) ==
    /\ at[r] = "verify"
    /\ Write(acct[r], [row[acct[r]] EXCEPT !.verified = TRUE, !.verify = No])
    /\ Leave(r, "done")
    /\ UNCHANGED <<session, disturbed>>

\* /resend-verification, /send-otp, and the administrator's resend and code.
Resend(r) ==
    /\ at[r] = "idle"
    /\ \E a \in Account : ~row[a].verified /\ Named(r, a, "code")
    /\ UNCHANGED <<row, session, history, disturbed>>

CodeWrite(r) ==
    /\ at[r] = "code"
    /\ \/ \E a \in Bearer(r) : Write(a, [row[a] EXCEPT !.verify = r])
       \/ Bearer(r) = {} /\ UNCHANGED <<row, history>>
    /\ Leave(r, "done")
    /\ UNCHANGED <<session, disturbed>>

-----------------------------------------------------------------------------
\* Administrators.  A row is never removed, so what guardTargetUser has read of a plain
\* user still holds at the update that follows.

Exists(a) == row[a].email # "none"

Admin == UNCHANGED <<session, at, acct, disturbed>>

\* One account, or several of them not in the trash, or by Telegram id.
Block(a) == Exists(a) /\ Write(a, [row[a] EXCEPT !.blocked = TRUE]) /\ Admin

Unblock(a) == Exists(a) /\ Write(a, [row[a] EXCEPT !.blocked = FALSE]) /\ Admin

Trash(a) == Exists(a) /\ Write(a, [row[a] EXCEPT !.trashed = TRUE]) /\ Admin

RevokeCode(a) == Exists(a) /\ Write(a, [row[a] EXCEPT !.verify = No]) /\ Admin

\* POST /users/:id/restore: found in the trash, then updated by its id.
Restore(r) ==
    /\ at[r] = "idle"
    /\ \E a \in Account : row[a].trashed /\ Read(r, a, "restore")
    /\ UNCHANGED <<row, session, history, disturbed>>

RestoreWrite(r) ==
    /\ at[r] = "restore"
    /\ Write(acct[r], [row[acct[r]] EXCEPT !.trashed = FALSE, !.blocked = FALSE])
    /\ Leave(r, "done")
    /\ UNCHANGED <<session, disturbed>>

\* The bulk route restores in one statement.
BulkRestore(a) ==
    /\ row[a].trashed
    /\ Write(a, [row[a] EXCEPT !.trashed = FALSE, !.blocked = FALSE])
    /\ Admin

-----------------------------------------------------------------------------
\* The process stops in the middle of the handler, the statement fails, or the answer is
\* lost.
Drop(r) ==
    /\ r \in InFlight
    /\ Leave(r, "done")
    /\ disturbed' = disturbed \cup
          IF at[r] \in {"set-cookie", "clear-cookie"} THEN {by[r]} ELSE {}
    /\ held' = [held EXCEPT ![r] = No]
    /\ UNCHANGED <<row, jar, minted, by, left, history>>

Arrive(r, b) == Register(r, b) \/ Login(r, b) \/ Refresh(r, b) \/ Logout(r, b) \/ Erase(r, b)

Next ==
    \/ \E r \in Request, b \in Browser : Arrive(r, b)
    \/ \E r \in Request :
          \/ Create(r) \/ RegisterCode(r) \/ Issue(r) \/ SetCookie(r) \/ ClearCookie(r)
          \/ Find(r) \/ Compare(r) \/ Revoke(r) \/ LogoutWrite(r)
          \/ Profile(r) \/ ProfileWrite(r) \/ EraseWrite(r)
          \/ Forgot(r) \/ ForgotWrite(r) \/ Reset(r) \/ ResetWrite(r)
          \/ Verify(r) \/ VerifyWrite(r) \/ Resend(r) \/ CodeWrite(r)
          \/ Restore(r) \/ RestoreWrite(r) \/ Drop(r)
    \/ \E a \in Account : Block(a) \/ Unblock(a) \/ Trash(a) \/ RevokeCode(a) \/ BulkRestore(a)

Spec == Init /\ [][Next]_vars

-----------------------------------------------------------------------------
\* Properties

\* A blocked account gets no session, profile or erasure from a request that was not
\* already past its check when the account was blocked ("the existing requireAuth 403
\* immediately invalidates any outstanding access tokens").
BlockedOnlyAdmitted == \A r \in Request :
    at[r] \in {"issue", "profile", "erase"} /\ row[acct[r]].blocked => r \in admitted

\* An erased account stays blocked, and holds no personal data and no session: only a
\* request that had read the row before, or an administrator who re-opens the account, may
\* undo that.  A reset code, and the password it sets, come back only when someone names
\* the account's marker to /forgot-password.
ErasedHoldsNothing == \A a \in Account \ unsealed :
    row[a].email = "marker" =>
        /\ row[a].blocked /\ ~row[a].personal /\ row[a].digest = No
        /\ row[a].password \/ row[a].reset # No => a \in recalled

\* A refresh token or a mailed code that was rotated, redeemed, replaced, logged out,
\* revoked or erased is never accepted again: of two requests that redeem one secret,
\* each had read it before the other wrote.
SpentNeverRedeemed ==
    [][\A r \in Request :
          /\ at[r] = "compare" /\ at'[r] = "issue" => <<"digest", held[r]>> \notin spent
          /\ at[r] # "reset" /\ at'[r] = "reset" => <<"reset", row[acct'[r]].reset>> \notin spent
          /\ at[r] # "verify" /\ at'[r] = "verify" => <<"verify", row[acct'[r]].verify>> \notin spent]_vars

\* A browser whose requests did not overlap, whose answers arrived, and whose session no
\* other browser took over: between requests a cookie it holds is the live token, and an
\* answer clears it only if the browser logged out, erased the account, or asked for a
\* refresh when the account was blocked or the token expired.  Password resets, blocking
\* with unblocking, restores and failed requests never sign it out.
SoloKeepsSession == \A b \in Browser \ disturbed :
    /\ (jar[b] # No /\ ~\E r \in InFlight : by[r] = b) => Owner(jar[b]) # {}
    /\ \A r \in Request : at[r] = "clear-cookie" /\ by[r] = b => r \in left

\* "a second use of a consumed token can only be an attacker replaying a leaked cookie":
\* no cookie leaks here, so no session is revoked as replayed.
\* A claim the code does not keep (README, Disagreements).
RevokedOnlyOnReplay == \A r \in Request : at[r] # "revoke"

=============================================================================
