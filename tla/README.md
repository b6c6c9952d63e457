# TLA+ models and proofs for the quote site

This directory holds TLA+ modules that model the parts of the program where
several requests, webhooks, browser tabs or restarts meet, the TLC configurations
that check them, and eight modules of proofs that TLAPS checks. `PROJECT.json` is the index: runs,
mutants (plausible bugs each property must catch), the source lines each
definition models, hazards, findings and theorems.

    tlc -workers 2 -config QuoteModeration.cfg MCQuoteModeration
    tlapm AccountSessionsProofs.tla

## 1. The system

A monorepo: an Express + Socket.io + Prisma/PostgreSQL server with optional Redis
(`server/src`, where the core logic is), a Next.js site (`client/src`), two
Telegram bots reached by webhook, and e-mail through Resend or SMTP. One PM2
process runs the server. Handlers are `async`: Node.js runs one until its next
`await`, and whatever else is ready runs before it continues. So the interesting
interleavings are between `await`s, and every Prisma call is one atomic statement
unless it is an explicit transaction.

### Inventory

| component | state | operations | interacts with | what is hard | what makes it correct |
|---|---|---|---|---|---|
| Quote moderation, channel publication (`lib/quoteModeration.ts`, `routes/admin.ts`, `routes/telegram.ts`, `lib/adminCommands.ts`) | `Quote.status`, `awaitingRejection`, `deletedAt`, `telegramPostedAt` | approve/reject from panel, bulk route, buttons, replies, bot commands; manual post; archive, restore, delete | Telegram channel, author notices, read cache | seven entry points on one row; a publication claim held across network calls; restart | a decision takes effect once, one publisher, one notice per transition, a claim is undone by its owner only |
| Quote submission and feed (`routes/quotes.ts`) | quotes, likes, views | submit, like, unlike, read | moderation message | message id stored after the message is sent | trusted authors skip the queue, nobody else |
| Legal documents and consent (`lib/policies.ts`, `lib/policyImpact.ts`, `routes/adminPolicies.ts`, policy parts of `routes/telegram.ts`, `routes/auth.ts`) | `SitePolicy` rows, the `policies.<type>Version` setting, `acceptedTermsVersion` | create draft, edit, delete, approve, suggest, reject; baseline and drafts at startup; register, accept terms | panel, Telegram, startup | check-then-write everywhere; version number and served text are two pieces of state; startup half done | the version demanded is that of the text served; a published version stays; consent names a published version |
| Retries (`client/src/lib/api.ts`, `middleware/idempotency.ts`) | key and attempt of a call, access token; the server's memory of outcomes | send, give up, retry, refresh, replay, sweep | every mutating route | client timeout against a slow handler, lost answers, changed scope, restart, eviction | one execution unless the guard could not know; the replayed answer is the call's own; the memory is bounded; a call settles |
| Accounts and sessions (`routes/auth.ts`, `lib/tokens.ts`, `lib/verifyEmail.ts`, `middleware/auth.ts`, block and restore in `routes/admin.ts`, codes in `routes/adminEmails.ts`) | the `User` row: one refresh digest, reset and verification secrets, password, `blocked`, `deletedAt`; the cookie of each browser | register, login, refresh, logout, forgot, reset, verify, resend, profile, erase; block, unblock, trash, restore | every route | no transaction anywhere: two tabs refreshing, a login, logout, block or erasure against a request in flight; lost answers | a spent secret is never accepted, a blocked account gets nothing more, an erased one stays empty, an undisturbed browser stays signed in |
| Telegram quick login and phone (`routes/telegram.ts`, `routes/auth.ts`) | `TelegramQuickSession`, `User.telegramId`, the verification link, chat and code | start, bot confirmation, poll, consume; link, contact, code | bot and browser | three statements of the bot against polls, expiry and a second contact | one login per session; a confirmed session can be used; a phone is its owner's |
| Roles and permissions (`routes/admin.ts`, `middleware/adminAuth.ts`, `middleware/permissions.ts`, `app.ts`) | `User.role`, `roleOverride`, `blocked`, `deletedAt`, grant rows | set role, make admin, grant, block, trash, restore, bulk, promote by e-mail at login and startup, erase | sessions, bot commands | checks and writes in separate statements; one path only has a transaction | a super admin remains; a pinned role is not overwritten; a revoked right is not used |
| Read cache (`lib/redisCache.ts`, `lib/cache.ts`, `routes/catalog.ts`) | memory map, key registry, Redis | cached read, invalidate | catalogue, quote of the day | invalidation during a fetch, keys of an earlier process | stale only where no eviction reaches, and then at most for the time to live |
| Bots' settings (`lib/telegramSettings.ts`, `routes/adminTelegram.ts`, the panel's page) | settings row, 5 s copy | read, save, check a token, capture the channel, startup | all bots | a read in flight stores an old row; a check's verdict is for another token | the copy is the row but for a named race; a quiet save takes |
| Approvals and e-mail (`routes/admin.ts`, `routes/telegram.ts`, `lib/email.ts`, `routes/resendWebhook.ts`) | `isSuperApproved`, `EmailLog` | approve by panel, button, command; withdraw; send, record, webhook | provider | double approval; events before the row, late, again | one mail per reason; a bounce shows |
| Counters (`lib/analytics.ts`, `lib/views.ts`, `lib/bannerAnalytics.ts`, `components/BannerWrapper.tsx`) | Redis and memory counters, `DailyStat`, visitor marks; timer and refs of a slot | beacon, flush, shutdown; scroll, navigate, close | Redis, Postgres | two stores, two writes per flush, restart | a view counts once, and is not lost but for a named fault |
| Realtime (`socket/index.ts`, `lib/bus.ts`, `lib/realtime.ts`, `lib/admin-session.ts`, `AdminShell.tsx`) | connections and flags, bans, bus; the shared socket, menus, live log | connect, check, ban, forward, move between pages | panel | check before registration, snapshot against events, one socket for all | menus show the rights; a banned address is out; the log is complete |
| Admin pages (`components/admin/*`, `app/admin/*`) | list, filter, selection, busy flags of a page; the switches of the sub-admins | load, operate, reload; switch a permission | admin routes | answers out of order, stale closures, optimistic switches | the list is for the filter; a bulk acts on what was shown; a switch shows what is stored |
| Settings, content, banners, backup (`routes/admin.ts`, three forms) | `SiteSetting`, `ContentBlock` rows; drafts | edit, save, back up, restore | policy review | two editors, compare before write, half a save | an important change is reviewed; "saved" is stored |
| Feed (`routes/quotes.ts`, `app/HomeFeed.tsx`) | approved quotes; list, page, URL | fetch, filter, next, Back, shared link | cards | pages in flight for two URLs | the list is the first pages of what the URL asks |
| Quizzes (`routes/quizzes.ts`, `routes/adminQuizzes.ts`, `app/tests`) | quiz, results; form, tabs | compose, submit, moderate, take, review | users | index into an edited list; two tabs | the stored key is the marked one; nobody sees it early |
| Likes and collections (`routes/collections.ts`, `QuoteCard.tsx`, `profile/page.tsx`) | rows; cards, picker, list | like, collect, create, publish, delete | feed, profile | optimistic state, other tabs, lost answers | what is shown is stored |
| Sign-in of a tab (`lib/auth.tsx`, `lib/api.ts`, `app/login`) | token, user, renewal | bootstrap, log in and out, quick login, refresh | sessions | several flows write both | the tab shows the account of its token; signed out stays out |
| Composing (`QuoteForm.tsx`) | draft, tags, language | analyse, submit | feed | analysis against submission | tags and language are the draft's |
| Limits (`lib/rateLimit.ts`, `lib/socketRateLimit.ts`) | counters per address | count, refuse | all routes | window boundaries, stacked limiters | at most twice the limit; silence heals |
| Uploads, text analysis, health monitor, audit, configuration, static pages | files, logs | see `PROJECT.json` | | | best effort |

`PROJECT.json` lists each of them under `components` with its status, and under
`hazards` every place where a test would hardly reach, at its line, with the
property that covers it or the reason why none does.

## 2. The modules

| module | what it is |
|---|---|
| `QuoteModeration` | moderation and publication, one action per step between two awaits |
| `ModerationLedger` | the abstract promise: atomic decisions, one notice per transition |
| `PolicyPublishing` | one type of legal document from startup to consent |
| `RetryContract` | browser retries composed with the server's idempotency cache |
| `AccountSessions` | accounts behind one e-mail address and the sessions of several browsers |
| `AdminRoles` | who administers the site: roles, pins, grants, blocks, and every write to them |
| `TelegramLogin` | quick login and phone verification by the bot and the browser |
| `ReadCache` | cached reads in memory and Redis |
| `BotSettings` | the settings row of the bots and its copy |
| `Approvals` | the right to post and the e-mails it owes, to their fate |
| `Engagement` | page views, quote views and banner events from beacon to Postgres |
| `RateLimits` | the stacked fixed-window limiters |
| `AdminRealtime` | the socket layer and the administrator's live session |
| `AdminPanels` | the list pages of the console |
| `SubAdmins` | the page of switches over the sub-admins' permissions, and its routes |
| `SiteSettings` | settings, content and banner rows, their forms, backup and restore |
| `HomeFeed` | the public feed in the browser and its pages on the server |
| `Quizzes` | a quiz from its form to the results of its takers |
| `Collections` | likes and collections on cards of one quote |
| `BannerViews` | one banner slot: when a view counts, when it is hidden |
| `SignIn` | who a browser tab believes is signed in |
| `ProfilePage` | the form that composes a quote, and the list of collections |
| `QuoteModerationProofs` | safety theorems about `QuoteModeration`, and that it implements `ModerationLedger` |
| `AccountSessionsProofs` | safety theorems about `AccountSessions` |
| `AdminProofs` | safety theorems about `AdminRoles`, and about all five parts of `Admin` |
| `PolicyPublishingProofs` | safety theorems about `PolicyPublishing` |
| `RetryContractProofs` | safety theorems about `RetryContract` |
| `TelegramLoginProofs` | safety theorems about `TelegramLogin` |
| `BackgroundProofs` | safety theorems about `ReadCache`, and about the parts of `Background` |
| `Browser` | six modules of the visitor's side as one specification, for any constants |
| `Admin` | `AdminRealtime`, `AdminPanels`, `SubAdmins`, `Approvals`, `SiteSettings` likewise |
| `Background` | `BotSettings`, `Engagement`, `RateLimits` likewise |
| `BrowserProofs` | safety theorems about all six of its parts |
| `MC...` | model values, sets and symmetry for TLC; no definition of a model is replaced |
| `MCLiveness`, `MCBackground`, `MCAdmin`, `MCBrowser` | several modules in one run, see below |

Modules that share no state are checked in one run. `Browser`, `Admin` and `Background` take
each of theirs with `INSTANCE`, declare the union of their variables and one more, `part`: a
behaviour is of one part from its first state, and the variables the other parts would use
are `None`. They leave every constant open, so that theorems about them hold for any values;
`MCBrowser`, `MCAdmin` and `MCBackground` give the values for TLC. (`MCLiveness` extends
`ReadCache` and takes two more modules as instances; there the variables of the other parts
keep their initial values, in which their fair actions are not enabled.) So the states are
the sum and not the product of the parts, and a property reads `part = "feed" =>
Feed!FeedIsPrefix /\ ...`. Variables that two modules name alike (`job`, `faults`) serve one
part at a time. `ASSUME Feed!LimitAssumption` and the like check the constants. Symmetry
sets hold only model values that are interchangeable in every part; `MCBackground` has none.

### QuoteModeration

`status`, `awaiting`, `archived`, `stamp` are the columns. A `Request` is one HTTP
request or webhook update: `pc[r][q]` is the await it is suspended at for quote
`q`, `seen` and `tries` are the locals of `applyModerationDecision`. Entry points
(`PanelApprove`, `ButtonApprove`, `CommandApprove`, `PanelReject`, `CommandReject`,
`ButtonReject`, `Reply`, `PostManually`, `BulkModerate`) start a request; `Read`,
`Swap`, `SwapMissed` are the compare-and-swap loop; `Announce` tells the author
(only the request that moved the row); `Claim`, `Send...`, `Mark...`, `Release`
publish. `BulkModerate` runs a loop per quote and `BulkAnnounce` is enabled when
all have returned, as `Promise.all` is; `BulkScan` is the later read that finds
approved, unposted quotes. `Archive`, `Restore`, `HardDelete` and the bulk forms
change the row from outside. Faults: `SendUnanswered` (posted, the answer lost or
after the 8 second abort), `MarkThrows`, `ReleaseThrows`, `ThrowInLoop`,
`ThrowInHandler` (a failed database call), `Crash` (restart).

Abstractions: decisions carry no reason text; the `Date` written as a claim is the
id of the request that wrote it (two claims in the same millisecond are told
apart); reads that decide only a 404 are merged with the write that follows, which
is by id; message editing, audit rows and cache invalidation are left out. `posts`,
`notices`, `flips`, `slips` are history variables: what happened in the channel and
to the authors, which the program keeps nowhere.

`LedgerSpec` is the refinement: a request at `won` owes a notice, `notices` are the
notices given. Requests that read the same status twice, lose their swap, retry or
give up must all be stuttering steps of the ledger.

### PolicyPublishing

`state` (`isApproved` and existence), `version`, `text`, `issued` (`publishedAt`)
per row, `setting` for the version key, `accepted` for the consent of a user, `boot`
for the progress of `startServer`. Handlers are split at their awaits: `CheckNoDraft`,
`ReadBase`, `ReadTaken`, `ReadPublished`, `Create` for a new draft; a read
(`EditDraft`, `DeleteDraft`, `PanelApprove`, `ButtonApprove`, ...) and later a write
by id for the others; `WriteReason`, `ReadForApproval`, `Publish` for an approval.
`Boot` actions are `tryEnsurePolicyBaseline` and `tryEnsurePolicyDrafts`. A failed
read of the published version answers with the template version (`ReadVersion`).
Versions "M.m" are the number 10M + m, on which `nextVersion` is + 1; `clock` stands
for `new Date()`. `races` records which overlaps occurred, so that a property can
say exactly what it excuses.

### RetryContract

The client half has one record per `api()` call: `phase`, `attempt`, `refreshed`, and
the shared `token`; the server half has the attempts in handlers (`running`) and the
`cache`, a sequence because the Map's insertion order decides what is swept. `wire`
and `answers` are sets: messages arrive in any order, late or never. An abandoned
attempt stays on the wire or in its handler. An answer is taken in two steps: `Receive`
takes its headers, which ends the 15 second limit, and `Read` its body; `Stall` is a body
that stops arriving in between, for which the client sets no limit. `cookie` holds the
calls of routes whose success sets or clears a cookie (`/login`, `/register`,
`/telegram/quick/status`, `/logout`, ...): they carry a key like any other, and
`SucceedWithCookie` answers them without remembering the outcome, as the guard does.
`excuses` counts, per call, the events after which a second execution is all that can be
expected. A route handler is abstracted to one commit and, after another await, its answer.

### AccountSessions

`row[a]` is the `User` row, one per account that ever had the address; `jar[b]` is the
refresh cookie of browser `b`, shared by its tabs; `minted` says whose access tokens are
around. Every route of `routes/auth.ts` on such an account is split at its Prisma calls:
`at[r]` is the next statement of request `r`, `acct[r]` the row it has read, `held[r]` the
cookie it carried. `Refresh`, `Find`, `Compare`, then `Issue` or `Revoke`, then `SetCookie`
or `ClearCookie` are `/refresh`; `Login` joins at `Issue`, `Register` passes through
`Create` and `RegisterCode`; `Logout`/`LogoutWrite`, `Profile`/`ProfileWrite`,
`Erase`/`EraseWrite`, `Forgot`/`ForgotWrite`, `Reset`/`ResetWrite`, `Verify`/`VerifyWrite`,
`Resend`/`CodeWrite` are a read and the update that follows it whatever has happened
between. Statements that name a row by its address (`RegisterCode`, `ForgotWrite`,
`CodeWrite`) write to the row that has it by then, as `where: { email }` does (`Bearer`). An
erased account keeps an address too, its marker `deleted-<id>@deleted.local`, and anybody
may type that into `/login`, `/forgot-password` or `/resend-verification` (`Named`): a reset
code may thus be written to an erased row, and a password with that code; `recalled` names
those rows. `Drop` ends a request anywhere: a failed statement, a restart, a lost answer.

Abstractions: a secret (refresh token, reset code, verification code) is named by the
request that generated it; the link and the digits of one mail are one code; expiry is a
refusal that is always possible, and an access token never expires, which only adds
behaviours. The cookie travels as in a same-origin deployment. Operations of an
administrator are one action: rows are never removed, and roles are left to `AdminRoles`,
so what their read checked still holds at the update. One address is modelled besides the
markers: accounts with different addresses share no statement. `spent`, `admitted`,
`unsealed`, `recalled`, `left`, `disturbed` are history variables: which secrets have left
a row, which requests were past their read at a block, which erased rows were re-opened and
by what right, which were sent a reset code by their marker, which requests meant to end
the session or found the account blocked or the token expired, and which browsers
overlapped, lost an answer or were unseated. They let a property say exactly what it
excuses: `SoloKeepsSession` says both that a cookie which is held is the live token and that
an answer clears it only for a request in `left`. One is unavoidable in this code: a request that
had read the row may still write to it, so a `PATCH /me` in flight does put personal
data back into an account erased meanwhile.

### AdminRoles

`role`, `pin` (`roleOverride`), `blocked`, `trashed` and `email` are columns of `User`,
`withheld` the grant rows that switch `canManageUsers` off, `listed` the address lists of
the running process. A panel request is `Admit` (`requireAdmin`), `Permit` or `PermitTop`,
`ReadTarget` or `ReadBulk`, then one write: `SetRole`, `DemoteSuper` (the one serializable
transaction), `MakeAdmin`, `SetPermissions`, `Block`, `Trash`, ... . `Command` is the bot,
which comes straight to its write. `checkPermission` reads the role (`Permit`) and then the
grant row (`ReadGrants`), in which the role is no longer looked at. `Enter`/`Promote` are a
login or upgrade, which computes the role from the row it has read; `Erase` is
self-deletion; `Restart` takes new lists and promotes. `overtaken` names the accounts a stale
computation wrote to and `admitted` the requests past a check when the right it had read
was lost: what the properties excuse.

### TelegramLogin

`row[u]` holds the columns the bot writes, `session[s]` status and account of a
`TelegramQuickSession`, `late` the expired ones. `QuickStart`, `Claim`, `FindUser`,
`CreateUser`, `Attach` are `/start quick_<id>`; `Poll`, `ReadUser`, `Consume`, `Pay` a
status poll; `VerifyStart`, `NoteChat` and `Contact`, `CheckLinked`, `LinkChat` the link and
the shared contact; `AskLink`/`IssueLink`, `TypeCode`/`Redeem`, `AskErase`/`Erase` the
profile. `Fail` ends a handler between any two statements. A chat stands for the account
and the phone behind it; digits of a code are the number of the code; rate limits of the
bot are left out.

### ReadCache

One key for each prefix (`catalog:`, `qotd:`), of which a copy is `none`, `fresh` or
`stale`: what was stored matters only as far as it still agrees with the rows. `Miss`,
`FromRedis`, `Fetch`, `Store`, `SetRedis` are `cachedGet`, `Commit`, `Evict`, `DelRedis` a write and
its invalidation, by operation: `Touches(o)` are the keys whose rows it changes, `Evicts(o)`
those the handler invalidates. Ten kinds of write are told apart, with those that invalidate
nothing: tags that a quote waiting for its decision creates (`submit`), likes, views and the
premium flag of an author, which the quote of the day shows, the categories seeded at
startup and a restored backup; `Exempt(o)` names the keys left alone. Redis may refuse any
command (`GET`, `SET`, `DEL`), which `redisCache.ts` swallows. `tracked[p]` is the process's
key registry, emptied by `Restart`. `missed` says which stale copies no eviction could
reach; it is set where the copy is stored, the write commits, the DEL is refused or the
registry forgets, never where the property is stated.

### BotSettings

`seen` is the part of the row handlers act on, `of[b]` the token that bot's stored status is
for, `cache` the five second copy. `Read` fills the copy; `Put`, `Save`, `Saved`, `Check`, `Marked`
are a save with its comparison against the copy and the `getMe` that follows; `Refresh` the
check button; `Learn`/`Capture` the channel learnt from a webhook; `Restart` the values of
the environment and a check for each bot. `late` and `quiet` are history.

### Approvals

`AskApprove` (panel, button, command), `Grant`, `Tell` give the right and mail the user;
`Unapprove`, `Trash` are others at work. `mail[m]` follows one mail: `Accept`, `Answered` or
`GivesUp` (after eight seconds), `Record` writes the row. `fate[m]` is what the provider
decides, `Post`, `Update`, `Reply`, `HookFails` its events, early, late, again or out of
order. `due` counts the reasons for a mail, `excused` the mails whose bounce cannot show.

### Engagement

`day[s]` are the page counters in Redis and in memory with the part already folded, `daily`
the row, `win` the marks and totals of quote views and banner events. A beacon is
`MarkPage`, `CountVisitor` or `MarkWindow`, `Increment`; the flush is `ReadCounters`, `Apply`,
`MarkFolded`; `Shutdown` waits for a flush and `Exit` closes, `Crash` forgets. `views`,
`viewers`, `due` are what browsers did; `blame` the events after which the counters may
differ, each set by the fault that causes it. One day is modelled: a new day starts new keys.

### RateLimits

`Chain` is the list of limiters in front of a route, outermost first, as `app.ts` stacks
them; `entry[l][a]` is the count and the start of a window, `reached[l][a][t]` how many
requests have passed by tick `t` (the history the properties speak of: a span's requests are
a difference). `Request` passes them in order and stops at the first refusal, having been
counted by those before. Limits and windows are scaled down but keep their order.

### AdminRealtime

The server's half: `Connect`, `BanCheck`, `Open`, `Flag` are a handshake and the read that
flags an administrator's socket, `bus` the events not yet handed out, `Forward` their
delivery to bans and sockets. The browser's half: the shared socket, the listener of the
shell, `load` (requests for `/admin/me`), and the log page with its snapshot and its live
entries. `Move` between pages closes the shared socket where the code does. `excuse` names
lost or overtaking events.

### AdminPanels

Seventeen pages have the same shape, so a page is a record of traits: has it a filter, is
its list made of two reads, does a load raise the busy flag, which operations does it
offer, and for each what switches its button off, which flag it raises and what follows
its answer. `StartLoad`, `Read`, `ApplyLoad` and `Act`, `Execute`, `AnswerAct` are the requests. A
request given up after its 15 seconds is `late` and may still be executed. The page of the
categories loads the public list, which the server caches for five minutes and evicts
without waiting: there `copy` is the cached list, `Visit` a visitor who fills it, `ReadCopy` a
load it answers, and `Survives` an eviction that misses it. What a row looks like is left out.

### SubAdmins

`grants[a][k]` is the grant row of a sub-admin and a feature or none, `Effective` what the
defaults and the rows come to; a value that is the default needs no row. `Toggle` turns the
switch on the screen and sends the call, `Commit` and `Reread` are the handler, `Answer`
replaces the row of the sub-admin on the screen, `Fail` brings back the whole list as the
click found it. One busy key serves all switches, so calls overlap. `seen`, `missed` and
`why` say which answer a row on the screen is from and what may have been written since.

### SiteSettings

Three families of rows with three ways to save them: all settings in one transaction
(`Compare`, `WriteSettings`, `Review`), one request per content block, one tab of banner rows
written one at a time (`WriteBlock`). `draft` and `saved` are the two copies a form keeps;
`CreateBackup`, `Restore` replace rows from behind. A value is not always stored as typed:
`Unfit` are the rows and values that are corrected to `Fit`, by the page (`Sent`: trimmed
settings, `feed.every`) or by the server (`Sanitised`: HTML and addresses of a banner, when
they are stored and when they are served). A save takes effect when it is written; the
review comes after it and may be lost, when the server stops, when `runPolicyImpactReview`
swallows an error, or because a restore asks for none (`lost`). A request the form has given
up goes on at the server as the job of nobody (`GiveUp`, `job[None]`). `slipped`, `overtaken`,
`lost`, `excused` are history.

### HomeFeed

A quote is its rank, a filter selects quotes. `url`, `past`, `clearing`, `starting` are the address
bar and the two effects that answer to it; `req`, `newest` the fetches with `requestIdRef`; `list`,
`total`, `loading`, `error`, `game` the page's state. A visitor may enter at any page of
`EntryPage`, of which the list then holds nothing before (`odd` records it). The order of a filter
in `Popular` depends on `score`, the likes or views, which `Scores` changes. `StartReading` and
`Answer` are the two reads of the server, page and count, which run side by side: either may
be first, and the collection may change between them (`made` holds the stamps of both).
`Arrive` applies the answer, `Fail`, `Hang`, `Watchdog`, `Retry` are its troubles; `Approve`,
`Archive`, `Restore`, `Erase` change the collection between two pages.

### Quizzes

`draft` is the question in the form with its `correctIndex`, `marked` the option that was
meant. `RemoveOption` keeps the index as the code does. `Consider` reads, `Approve`,
`Reject`, `Delete` write, by two administrators; `Browse`, `Open`, `Answer`, `Grade`,
`Store` are a tab of a taker.

### Collections

`liked`, `others`, `col` are rows; `shown`, `picker`, `overrides` the optimistic state of each card.
A click, the server's work and the answer are three steps (`ToggleLike`, `ServeLike`,
`AnswerLike`, and so on), `Lost` forgets an answer, and what was not carried out by then may
be later (`late`, `ServeLate`). The picker has no busy flag: `OpenPicker` empties it and asks
for the member's collections whatever is under way, so several requests (`lists`) may be
in flight and each `ArriveLists` replaces the list with what was read, perhaps before a
removal that has been answered since. `astray`, `drifted`, `excused`, `outdated` say what
changed elsewhere or since the list was read. Publishing a collection is in `ProfilePage`.

### BannerViews

The observer's callback (`Observe`), the one-second timer (`Viewed`), the effect that reads the
dismissal (`Check`) and the fade (`Faded`) run later than what causes them; `visibleRef`,
`viewedPath` and the timer are the refs of the component. The banner is hidden first and its
dismissal stored afterwards, and the storage may refuse: `Faded` stores it or does not,
`Check` is `Read` or `ReadFails`. The storage is shared by the tabs: `OtherTab` closes the banner
there, or shows another content of it and purges this one's dismissal. `lapsed` records what
hides a banner without a dismissal.

### SignIn

`token` is the token store, `user` the state of `AuthProvider`. `flow` holds the calls under
way (bootstrap, login, `refresh()`, an action, two quick logins), `renewal` the shared
refresh. The cookie belongs to the browser, so `OtherTabSignsIn` changes it. `why` names what
may have torn user and token apart, `out` that the visitor signed out.

### ProfilePage

The two tabs of the profile that hold state: the form (text, hashtags, language, an
analysis and a submission under way) and the list of collections with its requests.
`drafts` numbers the drafts, so a hashtag knows which draft it was found for.

## 3. What is checked

Every passing run finishes without an error; each of its properties is broken by the
mutant listed for it.

| run | bounds | asks |
|---|---|---|
| `QuoteModeration` | 1 quote, 3 requests, `CAS_ATTEMPTS` 2, 1 fault | are decisions and publication exclusive, and does moderation implement the ledger |
| `PolicyPublishing` | 4 rows, 4 requests, 1 user, 2 texts, 1 fault | do documents, version and consent stay related |
| `RetryContract` | 2 calls, 1 retry, 2 addresses, cache of 2, 1 refresh, 1 fault | when may a repeat execute |
| `AccountSessions` | 2 accounts, 2 browsers, 4 requests, of which the first has registered (`InUse`) | secrets, blocks, erasures and undisturbed sessions |
| `AdminRoles` | 2 users, 2 requests, lists that disagree about the second, 1 restart | who keeps, gets and loses the right to administer |
| `TelegramLogin` | 2 chats, 2 profiles, 1 session, 2 handlers at once, 2 codes, 1 link, 1 fault | do a login and a verification pay out once and to their owner |
| `Liveness` | 1 quote and 2 requests; 1 call and 2 retries; 1 process, 2 requests, 1 change, 1 restart | what must happen in the end |
| `Background` | bots: 1 page, 1 webhook, 2 tokens, 2 saves or restarts; counters: 2 visitors, 2 requests, 2 beacons, 1 fault, 1 stop; limits: 1 address, 6 limiters, 5 requests, 4 ticks | what runs beside the requests |
| `Admin` | realtime: 2 sockets, 2 loads, 2 changes, 1 entry, 1 ban, 1 move, 1 fault; panels: 2 rows, 2 filters, 2 requests at once, 3 in all, 1 fault, a cached list; switches: 2 sub-admins, 2 features, 2 calls at once, 3 clicks, 1 change elsewhere, 1 fault; approvals: 1 user, 2 requests, 1 mail, 2 webhook calls, 1 event again; settings: 2 editors, 3 rows of which two do not keep one of the 2 values, 2 edits, 2 saves, 1 fault | the administrator's side |
| `Browser` | feed: 3 quotes, 2 filters, one by score, 2 pages to enter at, 2 fetches, 2 moves, the opening of a link among them, 1 trouble; quiz: 3 options, 5 edits, 2 decisions, 2 attempts; cards: 2 cards, 1 collection, 1 list under way, 1 other like, 1 lost answer or withdrawal; banner: 3 pages, 3 contents; sign-in: 2 accounts, 5 changes, 2 faults; profile: 2 texts, 2 collections, 6 clicks, 1 fault | the visitor's side |
| `KeyIsMarked`, `RejectedQuotePosted` | as `Browser`'s quiz, as `QuoteModeration` with 2 requests | two sentences of the source that are not kept |

A property such as `FeedCorrect` or `RolesHold` is the conjunction of the type invariant of a
module and of the properties stated, each with its comment, in that module:

| property | parts |
|---|---|
| `RolesHold` | `PinnedRoleHolds`, `RevokedOnlyAdmitted` |
| `DraftsSound` | `OneOpenDraft` |
| `LoginsExplained`, `ProfilesHold` | `OneTokenPerSession`, `StuckExplained`; `PhoneProved`, `ErasedStaysBare` |
| `CacheSound` | `CacheBounded` |
| `CopiesExplained` | `StaleExplained` |
| `BotsCorrect` | `CopyExplained`, `QuietSaveTakes` |
| `ViewsCorrect` | `CountedOnce`, `NothingLost`, `OncePerWindow`, `TodayIsLive` |
| `LimitsCorrect` | `AtMostTwice`, `SilenceHeals` |
| `RealtimeCorrect` | `MenusExplained`, `BannedIsOut`, `LogComplete` |
| `PanelsCorrect` | `ListExplained`, `SelectionShown`, `OneAtATime`; `SwitchesExplained` |
| `ApprovalsCorrect` | `MailsExplained`, `BounceShown` |
| `SettingsCorrect` | `ReviewExplained`, `CleanExplained` |
| `FeedCorrect` | `FeedIsPrefix`, `LoadingWatched` |
| `QuizzesCorrect` | `KeyExplained`, `ReviewExplained`, `KeyIsEarned` |
| `CardsCorrect` | `LikeShown`, `MemberExplained` |
| `BannerCorrect` | `ViewExplained`, `OnceAPage`, `HiddenExplained` |
| `SignInCorrect` | `SessionExplained`, `LogoutHolds`, `OneLoopAVisit` |
| `ProfileCorrect` | `TagsOfDraft`, `ChosenLanguageKept`, `ListExplained` |

Many of these properties have the form "this holds, unless one of these things happened".
The exceptions are history variables, set in the action of the code that causes them and
nowhere else, so each such property says completely which races, lost answers and faults
the code is exposed to: take one exception away and TLC shows the behaviour.

Why the bounds are enough to be interesting: three requests are two that compete and one
that undoes the decision between them, and with two attempts a loop loses its swap, reads
again, and also gives up. The code's 3 attempts (`quoteModeration.ts:36`) add a round of the
same kind, and the proofs cover every value. Four policy rows are the baseline, two drafts
that race and a replacement; a cache of two is full after one entry, so every later success
sweeps. `MaxFaults` bounds crashes, failed calls and lost answers that matter; lost messages
of `RetryContract` are unbounded, and so are the faults of `AccountSessions`. That run
starts after one registration (`InUse`, a state the specification reaches) to leave three
requests for what can go wrong between them: two that race and one that issues, blocks or
erases. The proofs start from the empty table and need no bound. The bulk route of
`QuoteModeration` is checked with a single quote; with several, its joins and scans are
covered by the proofs. `AdminRoles` needs two users so that each can be the last or the
other super administrator, `TelegramLogin` two chats so that a phone can be somebody else's.
Two requests at once are what the browser modules need for one answer to overtake another.

The properties of some modules were also checked, outside the runs, on instances too large
for them: `Quizzes` with 7 edits, 3 decisions and 3 attempts, `ProfilePage` with 7 clicks and
2 faults, `RateLimits` with 5 ticks and 6 requests, `Approvals` with 4 grants, and with 3 and
2 repeated events, `Engagement` with 3 beacons and 2 faults, and `AdminRealtime` with one more
change, entry, fault or ban. The inductive invariants of section 4 were checked on the
instances of their runs before they were proved.

`CHECK_DEADLOCK FALSE` is set because each request or call is used once, and what people do is
bounded: when all is done nothing is left to happen.

### Fairness

Only the run `Liveness` assumes fairness, and only what the program schedules itself:

* `QuoteModeration`: weak fairness of the continuations of a request (`Step`, `BulkStep`).
  Telegram calls are aborted after 8 seconds, Prisma calls end by their pool and statement
  timeouts, and the event loop runs every settled continuation. Nothing obliges people,
  Telegram or faults to act.
* `RetryContract`: of the client only; `fetch` and the refresh are aborted after 15 seconds, and
  a body that does not stall is read. Nothing is assumed of the network or of the server, nor
  that a stalled body goes on: `CallSettles` ends in an outcome or in that wait.
* `ReadCache`: of the steps of requests and of the end of a time to live.

All other properties are safety properties and assume nothing.

### Disagreements between the code and its comments

Two runs check a sentence of the source that the program does not keep:

* `RejectedQuotePosted` - a quote is posted while it stands rejected: the status is
  read before an awaited publish.
* `KeyIsMarked` - the form asks to mark the correct answer, but removing an option above
  the marked one moves the mark to another answer, which is stored and graded.

Others are stated as formulas in the modules (marked there "A claim the code does not
keep"); each is false, and can be given to TLC as an invariant or property to see the
behaviour:

* `QuoteModeration`, `ClaimNeverOrphaned` - after a restart, or a failing release, between
  claim and stamp, the claim stays for ever and later approvals are suppressed.
* `PolicyPublishing`, `HistoryKept` - an edit or delete that read a draft lands on the
  approved document.
* `PolicyPublishing`, `CurrentIsServed` - two approvals commit in the other order than they
  took `publishedAt`: the version users must accept is not the text they are shown.
* `RetryContract`, `OneExecution` - a retry that arrives while the first attempt is in its
  handler executes it again, and so does one after the lost answer of a login or registration,
  whose outcome is not remembered because it sets a cookie.
* `AccountSessions`, `RevokedOnlyOnReplay` - a login, or the refresh of another tab, between
  the two reads of a refresh is taken for the replay of a consumed token, and the new session
  is revoked.
* `AdminRoles`, `NeverRestored` - a login that read the row before a demotion writes the
  role the address list gives over the pinned one.
* `Engagement`, `GuardSuffices` - a shutdown during the interval's flush returns at once
  because of the guard; what that flush has applied but not marked is applied again after
  the restart.
* `RateLimits`, `SlidingWindow` and `TrustedNeverThrottled` - the windows are fixed, and the
  limiter of the whole API counts trusted roles as well.
* `AdminRealtime`, `MenusRegate` - leaving the dashboard closes the socket on which the shell
  listens for changes of permissions.
* `SiteSettings`, `SavedMeansStored` - saving one tab of the banner page marks the other tabs
  as saved.
* `HomeFeed`, `TrashIsHidden` - an archived quote stays in the feed and is hidden at its own
  address only.
* `Collections`, `InSync` - a removal deletes the override only, and an old preview then shows
  the quote as collected.
* `BannerViews`, `EveryViewCounts` - leaving a page clears the pending timeout but keeps its
  handle, so the next page takes it for a running timer and counts no view.

Six are plain readings with no formula: the "hard cap for every request" of `api.ts:52` ends
with the headers, and a body that stalls after them keeps the call waiting (`Stall`); the
CORS configuration does not name the idempotency header; a cross-origin login drops the
refresh cookie; a rejection reason is not given to the author of a quiz; values of the
environment are put into columns that the panel has emptied; a late `sent` event overwrites
what is known of a mail. `findings` in `PROJECT.json` quotes the lines.

Two properties were false as first stated, though TLC had found nothing on the instances of
their runs; attempts to prove them showed why, and TLC confirmed both on larger instances:

* `AdminRoles`, `SuperAdminRemains` - a login that has read the row before writes the role of
  the address list over a pin, and makes its account a super admin whose pin says otherwise.
  The other super admin may now be demoted, as the count sees one more. The next login of the
  first gives him back the role of his pin, with no count: no super admin remains (4 requests).
  `Realigned` names that login.
* `TelegramLogin`, `ErasedStaysBare` - of two erasures asked together, the first is overtaken by
  the issue of a link, a shared contact finds that link, and the second erasure clears the row
  before the contact's chat is written to it: an erased profile is linked (3 handlers at once).
  The history variable `overtaken` was wrongly reset by the second erasure.

## 4. What is proved

`QuoteModerationProofs` proves, for every finite or infinite set of quotes and
requests, every `CAS_ATTEMPTS >= 1` and every number of faults
(`CasAttemptsAssumption`, `MaxFaultsAssumption`, `StampAssumption`):

| theorem | statement |
|---|---|
| `TypeCorrect` | `Spec => []TypeOK` |
| `Inductive` | `Spec => []IInv` |
| `PublicationIsExclusive` | `Spec => []OnePublisher` |
| `CopiesAreExplained` | `Spec => []DuplicatesExplained` |
| `DecisionsTakeTurns` | `Spec => []DecisionsAlternate` |
| `ClaimsAreReleasedByTheirHolder` | `Spec => ReleaseUndoesOwnClaim` |

`OnePublisher` is not inductive: a request could claim a quote that another is still
publishing if the column could be null meanwhile. `ClaimsHeld` (while a request
publishes the column is not null, or the row is gone) excludes it, and needs
`OnePublisher` in turn, since a release must not take away another request's stamp.
`DuplicatesExplained` needs `CopiesCounted`: the one unexplained copy exists only
while the column says so. `DecisionsAlternate` needs `TurnsTaken` (the status tells
whose turn it is) and `LocalsSound` (a request about to swap read a decision other
than its own). The proof has one lemma per group of actions: type preservation,
the actions that leave publication alone (`Quiet`), then `Claim`, `Send...`,
`Mark...` and `Release` one by one, then `Swap`, the only action that flips.

Its second half proves, from the same assumptions, that `QuoteModeration` implements
`ModerationLedger`:

| theorem | statement |
|---|---|
| `ModerationImplementsLedger` | `Spec => LedgerSpec` |
| `NoticesFollowFlips` | `Spec => []OneNoticePerFlip` |

A step is sorted by what the ledger sees of it: `Swap` is `Decide`, an announcement is
`Tell`, submission, archiving and deletion are themselves, and everything else, faults
included, is silent: it may forget a notice that is owed (a request that dies) but never
invent one. `OneNoticePerFlip` needs `Accounted`: notices given plus notices owed are at
most the transitions, where the notices owed are counted by a set that starts empty, grows
by one at a `Swap`, and so stays finite for any `Request`.

`AccountSessionsProofs` proves, from `NoAssumption` (SQL null is not a request, account or
browser) alone:

| theorem | statement |
|---|---|
| `Inductive` | `Spec => []IInv` |
| `TypeCorrect` | `Spec => []TypeOK` |
| `BlockingIsImmediate` | `Spec => []BlockedOnlyAdmitted` |
| `ErasureLasts` | `Spec => []ErasedHoldsNothing` |
| `UndisturbedSessionsLast` | `Spec => []SoloKeepsSession` |
| `SpentStaysSpent` | `Spec => SpentNeverRedeemed` |

The strengthening has one part per hazard. `Secrets`: a secret is in at most one row, or
spent, or its request has not written it yet; without the last, a token might be written
again after it was spent. `Sealed`: besides being empty, an erased row has been read by
nobody who could still write to it; that is what `unsealed` excuses, no more, and what has
been asked for by its marker is told of in `recalled`. `Guarded`
extends the check of `blocked` to the statements between the check and the effect.
`Alone`: the token of an undisturbed browser is live until its one request has replaced
or dropped it, and the request drops it only when it is in `left`; it needs `Cookies`, that
a token is held by the browser it was given to, to see that any other browser's write unseats
it. Steps are of three kinds: those that
write to no row (`Reads`), those that do (`Writes`, for which `WriteKeeps` states once
what a single UPDATE must respect), and administrators.

The last section of `AdminProofs` proves, from `ListingsAssumption` (there is a list, lists
name roles, SQL null and the bot are nobody), for any accounts, requests, lists and
restarts:

| theorem | statement |
|---|---|
| `Inductive` | `Spec => []IInv` |
| `RolesAndRightsHold` | `Spec => []RolesHold` |
| `ASuperAdminRemains` | `Spec => SuperAdminRemains` |

`RolesHold` needs only `LocalsSound`: what a request wants or has read is a role, and who
makes an administrator has read a plain user. For `RevokedOnlyAdmitted`, `EnterRights` and
`CheckRights` show that a request moves on only with the right its next statement needs, and
`WatchKeeps`, once for all writes, that whoever loses that right between two statements is
in `admitted`. The action property looks at the only writes to `role`: `DemoteSuper` counts
another super administrator in its own transaction; `SetRole`, `MakeAdmin` and `Promote`
lose one only when the role they read is not the row's any more (`Outdated`), or when role
and pin differ (`Realigned`), as `PinnedRoleHolds` says that otherwise a promotion computes
what is pinned.

`PolicyPublishingProofs` proves, from `TextAssumption`, `PolicyNullsAssumption` and
`PolicyFaultsAssumption`, for any set of rows, requests, users and texts:

| theorem | statement |
|---|---|
| `Inductive` | `Spec => []IInv` |
| `DraftsAreSound` | `Spec => []DraftsSound` |
| `TheServedVersionIsDemanded` | `Spec => []ServedIsCurrent` |
| `SettingsNamePublications` | `Spec => []SettingNamesAPublication` |
| `ConsentsNamePublications` | `Spec => []ConsentWasPublished` |
| `ApprovalIsLasting` | `Spec => NeverUnpublished` |

`ServedIsCurrent` speaks of the approved row with the latest publication, so it needs that a
commit gives its row the latest time: while no marked overlap happened, one approval at a time
stands before its commit and its `publishedAt` is later than every row's (`InOrder`). Startup
writes rows as well, hence the cases of `boot`, and `StartsAlone` keeps the handlers out until
the server listens. `OneOpenDraft` needs `OneDrafter`, which follows a draft from the check to
the insertion. `Numbers` and `Offers` tie numbers held by handlers to what has been
published. `NextFreeIsFree` says what the search for a version returns: the least
number above the base that no row has, which exists as the rows in use are finitely many.

`RetryContractProofs` proves, from `RetryAssumption`, `EntriesAssumption` (a cache of at
least 2; the code's holds 5000), `RetryBoundsAssumption` and `IpAssumption`, for any number
of calls, addresses, retries, tokens and faults:

| theorem | statement |
|---|---|
| `Inductive` | `Spec => []IInv` |
| `ExecutesOnceUnlessExcused` | `Spec => []OnceUnlessExcused` |
| `SuccessIsNotAnothers` | `Spec => []SuccessMeansExecuted` |
| `CacheIsBounded` | `Spec => []CacheSound` |

The argument is one inequality per call, `Covered`: executions done, plus attempts in a
handler that have not committed, plus one if the guard would not recognise the call now, are
at most one more than its excuses. To let an attempt through without an excuse spends the
one; whatever makes the guard forget (sweep, eviction, age, restart, changed scope) is an
excuse. It needs `Owned` (every remembered outcome is under its call's one key) and that the
attempts in handlers are finitely many. `KeptHolds` says what a sweep leaves: a shorter
sequence with no entry but the old ones. The module defines it by a fold (`Kept`);
`MCRetryContract` has TLC compare it with `SelectSeq`, which the provers cannot expand.

`TelegramLoginProofs` proves, from `TelegramAssumption` (the bounds are numbers, SQL null is
nobody), for any chats, profiles, sessions and handlers:

| theorem | statement |
|---|---|
| `Inductive` | `Spec => []IInv` |
| `LoginsAreExplained` | `Spec => []LoginsExplained` |
| `ProfilesAreSound` | `Spec => []ProfilesHold` |

`PaymentsFit` follows the deleted session: who is about to pay has deleted it, nobody else has
and nobody has paid. For profiles, `RowsFit` says that a stored code went to the linked chat,
`ProfilesFit` that a verified profile has no open link and an erased one nothing at all
unless a handler overtook another, and `ReadsFit` carries that over from the read of a handler
to its write.

The first section of `BackgroundProofs` proves, from `ReadCacheAssumption`, for any number
of processes, requests, changes and restarts and whatever operations change and evict:

| theorem | statement |
|---|---|
| `Inductive` | `Spec => []IInv` |
| `StaleCopiesAreExplained` | `Spec => []CopiesExplained` |

An eviction reaches the keys its process tracks, so the invariant follows the registry: a copy
in memory that is not tracked is missed (`UntrackedAreMissed`), and one in Redis is
tracked by every process, is being deleted, or is missed (`RedisIsTracked`); a process
that lost Redis leaves everything in it missed (`LostAreMissed`), since its evictions no longer
go there.

`BrowserProofs` proves, from `FeedAssumption` (a page holds at least one quote; what is
approved at the start and what a link shares are quotes, and the pages of an address are
counted from 1), `ProfileAssumption` (the form starts with a language there is, the analysis
finds hashtags and a language there are, hashtags are finitely many), `LibraryAssumption`
(the likes of others and the lost answers have a bound) and `NullsAssumption` (null is not
an account, a quiz, a verdict, a collection or a privacy), the six properties of the run
`Browser` for any constants of `Browser`:

| theorem | statement |
|---|---|
| `FeedHolds` | `Spec => []FeedCorrect` |
| `BannerHolds` | `Spec => []BannerCorrect` |
| `QuizzesHold` | `Spec => []QuizzesCorrect` |
| `SignInHolds` | `Spec => []SignInCorrect` |
| `ProfileHolds` | `Spec => []ProfileCorrect` |
| `CardsHold` | `Spec => []CardsCorrect` |

Each has an inductive invariant of its part: a step of `Browser` with `part = "signin"` is a
step of `SignIn` (`SignInMoves`), so the rest of the proof is about that module alone.
`FeedIInv` says that the list holds the pages before the one under way (`ListGrows`): a
later page is asked for only from a page that is there (`StageKnown`), the newest request is
one (`OneIsNewest`) and asks for the address (`NewestIsShown`), an answer of the collection
as it is holds its page (`AnswersTrue`), and no stamp is of the future (`MadeNow`). Two
lemmas about the server's list carry it: every place is taken, since of two quotes one is
ahead and has more behind it (`BehindHasMore`, `PlacesTaken`, by the pigeonhole principle),
and a page appended to those before it is one page more (`PagesFollow`). `BannerIInv` ties
timers to the refs they captured (`TimersExplained`). `QuizIInv` follows the marked option
through the renumbering of `removeOption` (`RemoveAtShifts`), and the key from the row to
the pages that show it. `SignInIInv` is the longest: `Joined` says what user, token, cookie
and every call under way have in common while no reason is recorded, `OutKnown` that after a
logout only calls marked late can bring an account back, and `LoopLatched` that a quick
login of this visit holds the latch. `SessionChanged` states once what every sign-in and
logout does to the calls under way. `ProfileIInv` has a half for the form, with the limit of
hashtags through `Filled` (`FilledTags`) and their names counted (`NamesCounted`), and one
for the list: `ListKnown` says of a collection that nothing excuses how many requests are
about it, and `Tracks` what its row and its entry are at each stage of that request.
`JobBegins`, `JobEnds` and `LoadEnds` state once what a request may do when it starts and
when it is forgotten; the clicks and answers are instances of them. `CardsIInv` says what
each card shows and will show once its answer has come: `LikeKnown` for the heart and its
count, whose request may have been served while the card still shows the old one, and
`MemberKnown` for a collection, which a card takes for one with its quote by its override or
a request it has under way (`Claims`), unless it is taking the quote out (`Retracts`).
`ListingsKnown` says it of the lists of the picker, those shown and those a server has read
for a card and not yet delivered: what one names is in the collection, or is marked as
outdated. `CreatesNew` keeps two cards from creating the same collection.

The other sections of `AdminProofs` prove the four properties of the run `Admin` for any
constants of `Admin`, from five assumptions that name null and the like:
`ApprovalAssumption` (null is no user, mail or status, the bounds are numbers),
`SiteAssumption` (important rows and tabs are of the site, what replaces an unfit value is a
value that fits, null is no editor), `PanelAssumption` (there is a filter),
`SwitchesAssumption` (features on by default are features) and `RealAssumption` (the bounds
are numbers, none of them null):

| theorem | statement |
|---|---|
| `ApprovalsHold` | `AdminSpec => []ApprovalsCorrect` |
| `SettingsHold` | `AdminSpec => []SettingsCorrect` |
| `PanelsHold` | `AdminSpec => []PanelsCorrect` |
| `RealtimeHolds` | `AdminSpec => []RealtimeCorrect` |

* Approvals. `MailsDue`: what a user was told, plus the handlers that have given him the right and
  are about to tell him, is at most what is due; the handlers are a finite set that grows by one
  where `due` does. `BouncesLogged` follows a bounce from the moment a webhook has looked at it,
  before the provider knows that it has.
* Settings. A form that waits for no save takes for stored only rows that are, or that are excused
  (`FormsExcused`), and so does what a load brings; `ComparedStill` says that a row a save found
  equal to the table is equal until another write marks it overtaken.
* Switches. `ReadsCovered`: what a call has read back is what is stored, or a later write is told
  of, either as a miss, by a later answer, or by a call that has written and will answer
  (`Covered`). `RowsExplained` says it of what is shown, and of the list that a call without
  company would bring back.
* Panels. Only the newest load decides: as long as nothing is excused, it is for the chosen filter
  and late enough, or the debounce timer or an operation's answer will start another
  (`NewestFits`); a load that began alone and was followed by nothing still is alone
  (`AloneFits`), so an older answer cannot overtake it. `SoleAct` says that where loads leave
  the busy flag alone, one operation holds it, `CopyFits` that a kept copy is late enough or was
  marked, and `LateFits` that an operation given up is told of from then on.
* Realtime. Each half of a notice must be under way: `MenusFollow` says that the menus show the
  rights, or that a change of them is in the bus, in the mail of the shell's socket or in a
  request for them; `LogFollows` says it of each log entry with the snapshot; `BanReaches` of a
  ban. `OneSocket` and `Listening` keep all but one connection out of it.

The other sections of `BackgroundProofs` prove, from `BotsAssumption` (the token of the
environment is one, handlers of the panel, of the webhook and checks at startup are told
apart, null is no token and no copy) and `LimitsAssumption` (limits and windows are
positive, the bounds are numbers):

| theorem | statement |
|---|---|
| `BotsHold` | `BackgroundSpec => []BotsCorrect` |
| `LimitsHold` | `BackgroundSpec => []LimitsCorrect` |
| `ViewsHold` | `BackgroundSpec => []ViewsCorrect` |

`BotsQuiet` says of a save that nothing disturbs what it finds at each of its awaits: nobody else
is at work on the tokens, the copy it acts on is the row, and the status of each token it has
checked is that token's (`Undisturbed`, `AlonePut`). `BotFits` keeps the handlers on their paths.
For the limits, what was let through is a function of time that never falls. `Windowed` ties it to
the entry: all of it since the window started is in the count and within the limit, and so
is what passed in as long a span before; two windows meet in a span of the length of one, hence
twice the limit (`Twice`) and not once.

`ViewsIInv` is a balance of the counting. `Total` is what the daily record holds and what is still
to be folded into it from either store; it and the requests that have marked nothing yet
(`Viewing`) make the views reported, an upper bound while no increment stayed unmarked and no view
was told twice, a lower one while none was dropped, forgotten or skipped (`ViewsCounted`). `Base`
is what a store's counters are folded up to: from the moment Postgres has added the difference to
the moment Redis is told, that is the snapshot of the flush and not yet the key, and this is what
makes the fold a step that leaves `Total` alone. `VisitorsCounted` does the same with
cardinalities: the visitors a store has marked are those it counted and those a second pipeline is
about to count (`Meeting`). `WindowsCounted` balances the windows opened with those stored and the
increments under way (`Storing`). `WorkMoves` says once how the three numbers of requests change
when one request goes on, and `DayGrows`, `Folding` and `CountersStay` what a step that only
counts, only folds or does neither leaves true. Until the store changes the other one is empty
(`OneStore`), and before the first beacon everything is (`Untouched`, `NothingYet`), so losing
Redis by then excuses nothing.

The theorems `TypeCorrect` belong to no run of their own: each `IInv` contains `TypeOK`.

Only model-checked:

* Liveness, in the run `Liveness`: fairness and ENABLED are out of the prover's reach.

Every other property of the passing runs, the invariants, the action properties and the
refinements, is the subject of a theorem.

## 5. What is not modelled

`components` in `PROJECT.json` gives the status of each part. Left out for good:
presentation, translations, string processing (sanitising, hashtag extraction, the analysis
service, templates of mails and messages), uploads and image export, logging and the health
monitor, CORS and configuration, which are read once. Left out of a modelled part:

* `QuoteModeration`, `Approvals`, `BotSettings`: the text of messages and their editing.
* `PolicyPublishing`: overwriting the policy version key from the settings page or by
  restoring a backup, which is an administrator replacing the state. The three document
  types do not touch each other's rows, so one is modelled.
* `RetryContract`: GET requests, which carry no key and are simply repeated.
* `AdminRoles`: one feature of the grant table stands for all (`SubAdmins` tells them
  apart); `premium` and profile fields decide nothing.
* `TelegramLogin`: what the bot answers to messages that change no account.
* `ReadCache`: caches of the browser and the CDN.
* `Engagement`: the change of the day, and reports that only read.
* `AdminPanels`: pagination sizes, sorting and the charts of the dashboard.
* `SiteSettings`: parts of a backup other than the rows of the three families.
* `Quizzes`: several questions in one quiz, which are graded alike.

## 6. Plan

1. Done: the modules of section 2 and the proofs of section 4.
2. Compositions worth a look: `SignIn` with `AccountSessions` (the digest a row keeps against
   the cookie of several tabs), `ReadCache` with `QuoteModeration` (a decision and the quote
   of the day).

Where the number of runs would grow without a new question, a run gives way to one that
asks a new one.
