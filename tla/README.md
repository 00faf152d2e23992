# TLA+ models of VeroAiAgents

VeroAiAgents sells tours. A Go backend (`src/backend`, Gin, GORM, PostgreSQL) serves a customer
site with an AI chat (`src/frontend`, Next.js) and a staff console (`src/backoffice-frontend`).
This directory holds TLA+ specifications of its concurrent parts, the TLC configurations that check
them, and TLAPS proofs. `PROJECT.json` lists for every definition the source lines it models.

    tlc -workers 2 -config GuestOrders_race.cfg MC_GuestOrders.tla
    tlapm GuestOrders_proofs.tla

## 1. Inventory

Paths are relative to `src/backend/internal` unless they start with another directory.

| component | state | operations | talks to |
|---|---|---|---|
| guest orders and claims (`services/booking_service.go`, `guest_service.go`, `guest_entitlement.go`, `repositories/guest_repository.go`) | `guest_sessions`, `bookings`, `guest_order_entitlements`, claim marker | create for a guest, create for an account, claim, recover after a lost commit, backfill markers at start-up | event bus, chat tools, PostgreSQL row locks and unique indexes |
| auth sessions (`services/auth_service.go`, `repositories/auth_sessions.go`, `handlers/auth_handlers.go`) | `users`, `auth_sessions` | register, login, refresh with rotation and reuse detection, logout | customer site, staff console, Google sign-in |
| refresh coordinator (`src/frontend/src/lib/refreshCoordinator.ts`, `api.ts`, `authToken.ts`) | access token, result marker and lock entry in localStorage, refresh cookie | ensure a session, coordinate tabs, log out | auth sessions |
| background pool (`services/audit_pool.go`) | bounded channel, per-session summary state, stop flag | submit an audit job, submit a summary, run jobs, drain | chat turns, PostgreSQL, `main` |
| payments (`services/payment_service.go`) | `payments` | create, webhook | provider, event bus, N8N |
| booking status (`services/booking_service.go` `UpdateStatus`; `src/backoffice-frontend/src/components/orders/orders-panel.tsx`) | `booking_status`; each console's list, busy flag and dialog | move to a status; list, advance, cancel | event bus, other consoles |
| chat turns and streaming (`services/ai_service.go`, `handlers/chat_handlers.go`) | the context of a turn, its tool results, the text that was streamed, stored answers | turn: attach, provider rounds, tool calls, guards, persistence | AI provider, chat tools, pool |
| chat tools (`services/mcp_service.go`) | selected package and order marker of a chat session | search, select, info, create_booking, status | guest orders, chat sessions |
| chat sessions (`repositories/chat_repository.go`, `guest_repository.go`) | `chat_sessions`: owner, guest, expiry | open, bind to a guest, extend, hourly cleanup | guest orders, auth sessions |
| Google sign-in (`services/google_oauth_service.go`, `repositories/oauth_repository.go`) | `oauth_states`, `external_identities`, `users.google_sub` | begin a sign-in or a link, callback: consume, exchange, create, resolve, link | Google, auth sessions, registration |
| rate limiter (`middlewares/middlewares.go`) | `sync.Map` of limiters, a counter, a janitor | allow, evict | every public route |
| event bus and stream (`events/bus.go`) | subscribers and their buffers | subscribe, publish with drops, unsubscribe | services, SSE handler |
| chat interface of the customer site | messages on the screen, guest mode | restore, send, stop | chat turns |
| trip catalogue, AI provider client, analytics, telemetry, uploads, health, configuration, migrations | rows or nothing | single statements, static answers, wiring | - |

Hard behaviours: requests interleave between SQL statements under READ COMMITTED and wait on row
locks and unique indexes; a commit may succeed although its acknowledgement is lost; tabs share
localStorage without mutual exclusion; webhooks repeat, race and arrive in any order; pool jobs
are coalesced, cancelled, time out and meet a shutdown; consoles act on screens that are out of
date; a stream breaks off after text was shown and after tools took effect; two turns of one chat
overlap, while its session expires; two callbacks create the same Google account. `PROJECT.json`
lists them as hazards, each at its line.

What makes each part correct, in a sentence: a guest session and a contact buy one order and an
order has one final owner; a refresh token has one successor and a login one session; tabs never
refresh at the same time, and a logout that was answered and that no refresh overlapped is final; every accepted background job is done, once;
a settled payment stays settled and is confirmed; a booking follows its transitions whoever clicks;
a chat answer claims an order only if there is one, a conversation places one order unless two of
its turns overlap, and a chat in use survives the cleanup; a Google identity has one account, is never joined to an account by its
address, and an OAuth state is spent once.

## 2. Modules

| module | models | run |
|---|---|---|
| `OrderLedger` | abstract: orders are entered and transferred at one instant | as a PROPERTY of `orders_live`; instantiated by `ChatTurn` |
| `GuestOrders` | the create, claim and backfill transactions, one action per statement | `orders_race`, `orders_live` |
| `SessionLedger` | abstract: refresh tokens, their states and rotation | as a PROPERTY of `sessions_rotation`; instantiated by `RefreshCoordinator` |
| `AuthSessions` | the auth service, one action per statement | `sessions_rotation`, `sessions_revokeall` |
| `RefreshCoordinator` | tabs, storage, cookie jar and the abstract service | `refresh_weblocks`, `refresh_live`, `refresh_logout` |
| `AuditPool` | the pool, its workers and Stop | `pool_coalesce` |
| `Payments` | payment creation and webhook deliveries | `payments_webhooks` |
| `BookingWorkflow` | `UpdateStatus` and the order panel of several consoles | `workflow_consoles` |
| `ToolResults` | what the AI service reads out of the tool results of a turn: guards, recommendations, order gate | in `ChatTurn` |
| `ContextBudget` | the messages of a turn and how they are trimmed to the token budget | in `ChatTurn` |
| `ChatSessions` | the rows of `chat_sessions`, their binding, expiry and cleanup, one operator per statement | in `ChatTurn` |
| `ChatTurn` | the turn, streamed or not, on top of the three above and `OrderLedger` | `chat_turns` |
| `GoogleSignIn` | OAuth states, callbacks, creation, resolution and linking of accounts | `google_signin` |
| `MC_*` | symmetry, workloads and identities for TLC | |
| `GuestOrders_proofs`, `AuthSessions_proofs`, `RefreshCoordinator_proofs`, `AuditPool_proofs`, `Payments_proofs`, `BookingWorkflow_proofs`, `ChatTurn_proofs`, `GoogleSignIn_proofs` | the theorems | TLAPS |

The composition of the browser and the service goes through `SessionLedger`: `AuthSessions` is
proved to implement it, and `RefreshCoordinator` calls its operations. So the browser is explored
against what the service promises, without the statements of the service. In the same way
`ChatTurn` enters orders through `OrderLedger`, which `GuestOrders` is proved to implement.

### GuestOrders

A request is an HTTP call; `pc` names its next statement and `req` what it carries. The tables
`session`, `booking` and `entitlement` hold committed rows only: the writes of an open transaction
follow from `pc` and `held`. `Holds` is the row lock of `SELECT ... FOR UPDATE`, `KeyFree` and
`HashFree` are the waits of the unique indexes on contact keys and idempotency hashes.
`Abort` is a statement that fails, `CommitBooking` includes the commit whose acknowledgement is
lost, `Recover` the lookup the code makes then. Prices, travellers and validation of input are
data; a contact is a model value and stands for its normalised form. `ExpireGuest` may end a
session at any moment. `Legacy` guests may have an order that was claimed before markers existed.
Binding a chat session to a guest is in `ChatSessions`. A server that crashes in the middle of a
transaction is the same as `Abort` (PostgreSQL rolls back and the answer never comes), and so is a
replay whose read-only transaction fails to commit.

The code makes a user of its own for every guest session (`auth_service.go:237`), to own the order
until it is claimed; one owner (`Shop`) stands for them all, since what the properties ask of an
order is which session made it and which account has claimed it. Of a backfill the model keeps who
is marked, not the time that it puts into `claimed_at` (`database.go:111`).

### AuthSessions

`row` is the `auth_sessions` table by token, `pc` the next statement of each request. `from`,
`login`, `ended` and `cut` are history that the properties need. The clock ticks between
statements; `Window` is the concurrent rotation window. Passwords and signatures are reduced to
what they accept: a token is genuine, and `ParseOK` says it is not over. A rotation and the insert of a
pair may commit while their acknowledgement is lost: the row is there, and nobody has its token.

### RefreshCoordinator

Every tab runs `coordinatedRefresh`; `pc` names the place. Each access to the lock entry of
localStorage is a step of its own, and so is the reading of the marker before the token is
stored. Times are ages in ticks: `FetchTimeout < LockTTL < MaxWait`, as 35 s, 40 s and 90 s are.
The token of a call in service does not leave the rotation window before the call times out (the
window is 60 s, the timeout 35 s). A request that was given up may be served later (`orphans`).
One tab has one `coordinatedRefresh` at a time (`refreshInFlight`); `customerLogout` clears that
variable, and a second one of the same tab is not modelled: it would queue for the same lock. Login
is one step. The other calls of `api.ts` only start a refresh.

A logout is a request like a refresh: `StartLogout` sends the cookie the jar has then, `ServeLogout`
revokes its token, or fails to, which the handler ignores (`auth_handlers.go:67`), `HearLogout` is
the response that clears the cookie, and `FinishLogout` the `finally` block. `LogoutFails` is the
`catch` of `customerLogout`: the tab signs out locally all the same, while the cookie and the
session stay, and a request that the service has not read yet is served later or never. Refreshes,
logins and logouts of other tabs may come between any two of these steps. `out` remembers how the
customer signed out: `"asked"`, `"done"` (answered), or `"clean"` (answered, and no refresh and no
login overlapped it). Three bounds keep the runs small: with `Unreliable = FALSE` nothing fails
after one call was cut short (a crash counts if it cuts one), `MaxLogouts` tabs sign out at a time,
and with `BlankLogouts = FALSE` a tab without a cookie does not send a logout. Refresh tokens live
for thirty days and do not expire here, and a pair whose insert committed unheard (above) is left out:
nobody presents its token.

### AuditPool

A critical section of the pool is one action: the code holds `summaryMu`, with `mu` inside it,
from its first to its last access. `worker` is what each worker does, `summaries` the state of a
session that is queued or running, `messages` a count, and a summary is the number of messages of
the tail it was built from. A cancelled statement is either answered or never executed. When
`Shutdown` fails the process ends at once (`log.Fatalf`) and `Stop` never begins. `due` and
`lost` are history.

### Payments and BookingWorkflow

A delivery of the webhook is a request whose payload is chosen when it arrives; `seen` is the
status it read last, and the update is the conditional one of the code. A status that
`NormalizePaymentStatus` does not know is stored as it is: `"other"` stands for them. `MaxInterruptions`
bounds crashes, failing statements and lost answers. In `BookingWorkflow` a list is answered with the status of one moment and
reaches the screen at another; `busy` disables the buttons of the booking; the call is served in
steps: find, compare-and-set, read again, publish, and may fail at each. The booking starts at any open stage.

### ChatTurn

`turn[t]` is the local state of `Chat` or `ChatStream`; `pc` names its next statement or provider
event. The provider is nondeterministic: chunks of tool fragments and text in any order, an end, an
error, a cancelled read, then tool calls or a last text that may or may not claim an order. The
customer and the model ask for what the workload in `load` allows, chosen in the initial state, so
that one run covers several questions without multiplying them. Tool results keep their outcome and
the order they name; wording is reduced to what the guards look for (`claim`, `options`). A search
that succeeds for the first time always has packages to offer; the code sends no recommendations for
an empty list. The messages of a chat session are gone with its row, so `FindSessionOrder` finds no
marker there.

Choices that a reader may want to compare with the code:

- `prepareChatPreLLM` runs two statements at once and waits for both; they are one step, in which
  either may have been done when the other fails.
- The bookkeeping of a tool call is one step with the tool's first statement; the rest of the tool
  (`StoreSelection`, `ReadOwner`, `PlaceOrder`, `WriteMarker`) are steps of their own.
- The order of a booking is entered at one instant, with one contact. `findSessionOrder` reads the
  newest 200 rows; a marker that is older counts as a failure of that read.
- The client puts a text of its own for an empty answer, except in the final round when the model
  calls tools there; that is the only way to `"empty"`.
- `GuestHistory` reads and slides a session in two statements and is atomic here, and `Passes` lets
  a turn end before the session it checked expires: provider calls (`AITimeout`) and rounds are
  bounded, which is minutes against a lifetime of hours, and the statements before the first
  provider call take less than the time the cleanup waits (`Grace`). These are timing assumptions
  about the server, not enforced by a lock.
- Chat sessions are anonymous: no routed handler creates one with an owner. `signed` is whether the
  request of a turn carries an access token.

- An id of a new chat session is the smallest that is unused (`Fresh`); the code draws a random
  one, and nothing depends on which.

`ContextBudget` weighs every message one unit. The code removes the oldest turn until the list
fits; `MessagesForRequest` says which rows are gone when that loop ends (`TooLong`: a row goes if
the list is over the budget without the turns before its own), which can be reasoned about, and
`TrimLoop` is the loop itself, a fold. `MC_ChatTurn` assumes that the two agree
(`TrimmingIsTheLoop`), which TLC evaluates on all histories of up to nine rows around a boundary
and several budgets. Rows of the history are roles; three histories are chosen so that the boundary
falls inside a turn, next to a system row, and at the beginning.

### GoogleSignIn

`user` and `identity` hold committed rows; an account is named by its address, which is unique and
never changes. `cb[t]` is a callback, `held` the unique keys its open transaction has inserted:
others that insert the same key wait. A circle of waits is ended by `AbortDeadlock`, as PostgreSQL
does. `Exchange` is everything between the browser's return and a verified ID token: any pair of
`Identities`, or a failure. `unique` says whether `idx_users_google_sub` is a unique index; both
values are initial states, because start-up may leave the index that the gorm tag made (see
Observations). `known` is history: whether the subject had an account when Google named it.
`Register` is the registration with a password, as far as it concerns addresses.
The session that a sign-in is given is that of `AuthSessions`, and is one step here.

## 3. Runs

Runs with 2 workers take between 4 seconds and 3 minutes.

| run | bounds | distinct states | shows |
|---|---|---|---|
| `orders_race` | 2 guests, one of them perhaps with a legacy order, 2 accounts, 3 requests, 1 key, 1 contact | 676,250 | `OneOrderPerContact`, `MarkerMatchesOwner`, `RepliesAreTrue`, `OwnershipDecidedOnce`: no second order for a contact, one owner for ever, marker and owner agree, answers are true and the caller's own |
| `orders_live` | 2 guests, 1 account, 2 requests, 2 keys, an e-mail and a phone | 175,927 | `OneOrderPerGuest`, `OrderAndAllowanceAgree`, `EveryRequestEnds`, `ImplementsLedger`: one order per guest, order and allowance go together, no circular wait, refinement of `OrderLedger` |
| `sessions_rotation` | 1 user, 3 tokens, 4 requests, clock 0..4, window 1, lifetime 3 | 188,472 | `OneSessionPerLogin`, `OnlyRotationContinues`, `MassSignOutNeedsStaleToken`, `ImplementsSessionLedger`: single-use rotation, one session per login, a logged-out token has no successor, refinement of `SessionLedger` |
| `sessions_revokeall` | the same | | finding |
| `refresh_weblocks` | 2 tabs, 3 tokens, Web Locks, 1 tab at a time signs out with a cookie; 1 call is cut short by a crash, a timeout, a stall, a network or a service error | 1,197,042 | `AtMostOneRefresh`, `NoFalseSignOut`, `CleanLogoutSticks`: refreshes exclude each other, no false sign-out, clean logouts stick |
| `refresh_live` | 2 tabs, localStorage mutex, crashes and lost calls without bound, nobody signed in | 104,496 | `EveryRefreshEnds` |
| `refresh_logout` | 2 tabs, which may both sign out, with and without a cookie | | finding |
| `pool_coalesce` | 1 session, 3 messages, 1 audit job, 2 workers, queue of 1, 1 timeout, 1 failure | 131,707 | `OneRefreshUpToDate`, `DrainRunsEverything`, `SummaryNeverGoesBack`, `SubmissionsAreServed`, `StopDrains`: one job per session, no summary goes back, no lost follow-up, accepted submissions are served, Stop drains everything and ends |
| `payments_webhooks` | 1 payment, 3 deliveries, 5 statuses, 1 interruption | 149,347 | `AnnouncedIsSettled`, `DuplicatesConfirmOnce`, `SettledStaysSettled`: settled stays settled, announcements are true, duplicates confirm once |
| `workflow_consoles` | 2 consoles, 2 calls, 1 interruption | 2,206,904 | `ScreensAreNeverAhead`, `ButtonsComeBack`, `StatusIsAnnounced`, `StatusFollowsTransitions`: transitions hold, no stage is skipped from a stale screen, buttons come back, the last status is announced |
| `chat_turns` | 2 turns, 3 chats, 2 guests, 2 orders, 2 tool rounds, 7 workloads | 360,465 | `ClaimsAreTrue`, `GateTellsTheLedger`, `OneOrderPerConversation`, `NoRecommendationAfterSelection`, `PartialAnswerIsFinal`, `LiveChatsSurvive`, `GuestOrdersAreTheCallers`, `ContextKeepsTheTurn` |
| `google_signin` | 3 callbacks, 2 states, 2 Google accounts, 2 addresses, 1 fault | 1,031,732 | `AnswersAreTrue`, `NoMergeByMail`, `StatesAreSingleUse` |

Why the bounds are enough to be interesting. Orders: a contact, a key or an order is disputed by
two parties, and the third request is the one that comes in between (a claim during a repeat, two
claims of one order). Sessions: two racing refreshes, a replay and a login or logout fit in four
requests; three tokens give a chain of two rotations; the clock passes the window and the lifetime.
Tabs: one holds the lock, one waits, and either signs out; three tokens allow a login and two
renewals, and a wrong one is presented as soon as there are two. One call that is cut short is
served later or never; the theorems hold for any number of them, and of tabs that sign out. Pool: a job, its coalesced follow-up and a competitor, with
a queue that fills up. Payments: the update of one delivery fails against that of a second, and a
third repeats one of them. Consoles: a stale screen needs one other actor. Google: two callbacks
dispute a subject or an address, the third repeats or links, and the two Google accounts may report
the same address.

The workloads of `chat_turns`: `Overlapping` (two turns of one browser that book, one failure),
`Retrying` (a turn that books up to three times, two failures), `Selecting` (a streamed turn that
searches, asks and selects beside the buttons of the page), `Failing` (the same tools, streamed or
not, with a failure), `Expiring` (two turns while sessions expire and the cleanup runs),
`Dying` (two browsers with one cookie while a guest identity expires), `Talking` (histories of
eight and nine rows and a budget of eight). With two tool rounds one round follows another and the
final round follows both.

`CHECK_DEADLOCK FALSE` stands where a bounded set of requests, turns or callbacks is used up, or
where every tab may be closed. That requests do not wait for each other in a circle is
`EveryRequestEnds` for orders, and `AbortDeadlock` for Google sign-in. The idle end of a bounded run is an action of its own elsewhere.

Every property is also shown to be breakable: each has a mutant of a modelled definition
(`*_<bug>` operators beside the definition) under which TLC finds a counterexample.

### Fairness

- `GuestOrders`: weak fairness on the next statement of each request. Handler goroutines are
  scheduled, and PostgreSQL grants a lock or index wait when it is free; a statement that fails
  ends the request.
- `RefreshCoordinator`: weak fairness on what a tab does by itself, on time and on the abort timer
  of `apiFetch`; strong fairness on being granted the Web Lock, whose queue is first come first
  served. The service owes no answer. `refresh_live` assumes that a response body whose head
  arrived also arrives (see Observations).
- `AuditPool`: weak fairness on each worker and on Stop's wait, with a timeout and a failure: a
  statement ends one way or another. The two mutexes are always taken in the same order. Nothing
  says when the timer fires, and no fairness makes it fire.
- `AuthSessions`, `Payments`, `BookingWorkflow`, `ChatTurn` and `GoogleSignIn` claim safety only:
  they assume no fairness. Nothing is claimed about how long a provider takes.

## 4. Proofs

`GuestOrders_proofs` proves, for all sets of guests, accounts, requests, keys and contacts:
`TypeCorrect`, `OneGuestOneOrder`, `OneContactOneOrder`, `OrdersAndAllowances`,
`MarkersMatchOwners`, `OwnershipIsFinal` and `Implementation` (the statements implement
`OrderLedger`). Assumed: `ConstantsAssumption` and `NullAssumption` (the id sets are disjoint
where the code uses different types, NULL is none of the values).

None of these properties is inductive. `IInv` adds what the control state knows: `RequestInv` and
`FreshInv` (what a request at a statement carries, and that its booking does not exist yet),
`LockInv` (two requests are never both past the lock of one guest), `ReadInv` (what a request has
read under the lock is still so: this is where the lock is used), `AnchorInv` (contact keys held
by two transactions differ, and differ from committed ones), `HashInv` (pending and committed
idempotency hashes are unique), `AccountBookingInv` and `EntitledInv`. Every action is first shown
to have one of a few shapes (`StepShape`: a request starts, ends, advances, anchors, or nothing
happens), so that the invariant is shown once per shape, and separately for the two commits and
the backfill, which change the tables.

`AnswersAreTrue` (`RepliesAreTrue`) needs more. An answer is decided at one statement and stays
while others commit and claim. `Told(r)` says of every answer what it means for the booking it
names, and `BookingsKept` that no later step changes that (its hash, and its owner once it has
one).

`AuthSessions_proofs` proves `SessionTypes`, `RotationIsSingleUse`, `LoginHasOneSession`,
`LogoutIsFinal`, `WindowIsRespected` and `RevokedOnce` for all users, tokens, requests, windows
and lifetimes. `IInv` says what requests at each statement carry (`RequestInv`, `CarryInv`), how
rows relate to the requests that issue them (`RowInv`, `ChainInv`), and where reuse detection is
justified (`ReuseInv`, `UserInv`). The central argument is that the conditional UPDATE of the
rotation has one winner, and only a winner issues a successor.

`Implementation` proves that the statements implement `SessionLedger`, for every step: the insert
of a login is `Login`, the conditional update of a refresh `Rotate` (`RotateUnheard` if its winner
never learns of it), the insert of the successor `Renew`, a refresh that breaks off in between
`Forfeit`, a tick of the clock `Age`; the reads are stutters. What `SessionLedger` allows at one instant rests on `IInv`: the token whose
successor is inserted is one this request has spent, and nobody else has renewed it.

`RefreshCoordinator_proofs` proves `OneRefreshAtATime`, `NobodyIsSignedOutByARace` and
`LogoutSticks` for all tabs and tokens, every kind of failure and every value of the three bounds,
under the assumption `WebLocks`. `Exclusion` says that a tab past the lock owns the mutex. While no
call was cut short (`Uncut`) the cookie jar holds a live token, or the one that the refresh under
way or a logout has just ended (`JarIsGood`, `CallIsGood`), so nobody presents a token that somebody
else spent. `Carried` says which tokens calls, logouts and the jar may name, and `Born` what is
granted to whom. `Undisturbed` is what a logout that is alone leaves behind at each of its steps,
and `SignedOut` what remains after it was answered: the jar is empty, and no call brings a token.
This holds whatever was lost or is served late, because it rests on the cookie that the response
has cleared, not on the revocation. Of a logout that fails nothing is proved: see Observations.

`AuditPool_proofs` proves `RefreshesAreCoalesced`, `SummariesAdvance` and `DrainIsComplete` for all
sessions, tool calls, workers and buffers. `Busy` and `OneJob` say that a session has one job, in
the queue or with one worker; so the worker that writes has read the tail after every summary that
is stored (`Fresh`), and what it has not seen has marked the state dirty (`Undisturbed`).
`Stopping` is the order of Stop: flag, close, wait.

`Payments_proofs` proves `SettledIsFinal`, `AnnouncementsAreSettled` and `DuplicatesAreHarmless`.
`Knows` is what a delivery has seen before its conditional update, `Accounted` ties the status to
the set of statuses ever stored, `WillConfirm` and `ConfirmOnce` name the delivery that confirms.

`BookingWorkflow_proofs` proves `TransitionsAreFollowed`, `ButtonsAreFreed`, `ScreensFollow` and
`StatusIsPublished`. What travels between service and console is a status the booking has had
(`Shown`, `Passed`), and a console asks for the successor of what it shows (`Called`, `Made`);
`WillAnnounce` names the call that still owes the announcement of the present status.

`ChatTurn_proofs` proves every property of the run `chat_turns` for all turns, sessions, guests,
orders, workloads, histories and bounds: `PartialAnswers`, `LiveChats`, `CallersOrders`,
`Recommendations`, `TrueClaims`, `OneOrder`, `Gates` and `ContextKept`, and besides them `Budget`.
Every action is first shown to be of a kind (`Arrives`, `Attaches`, `Checks`, `Prepares`,
`TalkStep`, `ToolKind`, `Finalizes`, `EndStep`, `Cancels`), so that an invariant is shown once per
kind, and once for what happens beside the turns. The inductive invariant `IInv` is what a turn
read before and uses later:

- `TextOK`: what was streamed, and that a round is repeated only when nothing of it was shown.
- `SessionInv`: the session is there, the cleanup has not selected it, and its expiry is not due.
  This is arithmetic on the moment of the check, the lifetime and the grace period, and the only
  place that needs `GraceAssumption`.
- `GuestInv`, `OrderInv`: a guest that is not the session's is dead; a session is rebound only then.
- `SelectInv`: a selection is never taken back, so the session read at the end knows every
  selection of this turn.
- `ClaimInv`, `LimitInv`: a result that names an order names one in the ledger with the key of
  this conversation; after the order limit no booking is tried.
- `MarkInv`, `ToldInv`: while nothing failed, a conversation with an order has its marker, so a
  later turn stops at the guard of `create_booking`; the turn that entered it says so.
- `ContextInv`: the list for the model. `Listed` is its shape (system prompt, rows in their order
  with the last four, prompt, tool messages), `Complete` that no row is missing that must be kept.
  `TrimKeepsContext` is the main lemma: a row and the row of the user that began its turn have the
  same older turns, so they go together or not at all. `Ranks` and `Places` say what becomes of
  indices when messages are removed. `TrimFits` shows that a list that is still too long has
  nothing left that may go.

Assumed are `ChatAssumption`, `GraceAssumption` (the grace period is not longer than a session
lives), `ChatNullAssumption` and `EntryAssumption`.

`GoogleSignIn_proofs` proves `GoogleTypes`, `StateIsSpentOnce`, `AddressesDoNotMerge` and
`AnswersDoNotLie`, with and without the unique index. `Good(t)` is what the earlier steps of a
callback have found out and what still holds of it (also that a subject which was known when Google
named it never gets as far as the address), `KeysAreHeldOnce` the waits of the unique
indexes, `LinksNameAccounts` that a link names an account that exists.

The assumptions about constants are the named ASSUMEs of the modules (`PoolAssumption`,
`PoolNullAssumption`, `TimesAssumption`, `CallAssumption`, `PaymentAssumption`,
`WorkflowAssumption`, `GoogleAssumption`, ...): bounds are naturals, sets that are different types in
the code are disjoint, and NULL is none of the values.

Every invariant and action property of a passing run, and both refinements, are stated by a
theorem. Only model-checked: liveness (`EveryRequestEnds`, `EveryRefreshEnds`,
`SubmissionsAreServed`, `StopDrains`), which is outside the reach of the installed provers; the
localStorage mutex, since the theorems about tabs assume Web Locks; and that the trimming loop
ends where `MessagesForRequest` says, an induction over the list.

## 5. Findings

1. `sessions_revokeall`. Reuse detection revokes the rows that exist; a refresh between its
   rotation and the insert of its new session adds one afterwards. The comment of
   `RevokeAllActiveSessionsByUser` promises a fresh login on every device.
2. `refresh_logout`. A logout during a refresh is to win; the access token is thrown away, but the
   new cookie stays in the jar and its session stays active.

### Observations

Disagreements met while modelling that no run of its own shows:

- A logout whose request fails signs the page out and leaves the cookie and the session
  (`api.ts:243`); when the marker is ten seconds old, the next page that looks for a session
  refreshes with that cookie and signs the customer in again. The comment in `customerLogout` says
  that the session "expires on its own", the one in `AuthStatus.tsx:63` that the logout revokes it
  "AND clears the local token even when the network fails". `LogoutFails` is in the model, and
  `CleanLogoutSticks` is about logouts that were answered.
- `Logout` of the handlers ignores a failed revocation and answers 200 (`auth_handlers.go:67`): the
  cookie is gone, the session stays until it expires.
- Two callbacks of one new Google account, without any fault: the first looks up the subject and
  finds nothing, the second creates the account and commits, the first looks up the address and
  answers `ErrGoogleAccountExists` (`google_oauth_service.go:325`) to the owner of the account that
  is linked by then. `google_oauth_service.go:79-81` describes this error as "the Google sub is not
  linked", and `:373-375` says that "the outcome never depends on who won the race". TLC finds these
  steps at once when `AnswersAreTrue` asks that the subject of such a callback has no account at
  that moment. What the property does ask, and holds, is that nobody gets this answer whose subject
  had an account before the callback began to look. Trying again signs the customer in.
- Two turns of one chat session that overlap both find no order marker and both place an order
  (`mcp_service.go:582`), unless the allowance of a guest stops the second.
  `OneOrderPerConversation` excuses turns that overlap, and is about repeated calls of one turn and
  later turns.
- A booking whose status was changed answers an error and announces nothing if the read after the
  update fails (`booking_service.go:291`). `StatusIsAnnounced` excuses calls that are cut short.

- A submission that was accepted while the ten seconds of a job run out is dropped together with
  its dirty mark (`audit_pool.go:244`); the comment at `audit_pool.go:197` promises one more
  refresh. `SubmissionsAreServed` excuses the session whose refresh ran out of time (`lost`).
- The creation of a Google account inserts `users.google_sub` and then the identity, a link the
  other way round (`oauth_repository.go:103`): with the unique index in place the two can deadlock,
  and PostgreSQL aborts one, which answers a general failure although `google_oauth_service.go:375`
  says that the outcome never depends on who won. `AnswersAreTrue` excuses the `victim`; without
  that excuse TLC finds the deadlock.
- Linking a second Google account overwrites `users.google_sub` while the first identity stays,
  although `oauth_repository.go:91` says the two never diverge.
- Start-up creates the index of the gorm tag under the name `idx_users_google_sub`, not unique; the
  later `CREATE UNIQUE INDEX IF NOT EXISTS` of that name changes nothing (`database.go:84`).
- `DeleteExpiredOAuthStates` has no caller: OAuth states are never removed.
- A 401 of a refresh that began before a login clears the access token of that login
  (`refreshCoordinator.ts:258`).
- An account that repeats a guest's key while the claim of that order commits, after its lookups
  and before its INSERT, gets a second order (`booking_service.go:105`).
- A guest whose allowance update fails in the database is told that the order limit is reached
  (`booking_service.go:188`).
- Every failure of a refresh is answered 401, which the client reads as the end of the session
  (`auth_handlers.go:58`).
- Without Web Locks two tabs that read a free lock entry before either writes it may both
  confirm their own (`refreshCoordinator.ts:140`); its comment says best effort.
- `apiFetch` clears its abort timer when the head of a response is there; a body that stalls is
  never aborted and keeps the lock (`api.ts:386`). This is `BodyStalls`.
- A paid delivery that loses its update to a failed one is answered 200 and not stored
  (`payment_service.go:163`); a delivery cut short between update and publication is taken for a
  duplicate when it is repeated, and the booking is never confirmed (`payment_service.go:140`).
  `AnnouncedIsSettled` states what remains true.

## 6. Not modelled, and the plan

Five hazards of `PROJECT.json` have no property of their own, each with the reason: the claim that
commits during an account's lookup (`booking_service.go:105`), the body that stalls
(`api.ts:386`), the localStorage fallback (`refreshCoordinator.ts:140`), the logout that is lost
(`api.ts:242`) and the read after a booking's update (`booking_service.go:291`). The code does what
they fear, and the Observations say so. Others have a property that covers a part of them; their
notes say which.

Not modelled, with the reason:

- The rate limiter and the other middlewares: losing a limiter to the janitor costs one fresh
  allowance, and no document promises a bound; the others keep no state.
- The event bus: a subscriber with a full buffer loses events by design. The modules record what
  is published.
- Trip catalogue, analytics, telemetry, uploads, health and documentation: single statements,
  aggregates and measurements without a protocol between steps.
- Configuration, routes, start-up and migrations: wiring. What start-up does to live data, the
  backfill of claim markers, is in `GuestOrders`; the order of shutdown is in `AuditPool`, the
  cleanup timer in `ChatSessions`, the index on `users.google_sub` in `GoogleSignIn`.
- The provider client: its encoding. What a turn sees of it is in `ChatTurn`.
- The refresh of the staff console, which has a client of its own; what the server does with it is
  in `AuthSessions`.

Next modules, in this order:

1. `ChatInterface`: the customer page, which restores a chat while a stream is under way, beside its
   stop button and guest mode.
2. `BackofficeRefresh`: tabs of the staff console that share a token by broadcast.
3. `RateLimiter`: the counter against the map with the janitor in between.

Next proofs: what of `EveryRequestEnds` is safety, that requests never wait for each other in a
circle; what of `StopDrains` and `SubmissionsAreServed` is, that a job is never out of sight of all
workers. Next checks: the liveness of the localStorage
mutex with refreshes that succeed, and of a chat turn under the provider's timeout; both are too
large for the present bounds.
