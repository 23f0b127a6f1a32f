# Startap: a TLA+ verification project

Startap is a courier-dispatch platform: a NestJS backend over Postgres and Redis
(`src/apps/backend`), a Next.js dashboard for dispatchers (`src/apps/dashboard`), an Expo app for
couriers (`src/apps/mobile`) and shared TypeScript types (`src/packages/shared-types`). This
directory models the parts of it whose correctness depends on what runs at the same time, what
fails in between and what was read too long ago, checks them with TLC on small instances and proves
the main results with TLAPS for instances of any size.

Paths below are under `src/apps/backend/src/` unless they start with `src/`.

## How the system works

Every authenticated HTTP request, and every WebSocket message that writes, runs inside
`TenantContextService.runForActor`: one Postgres transaction at the default isolation level, READ
COMMITTED, with two session variables for row-level security. A service method is a sequence of
awaited SQL statements in it. Node interleaves requests at every `await`, and several backend
processes may share the database, so between any two statements of one handler any other handler
may run and commit. Nothing in the code takes a lock explicitly: there is no `SELECT ... FOR
UPDATE`, no version column and no condition on the old value in the UPDATEs of orders, tokens,
invites and devices. What protects a row is only the lock an UPDATE holds until its transaction
ends, and the UNIQUE, NOT NULL and CHECK constraints.

Public endpoints (`auth/*`, invite preview and accept) have no actor and therefore no surrounding
transaction: each repository call commits by itself. Broadcasts to the dashboard go through an
in-process event emitter to Socket.IO, synchronously, from inside the handler, so they leave
before the transaction commits and also when it does not.

## Inventory

| Component | State | Operations | What is hard | What makes it correct |
|---|---|---|---|---|
| Orders `modules/orders` | rows of `orders`, `order_status_history`, `deliveries`, `audit_logs` | `create`, `assign`, `transition` | unlocked read, then UPDATE by id; side effect on another table; insert that can fail after the status is written; broadcasts before the commit | the lifecycle; a history that tells it; one delivery row per delivered order, of the right courier; broadcasts that agree with the rows |
| Couriers `modules/couriers` | rows of `couriers`, `users`, `vehicles` | `onboard`, `updateOwnStatus`; status also written by orders and by `pair` of devices | three writers of one column, two of which save an entity they read before | DELIVERING only with an order in progress; no account of a courier without its courier |
| Tenant context `common/tenant` | the pool, transactions, their session variables | `runForActor`, the policies | `connect()` and `startTransaction()` outside of the `try`; requests that need two connections | all or nothing; nothing left behind on a connection; no row of another company |
| Auth sessions `modules/auth/auth.service.ts` | rows of `refresh_tokens` (hash, family, revokedAt, replacedByTokenHash), password hash | `login`, `refresh`, `logout`, `resetPassword` | no transactions; rotation issues before it revokes; family revocation races with rotation | one live token per family; reuse, logout and reset end every session they cover |
| One-time codes `modules/auth/otp.service.ts`, SMS `sms` | Redis keys with TTL, cached gateway token | `issue`, `verify`, `send` | get, compare, del; check, set, set; TTL; retry on 401 | a code works once; the message received last has the code that works |
| Invites `modules/invites`, users, companies | rows of `invites`, `users`, `companies` | `registerCompany`, `create`, `revoke`, `preview`, `accept` | check then insert; account and `acceptedAt` in two commits; a two-step `save()` | one account per e-mail; an account settles its invite; revoked is final |
| Devices `modules/devices` | `devices.pairedCourierId`, `couriers.currentDeviceId`, status, token hash | `register`, `pair`, `revoke` | two pointers with no common owner, one of them in a row that others save as a whole; opposite lock orders | the two pointers agree, within a company; a revoked device has no token |
| Locations `modules/couriers/locations.service.ts` | throttle map in memory, Redis cache with TTL, rows of `location_points` | `record` | check, await, set; rollback after the throttle was advanced; a cache that answers a failure with nothing | one point per interval; the newest position is shown |
| Realtime gateway `realtime` | sockets in company rooms | connect, `courier:location`, four broadcasts | token checked at connect only; events before commits; lost connections | a company sees its own events only |
| Analytics `modules/analytics` | none: queries | `getSummary` | joins of history rows | an order counts once |
| Dashboard `src/apps/dashboard` | two cookies, page data, one socket, a timer | middleware refresh, events, refetch | parallel requests with one refresh token; errors in answer to a refresh; reconnects; event before commit | the user stays logged in; the page comes to show what is committed |
| Mobile app `src/apps/mobile` | two stored tokens, the screen | `apiFetch`, `tryRefresh`, `logout`, the two screens of a reset | parallel 401s; refresh racing logout; lost answers and errors; being killed | stays signed in; signed out means no tokens |
| Guards, throttler, filters, configuration, health | none of their own | | | |

`PROJECT.json` lists the components with what is modelled of each, and the hazards at the lines
where they bite.

## Plan

Ordered by what the program is for; every item is a module (or two) with its MC module, its cfg and
its proofs.

1. **Orders** (done): `OrderTransactions`, the abstract `OrderLifecycle` and, for requests that
   overlap, `OrderOverlap`, the mappings in `OrderRefinement`, and `OrderAnalytics`, which reads
   what they write.
2. **AuthSessions** with one-time codes (done), with and without overlapping requests; the abstract
   `SessionLifecycle`, and the mapping `SessionRefinement`.
3. **Invites** with `registerCompany`, `createDispatcher` and `onboard` (done).
4. **Tenancy** and, composed on top of it, **Devices** (done): the pool, row-level security, the two
   pointers and the deadlock of `pair` with `revoke` that Postgres breaks.
5. **Clients** (done): the dashboard's middleware and the app, with the backend's rotation;
   `ClientRefinement` maps them to `SessionLifecycle` too.
6. **Live** (done): positions, status, the gateway's events and the tabs that show them.
7. **Recovery** (done): the reset of a password from the screens to the SMS gateway and back.

What could follow: abstract specifications of an invite (open, settled, void) and of a pairing, and
their implementation by `Invites` and `Devices`; several backend processes behind the Redis adapter
of Socket.IO, with one throttle map each; progress of the dashboard's refetch under a fair network.

## Modules

| Module | What it is |
|---|---|
| `OrderTransactions` | Orders and courier status under concurrent requests |
| `OrderLifecycle` | What the orders service promises, with no requests and no database |
| `OrderOverlap` | What is left of that promise when requests for one order overlap |
| `OrderRefinement` | The mappings from the first to these two |
| `OrderAnalytics` | What the summary's queries join of the rows of the first |
| `AuthSessions` | Refresh tokens, password and one-time codes under concurrent requests |
| `SessionLifecycle` | What the service promises of a session, with no requests and no database |
| `SessionRefinement` | The mapping from `AuthSessions` to it |
| `Invites` | Registrations, invites and acceptances, with the pages on both sides |
| `Tenancy` | The pool of connections, the actor's settings, the row-level policies |
| `Devices` | Registering, pairing and revoking devices, in the transactions of `Tenancy` |
| `Clients` | A browser's cookies and an app's keys, and the requests that replace them |
| `ClientRefinement` | The mapping from `Clients` to `SessionLifecycle` |
| `Live` | Positions and statuses on their way to the tabs of the dashboard |
| `Recovery` | A forgotten password: screens, code, cooldown, SMS gateway |
| `MC...` | The small instances of these, for TLC |
| `..._proofs` | The proofs, for instances of any size |

The definitions whose comment begins with "A slip" are not part of any specification: each is a
definition of the module as a plausible mistake in the code would make it, and `PROJECT.json`
names the property that fails with it.

### OrderTransactions

The variables `order`, `history`, `delivery` and `courier` are the committed rows. An order that
does not exist yet has status `"NONE"`. `orderLock` and `courierLock` say whose open transaction
has updated a row. `pc` and `work` are, for each request slot, how far its handler has come and the
locals it keeps across awaits: the order, the status and courier it read, the status it will write.
`orderFeed` is the last broadcast about each order; `retracted` is an auxiliary variable that marks
a broadcast whose transaction was rolled back. `pairing` is what each `pair` of devices in flight
has read of its courier, and the auxiliary `restored` the couriers who are DELIVERING because a
pairing has written that back.

A handler goes through four steps, and other requests run between any two:

| Step | Code |
|---|---|
| `StartAssign`, `StartTransition` | the SELECT of `getByIdOrThrow` and every check in memory (`assign` 139-150, `transition` 164-193) |
| `UpdateOrder` | the UPDATE of orders (152, 195), the history and audit inserts; waits for the row lock |
| `SettleCourier` | `applyCourierStatusSideEffect` (217-238) and the broadcasts (159, 200); waits for the couriers row if it will update it |
| `Commit` or `RejectDelivery` | the insert into deliveries (202-212), then COMMIT, or the constraint error and ROLLBACK |

`Fail` is any other end: a failing statement, a lost connection, a restart of the backend. `Create`
is one step, because nobody can know the id of the order before its transaction commits.
`ChooseStatus` is `updateOwnStatus`, one UPDATE of one row in a transaction of its own. The third
writer of `couriers.status` is `DevicesService.pair`: it reads the courier (`ReadForPairing`, line
65), awaits the save of the device, and then saves the courier (`SaveCourier`, 77), which writes the
status it has read over whatever is committed by then; or it ends without (`EndPairing`).

What was decided where the code leaves a choice:

- A transaction's writes appear in the rows at `Commit`. Until then nobody else can see them, and
  nobody else can have written the same row, because of its lock; so the values written at `Commit`
  are the ones the statements wrote. `assignedCourierId` keeps its committed value in every UPDATE
  but assign's.
- The conditional UPDATE that frees a courier matches the row as committed when it runs. If
  another transaction holds that row, Postgres waits only if the committed version matches, and
  evaluates the condition again on the new version: `SettleCourier` therefore waits while the
  committed status is DELIVERING and the row is locked, and passes it by otherwise.
- History rows are listed in commit order. Their `createdAt` is `now()`, the start of the
  transaction, so a reader who sorts by it may see rows of overlapping requests swapped.
- A request that fails a check changes nothing and is not a step. SUPER_ADMIN cannot reach the
  handlers: `@Roles` on the controller does not name it.
- `OwnChoices` is the set of statuses couriers choose in an instance, a subset of those the DTO
  accepts: the properties see no difference between ONLINE, OFFLINE and PAUSED.
- What `updateOwnStatus` saves is the status it was asked for: that of its read never differs. What
  it does to `currentDeviceId` is in `Devices`.
- The courier broadcasts are not kept: nothing in the repository says what they promise.
- Rows of `audit_logs`, addresses, priorities and times are not modelled: no condition reads them.

### OrderLifecycle, OrderOverlap and OrderRefinement

The lifecycle has the status, the holder and the deliverer of each order, and three actions:
create, assign from CREATED, and move along an edge of the transitions table, which records the
holder as deliverer exactly when it reaches DELIVERED. `OrderRefinement` reads them from the
committed rows.

The service implements that only while no two requests for one order overlap (`SerialSpec`), and a
run shows a behaviour of `Spec` that leaves the table. `OrderOverlap` is what it promises without
that restriction. It has one variable more, `open`: the statuses that requests still open for an
order have read, which `OrderRefinement` collects from `pc` and `work`. A request opens by adding
the status the order has, and closes at its commit or rollback. An order moves only along an edge
from a member of `open`, which its status need not be any more; only an assignment names a courier;
a delivery is recorded for the courier the order has at that moment, and never a second time. So a
lost update costs the status and nothing else: the UPDATE of a transition writes the status column
alone, and what an assignment wrote under it stays. `LifecycleUnlessStale` says the converse: a step
that changes an order of which no open read is out of date is a step of `OrderLifecycle`, whatever
happened to the order before.

### OrderAnalytics

The averages of `getSummary` join an order's history with itself: ACCEPTED rows with DELIVERED rows,
CREATED rows with ASSIGNED rows. `DeliveryPairs` and `DispatchPairs` are those joins, `Deliveries`
the rows of deliveries counted for a courier, over a range of dates that has all of them, and
`TopCouriers` the couriers the leaderboard may name: `Limit` of those with most deliveries, any of
those who tie. The five queries each have a snapshot of their own; they are modelled as of one
state. Nothing is said of durations: `createdAt` is the time at which a transaction began, so the
order of the rows, that of the commits, does not order them.

### AuthSessions

`token` is the table `refresh_tokens`: for each token its account, its family, whether `revokedAt`
is set, and `next` for `replacedByTokenHash`. A token that was not issued yet has no family; a
family goes by the name of its first token, in place of the random UUID. `password` is what the hash
in `users` verifies, `code` and `cooldown` are the two Redis keys of a phone. `held` are the tokens
a client was sent, `fate` how far a code has come (drawn, sent by SMS, used for a reset). `ended`,
`chosen` and `raced` are auxiliary: what has ended a family, which password was last set by a reset,
and which accounts have ever had two requests in flight at once.

These endpoints run outside `runForActor`, so every awaited call is a step that others see at once:

| Handler | Steps |
|---|---|
| `login` 97-114 | `StartLogin` (read, verify), `RecordLogin` (save the account), `IssueFirst` (insert the token, answer) |
| `refresh` 116-147 | `StartRefresh` (read, checks), `IssueNext` (insert the successor), `Rotate` (save the old token, answer); or `StartReuse`, `EndFamily` when it reads a revoked token |
| `logout` 149-155 | `StartLogout` (read), `EndFamily` (one UPDATE) |
| `forgotPassword` 165-173, `issue` | `StartForgot` (cooldown checked), `StoreCode`, `StoreCooldown` (and SMS) |
| `resetPassword` 182-192, `verify` | `StartReset` (code read and compared), `ConsumeCode`, `SavePassword`, `RevokeAll` |

`Fail` stops a handler between any two of them, and what was committed stays.

What was decided:

- `repository.save(entity)` of TypeORM loads the row again and writes the columns in which the
  entity, read earlier, differs from it. So `RecordLogin` writes back the password hash that was
  read, and `Rotate` writes the two columns it sets. The load and the write are one step: what could
  come between them differs from a step before or after it only if it writes the same column, and
  then the order of the two writes decides.
- Nothing in the code deactivates or deletes an account, so the checks of `isActive` always pass.
- An answer may be lost on its way to the client (`Answer`), and an SMS may not be delivered.
- A token is presented by a client that was sent it, and a code after it was sent: other values find
  no row or do not match and change nothing. A refresh with an expired token changes nothing either.
- Two codes drawn for a phone are taken to be different; they are six random digits.
- Hashes and access tokens (which the server keeps no state of) are left out; `registerCompany` is in
  `Invites`, the expiry of codes and the sending of messages in `Recovery`.

### SessionLifecycle, SessionRefinement and ClientRefinement

In the lifecycle a session goes by the name of its first key. A login opens one (`Open`), a refresh
takes a key that works and sends another or loses it (`Renew`), a key of an open session can close
it (`CloseWith`: a logout, or the reuse of a key that was replaced), a reset closes all sessions of
the account (`CloseAll`). All this is for good, with one key at a time, unless requests of the
account have overlapped (`Overlap`): then a request that was on its way may open a session again
(`Reopen`) or give it a second key (`Branch`). That is what `src/README.md` does not say, stated as
what a client may count on.

`SessionRefinement` reads the state of the lifecycle from the rows of `refresh_tokens` and from what
clients were sent: a session is a family, open while one of its tokens is not revoked; the keys are
the tokens in `held`. The successor that a handler has inserted and not answered with is not a key
yet, so `IssueNext` does not show, except where it is the first live token of a family that was
ended meanwhile, which is `Reopen`. `ClientRefinement` reads it from the pairs that the backend of
`Clients` has issued. So the short backend that the clients' properties rest on keeps the promise
that the detailed one is shown to keep.

### Invites

`invite` and `user` are the committed rows; `user` is indexed by what has made the account, an
invite or a registration, and `couriers` are the invites whose acceptance has made rows of couriers
and vehicles. An invite and its token are one value: `shown` are the links the staff was shown,
`expired` the invites past `expiresAt`. A process is a request of the staff, or a browser tab with
the accept page, whose `pc` is what the page shows between its requests.

| Handler | Steps |
|---|---|
| `registerCompany` | `StartRegister` (e-mail looked up), `InsertUser`, `CommitCompany` |
| `create` 39-102 | `StartCreate` (role and e-mail checked), `CheckInvites`, `SaveInvite`, `ShowLink` (the form) |
| `revoke` 109-132 | `StartRevoke` (read, checked), `LoadRevoked`, `SaveRevoked` |
| accept page, `accept` 157-220 | `OpenPage` (preview), `StartAccept` (read, checked), `InsertUser`, `CommitAccount`, `LoadAccepted`, `SaveAccepted`, `SignIn` |

`CheckInvites` takes any one open invite of the address, as `findOne()` without an order does: when
it meets an expired one, a pending one beside it goes unnoticed. `LoadAccepted` and `LoadRevoked`
are the SELECT of TypeORM's `save()`, which decides by the row it finds then whether the other of
the two columns is written back as the entity has it. `InsertUser` waits for another open
transaction with the same address, as the UNIQUE column makes it. `Fail` ends a handler anywhere;
`cut` and `contested` mark the invites whose acceptance was cut off after its first commit, or met a
revocation.

### Tenancy and Devices

`Tenancy` has the connections with their session variables, the FIFO queue in front of them, and the
actor of every request. `Arrive`, `Connect`, `Begin` and `Release` are `runForActor`; `Visible` is
the policy of every tenant table. `connect()` and `startTransaction()` stand outside of its `try`:
`ConnectFails` ends the request with nothing taken, and `StartFails` without giving back what it has
taken, so the connection may be `leaked` (the pool itself notices only one that is broken).
`AskPublic` is a statement of a request without an actor, and `AskProfile` that of `GET /auth/me`,
whose repository takes a second connection while the first is held.

`Devices` runs its handlers on a connection of `Tenancy`: every read sees what `Visible` admits, and
writes show at `Commit`. `work` has what a transaction has written and not committed: `row` of the
device, `points` of the courier.

| Handler | Steps |
|---|---|
| `register` 15-43 | `FindNone`, `Insert` (waits for, or fails on, the UNIQUE hardware id) |
| `pair` 57-92 | `FindPair`, `LoadDevice`, `UpdateDevice`, `LoadCourier`, `UpdateCourier` |
| `revoke` 94-122 | `FindRevoke`, `ClearCourier`, `LoadDevice`, `UpdateDevice` |
| `updateOwnStatus` of `couriers.service.ts` 130-150 | `FindOwn`, `LoadCourier`, `UpdateCourier` |

Then `Commit`; or `Rollback` anywhere; or `Abort` when two wait for each other; or `Refuse` when the
handler finds nothing to work on. A courier's own status request is here because it saves the row
that points at the device: where a pairing was committed since its read, it writes the old pointer
back. `LoadCourier` may find the status different besides, which locks the row all the same. `bond`
are the pairings that were committed and that no commit has undone since, `raced` the devices and
couriers two requests, status requests among them, have worked on at once.

### Clients

A pair of tokens is one value; a client is a browser with two cookies or an app with two keys, both
of which may hold halves of different pairs for a while. A task is a request of the client: of the
middleware (`Navigate`, then `AnswerBrowser` or `RedirectToLogin`), of the login form or the logout
button (`LogIn`, `LogOut`), or of the app (`Launch`, `FetchMe`, `FetchHome`, `Fetch`, then
`SaveAccess` and `SaveRefresh`, or `ClearAccess` and `ClearRefresh`, then `Done` or `Failed`). The
backend's part is that of `AuthSessions` in short: `IssueFirst`, `ReadRefresh` (which ends the
family of a revoked token), `Rotate`, `EndFamily`, and `RevokeAll` for a reset of the password
(`ResetPassword`, which only couriers can ask for, on any device). `Throw` is a fetch that fails,
whether or not the backend has done its part, and that of the app's retry after its new tokens were
saved. `AnswerError` is a refresh answered with an error though its token is live: a 429 of the
throttler or a 5xx, which both clients take for a refusal. `Leave` and `Kill` lose the answer,
`ExpireAccess`, `DropCookie` and `Lapse` are time. `session` is what the user expects, `left` the
families logged out of, and `disturbed` the clients whose tasks have overlapped, been cut off or met
an error.

### Live

On the backend, `Report`, `CacheLocation`, `CheckInterval`, `InsertPoint`, `Emit` and `Commit` are
`record` with its handler; `SetStatus`, `Emit` and `Commit` are `updateOwnStatus`. `Emit` hands the
event to every socket of the company's room, before the commit. `PutBack` is the `save(courier)` of
`pair`, which writes an old status without an event. `Fail` and `Restart` stop handlers;
`WindowPasses` is ten seconds of the throttle, `CacheExpires` ninety of the cache. In the browser a
tab is a map or a list: `Load` (rendered by the server, which shows no position where Redis fails to
be read: `LocationCacheService.get` then returns null), `Mount`, `FetchToken`, `Connect`,
`HandleConnection`, `Drop`, `Receive` (the map puts the position in place, the list sets its timer),
`StartRefresh`, `Render`, `ShowRefreshed`. The auxiliary variables count rows and broadcasts, and
`behind` marks what a tab could not know of: an event sent while it was not in the room, a commit
or an old status put back after its last refetch, a position that could not be read when it was
loaded. The next event clears it.

### Recovery

The screens and `forgotPassword` with `issue` (`AskOnCooldown`, `Ask`, `StoreCode`,
`StoreCooldown`), the sender (`GetToken`, `LogIn`, `Post`, `Refused`), `ShowCodeScreen`, and
`resetPassword` with `verify` (`EnterCode`, `Mistype`, `ReadCode`, `ConsumeCode`, `ShowSuccess`,
`ShowError`). `Back` leaves a screen while its request goes on. `CooldownEnds`, `CodeExpires` and
`TokenExpires` are time; `Fail` and `Restart` are faults, `MaxFaults` of them at most. The gateway
is external and known by its answers. `unsure` are the phones whose requests have overlapped, or
ended after the code was stored and before the message was sent.

## Runs

| Run | Question | Instance |
|---|---|---|
| `order_races` | What survives two requests racing on one order? | 1 order, 2 couriers, 2 requests, at most 7 history rows when a request starts |
| `order_serial` | What holds while requests for one order do not overlap? | 2 orders, 2 couriers, 2 requests, 1 pairing, a leaderboard of 1, 8 rows |
| `order_progress` | Is every request answered? | 2 orders, 1 courier, 2 requests, 3 rows |
| `order_lost_update` | Is each change validated against the current status, as `src/README.md` says? No | as `order_races` |
| `auth_sessions` | What survives two requests racing on one account, and what holds if they do not race? | 1 account, 3 tokens, 2 passwords, 1 code, 2 requests |
| `auth_fresh_login` | Do reuse and reset force a fresh login on every device? Not with a refresh in flight | as `auth_sessions` |
| `auth_password` | Does a reset update the password? Not with a login in flight | as `auth_sessions` |
| `invites` | Who gets an account, and what becomes of the invite? | 2 addresses, 2 companies, 2 invites, 1 request of the staff, 2 tabs |
| `device_tenancy` | Do companies stay apart, and do the pointers agree? | 2 companies, 2 connections, 2 requests, 2 devices, 1 courier |
| `clients` | When does a client lose its session, and what does a logout leave? | 1 browser or app, 3 pairs of tokens, 2 tasks, with faults |
| `live` | Does a tab come to show what is so? | 1 tab of either kind and company, 1 courier, 2 statuses, 2 request slots, 3 requests in all |
| `recovery` | Does the message received last have the code that works, and does a reset end? | 1 phone, 2 codes, 3 gateway tokens, 2 requests, 2 faults |

**order_races** checks, for every interleaving and every failure: types; that an order past CREATED
which was not cancelled has a courier (so the insert into deliveries never meets a NULL) and a
DELIVERED order its delivery row (`OrderIsBacked`); that orders behave as `OrderOverlap` says
(`SurvivesOverlap`); that the audit trail is sound (`TrailIsSound`): it begins with
the creation, takes only steps of the table, each from a status the order has had, and ends at the
order's status; that the last broadcast of an order at rest tells its committed status unless that
transaction was rolled back; and the converse of `SurvivesOverlap`, `LifecycleUnlessStale`.

**order_serial** checks that, without overlap for one order, the history is a path, the delivery
row is there only for a delivered order and names its courier, a courier shown DELIVERING has an
order in progress although his orders are handled at the same time (unless a pairing has written an
old DELIVERING back, and nobody his status since), that the joins of the summary count each
delivered order once and its leaderboard leaves nobody out who has delivered more
(`SummaryAgrees`), and that the service implements the lifecycle.

**order_progress** checks that every request is answered (`RequestsEnd`), and why: who waits for a
row does so for a request that is running, and that one for none or for one that waits for nobody
(`WaitsAreShort`), because a handler updates an order before a courier and ends after that.

**order_lost_update** is a disagreement. A request that read CREATED to assign waits for the row
while another, which also read CREATED, cancels; the assign then overwrites CANCELLED with
ASSIGNED. The other consequences of the same race are the hazards `DeliveringHasActiveOrder` and
`DeliveryMatchesOrder` are about; both properties fail under `Spec` and hold under `SerialSpec`.

**auth_sessions** checks, for every interleaving and every place a handler may stop: that a revoked
token stays revoked, although refresh saves an entity it read long ago; that a family nothing has
ended keeps an unrevoked token, because the successor is saved before the old token is revoked; that
what clients see of the sessions implements `SessionLifecycle`. For accounts whose requests have
never overlapped it checks that no token of an ended family is live, not even the one a refresh left
behind when it was cut off, that clients hold one live token of a login, and that no code is
accepted again after it has set a password.

**auth_fresh_login** and **auth_password** are disagreements. A refresh that read its token as live
saves the successor after the UPDATE of a reuse or a reset, which revokes only the rows that are
there; the successor lives on. A login that read the account before a reset saves it afterwards, to
record the time, and the old hash with it.

**invites** checks that one e-mail address gets one account, however many invites, registrations and
tabs there are for it, and that no account of a courier is without its rows of couriers and
vehicles, wherever the acceptance was cut off (`AccountsAreSound`); that an account settles its
invite (accepted, not revoked) unless the acceptance was cut off between its two commits or met a
revocation; and that what was revoked or accepted stays so, although `save()` writes entities read
earlier.

**device_tenancy** checks that no handler has worked on a row of another company than its actor's,
although connections are reused by both companies, and some are lost; that a pairing stays within a
company; and, of devices and couriers two requests have not worked on at once, that a device has a
token exactly while it is paired, and that a pairing nothing has undone shows on both sides. The
courier's own status requests are among those that race. No run says that the pool goes on: it need
not (see below).

**clients** checks that a client whose requests have not overlapped, been cut off or met an error
keeps its session until it logs out, its courier resets the password or it is idle for thirty days,
however often access tokens expire, and that after a logout no token is stored and none of the
families it has left is live (`SessionIsAsExpected`); and that sessions follow `SessionLifecycle`
whether or not they have. With `Faulty`, fetches fail or are answered with errors, answers are lost
and apps killed. An error in answer to a single refresh does end the session, so it is among the
conditions and not among the results.

**live** checks that a tab is sent, and shows, its own company only; that a window has at most one
row of a courier, and the one row if the throttle holds others back, unless his reports have
overlapped or failed; that a map shows the report broadcast last; and that a list at rest shows what
is committed. The last two excuse what the tab could not know of: an event sent while it was not in
its room, a position that Redis had lost or failed to give when the tab was loaded, a commit after
its refetch, an old status that a pairing put back, a report that overtook another.

**recovery** checks that a message that is posted again carries a token the gateway takes; that
while nothing of a courier is on its way, the code in Redis is the one he received last, until
requests of his overlap or are cut off, and again from the next code on; and that a courier who does
not give up gets the password reset.

### Bounds

The longest legal path of an order (CREATED, ASSIGNED, ACCEPTED, PICKUP, PICKED_UP, DELIVERING,
DELIVERED) has seven rows, and in `order_races` no request starts on an order that has seven: every
complete path is there, and two requests that race to its last step reach an eighth row. A race
needs two requests, and a request that reads what two others have raced to is reached by reusing a
slot. Two couriers are needed for the courier of a stale read to differ from the one in the row, two
orders for a courier to have two at once. One pairing is in flight in `order_serial`, with
everything else between its read and its save; the other runs of orders have none, since what they
check speaks of no courier's status and a pairing locks nothing that a handler could come to wait
for in a circle. With a leaderboard of one, two couriers are one too many. `order_progress` stops at
three rows (a request may add a fourth), which includes every kind of wait: for an orders row, for a
couriers row on acceptance, and for one on release by cancellation of an accepted order.

In the runs of `AuthSessions`, three tokens are a login and two rotations, or two logins and a
rotation, or two refreshes of one token; one code is enough for it to be presented twice, and two
passwords for one to be written over the other. One account suffices because no statement touches
the rows of two.

In `invites`, two addresses and two companies let each be the wrong one, two invites may be for one
address, and two tabs may have one link open; one member of the staff can revoke or create while
they accept. In `device_tenancy`, two requests are what a pairing and a revocation, or the two sides
of a deadlock, need; two connections are the least with which a request that holds one can get a
second; the courier is of one company and the staff of the other tries to reach him. In `clients`,
three pairs are a login, a rotation and another of either, and two tasks are what can overlap; one
client suffices for TLC because the proof shows that a step of one client leaves the others' part of
the invariant alone (`OthersKept`). There TLC tells states apart by `ClientView`, which leaves out
only what no later step or property depends on: the access token a task was started with, once its
request has been sent with it; whether a revoked token has expired too; and, since a disturbed
client stays so, what its user expects. Two states with one view have the same successors, up to the
view, and satisfy the same properties. In `live`, three requests are reports and changes of status
in any mixture, so each event can meet a stale cache, a lost connection, or another event. In
`recovery`, three gateway tokens are one more than the cache and the other request can have, so that
a new one can always be issued; two faults let one fall into the repetition after another.

Values that the code only compares are symmetric: orders, couriers, requests, tokens, codes,
addresses, companies without a part of their own, connections, devices, statuses. No liveness
property is checked with symmetry. Deadlock is checked in every run except `invites`, which stops
when every address and invite has been used, `clients`, which stops when the pairs have been, and
`device_tenancy`, where leaked connections and requests that need two stop the pool.

### Fairness

`FairSpec` of `OrderTransactions` assumes weak fairness of `Commit` or `RejectDelivery`: Node
continues a handler it has begun and `runForActor` always ends the transaction. It assumes strong
fairness of `UpdateOrder` and `SettleCourier`, because a Postgres row lock is handed to waiters in
the order they queue, so a handler that waits while others take the lock again and again gets it in
the end. Nothing is assumed of `Fail`, of new requests or of couriers.

`FairSpec` of `Recovery` assumes weak fairness of the backend's steps of each request, as above, and
of `CooldownEnds`, which is a key's TTL in Redis. The rest is about the courier: weak fairness of
`Back`, strong fairness of asking for a code and of entering the one received. That is what "does
not give up" means in `RecoveryEnds`: codes may expire and requests fail between, but he tries
again. The property says nothing of runs in which requests of one courier overlap for ever, since
each would replace the other's code.

## Proofs

Every theorem holds for any sets of orders, couriers, requests, accounts, tokens, tabs and so on,
and for any bound. The assumptions on constants are the named ones of the modules (`NullsAreNotIds`
and the like), and TLC evaluates them in the runs.

`OrderTransactions_proofs` proves that `Spec` keeps `IInv`, from `NullsAreNotIds` and
`DeliveringIsNotChosen`. The safety invariants are not inductive alone. What they need:

- `LockOK`: a request holds the row lock of its order from its UPDATE to the end of its
  transaction. It makes the writer of an order unique (`OneWriter`).
- `WorkOK`: what remains true of a stale read. The step a handler takes was an edge of the table
  when it was checked, and if the status it read was not CREATED, the order still has a courier.
  This is why `InProgressHasCourier` survives the races although statuses are overwritten.
- `FeedOK`: the last broadcast is that of the transaction about to commit, or agrees with the row.

From `IInv` follow the theorems for `TypeOK`, `OrderIsBacked` (a courier while in progress, a
delivery row once delivered) and `FeedIsCurrent`, and that the history ends at the status. For
`TrailIsSound` `GroundedInv` adds `ReadsOK`: the status a handler has read, however stale, is one
the history has led to, because histories only grow (`ReachedStays`). For `WaitsAreShort`,
`LastLockOK` says that whoever has locked a couriers row has no row left to lock. `NoCircularWait`
is the safety half of `RequestsEnd`, for any number of requests.

`OrderRefinement_proofs` proves that `SerialSpec` keeps `SerialInv`: `IInv`, at most one request per
order, that what a request read is still so (`SnapshotOK`), who holds a courier's lock and must hold
it (`CourierLockOK`), and, for the courier's status, `DeliveringOK`: whoever is DELIVERING is
occupied by an order in progress, and a request about to end that order holds his row, unless he is
in `restored`; so a pairing may write DELIVERING back at any time. From it follow `HistoryIsAPath`,
`DeliveryMatchesOrder`, `DeliveringHasActiveOrder` and the refinement `SerialSpec =>
ImplementsLifecycle`. Under `Spec` itself, `OverlapRefinement` shows `Spec => SurvivesOverlap` from
`IInv` and from `UncreatedIsBare` (no courier before creation): `StartOpens`, `OpenStays` and
`ReleaseCloses` say what each step of a handler does to the reads in flight, and `CommitSurvives`
that a commit is an assignment or a move from its own. `OnlyStaleReadsDeviate` proves
`LifecycleUnlessStale` by the lemmas of the first refinement: a commit that changes an order without
stale reads read what is still so. For the summary, `TrailInv` says that a history climbs: each row
has a higher rank than the one before, so no status is entered twice, and ACCEPTED comes before
whatever needs it. `SummaryIsRight` follows. Under `Spec`, where histories need not climb,
`DeliveredCount` goes back along a grounded history from DELIVERED to CREATED: on that way each
status has one that leads to it (`OneWayIn`). So a delivered order is in both averages however
requests race, though perhaps more than once.

`AuthSessions_proofs` proves that `Spec` keeps its `IInv`. `FamilyStaysAlive` is not inductive: a
rotation may revoke the last live token of a family. `SuccessorOK` says why it may: the successor a
handler has inserted is known to no client before the rotation that answers with it (`HeldGrows`),
so no other handler can revoke it alone, and whatever revokes it with its family or account ends
that family (`EndsWhatItRevokes`, `SuccessorLives`). `RowsOK` says that a family belongs to one
account, which is why a reset ends whole families. From `IInv` follow the theorems for `TypeOK`,
`FamilyStaysAlive`, `RotationStaysInFamily` and the action property `RevokedForGood`; none of them
needs requests not to overlap. The second part is about the accounts for which they have not
(`AloneOK`: at most one request is in flight). Then a token that was read as live still is so
(`LiveOK`), and a code that matched has not been used (`CodesOK`, `FreshOK`); with `EndedOK`,
`EndedMeansDead`, `NeverTwoTokens` and `SingleUse` follow. The third part is the refinement `Spec =>
ImplementsSessions`. Every step that inserts, revokes or answers with tokens has a lemma that names
the step of the lifecycle it is (`LoginOpens`, `SuccessorReopens`, `RotationRenews`,
`EndFamilyCloses`, `RevokeAllCloses`), and `QuietSteps` covers the rest. Besides the invariants
above it needs that a family goes by the name of one of its own tokens (`RootsOK`) and that a
successor is not revoked before what it replaces (`ReplacingOK`): so a rotation leaves its session
as open as it was. `LiveOK` is what confines `Reopen` and `Branch` to accounts whose requests have
overlapped.

`Invites_proofs`: `InsertOK` says that an open transaction's new address belongs to no account and
to no other open transaction, `AccountsOK` that an account has the address and role of its invite,
`CreatedOK` that a handler past its first commit has its account. `AcceptedOK` and `SettledOK`
relate the invite to it: an accepted invite has an account, and an invite with an account is
accepted, or about to be, or its acceptance was cut off or met a revocation. From them follow
`OneAccount` and `CouriersComplete` (together `AccountsSound`), `InvitesSettle` and the action
property `RevocationIsFinal`.

`Devices_proofs` has the invariant of the pool in it, because the handlers run there. `HoldsOK` and
`SettingOK` say whose a connection is and what its variables are; with them `Isolation` follows from
`Visible`, leaked connections or not. `Saves` says of a `save(courier)` under way, of a pairing or
of a status request, that what it may write to the pointer is within the company, however old.
`RowLockOK` (one writer of a device), `RacedOK` (who is not raced works alone), `EntityOK` and
`PointerOK` (what a handler read is still so, or is raced) and `BondOK` give `OneCompany`,
`TokenGoesWithPairing` and `MutualPairing`.

`Clients_proofs` separates what holds of everything (`GlobalOK`: the types; that what a client
stores was issued to it; that a family has one user) from what holds of an undisturbed client
(`ClientOK`: one task at a time, no live token of a family it has left unless a logout is about to
revoke it, and what is stored at each step of a task). The lemma `TaskStep` shows that a step of a
task keeps the part of its own client, and `OthersKept` that it touches nothing the parts of the
others speak of. From them follow `TheSessionLasts` and `LogoutIsComplete`, together
`SessionAsExpected`. `SessionsFollow` is the refinement `Spec => FollowsLifecycle`: only the
backend's part of a task issues and revokes (`OtherSteps`), and an undisturbed client rotates a
token that is still live, so only a disturbed one branches. A reset closes all sessions of its user
(`ResetCloses`) and an error changes none (`AnswerErrorOK`).

`Live_proofs`: `SocketsOK` and `AnswersOK` (a tab in no room has an empty inbox, and an answer has
its company's couriers only) give `RoomsSeparate`; `SampleOK` relates the throttle to the rows of
the window and gives `TrailSampled`; `CacheOK`, `InboxOK` and `MarksOK` say where the newest
position is (in the cache, on its way to the tab, or on its map) and give `MapIsLatest`;
A position that a map could not read is behind from its load on, so `MarksOK` holds of what it did
read. `RefreshesOK` and `ListOK` do the same for the refetch and give `ListIsCommitted`; `PutBackOK`
is the old status a pairing puts back.

`Recovery_proofs`: `WorkOK` says that a handler which has logged in itself holds a token that the
gateway takes; `AloneOK` and `CodeOK` that the code in Redis, of a phone that is not `unsure`, is
the one about to be sent, if one is, and otherwise the one received last. `LastMessage` follows.

Only model-checked: the liveness properties `RequestsEnd` and `RecoveryEnds`, since liveness under
fairness is out of the prover's reach, and that the three disagreements are there, since a
counterexample is found and not proved.

## What the models show besides

Remarks on the code that came out of the modelling and are not stated as findings, because no
property of a run is about them, or the runs excuse them explicitly:

- `src/apps/dashboard/src/middleware.ts` 13-15 says that only thirty idle days or a logout end a
  session. Two requests of one browser that both find the access cookie gone refresh with one token, and
  the later one reads as theft; a fetch that throws (45-47) also goes to the login page, and so does
  one answered with an error though the token is live, a 429 of the throttler or a 5xx (36-38). The
  app does the same (`src/apps/mobile/src/lib/api.ts` 33, 56-58).
- `src/apps/dashboard/src/lib/api.ts` 20-23 says that a 401 there means that the refresh token is gone;
  an access token that expires between middleware and page gives one too.
- `src/apps/dashboard/src/components/RealtimeProvider.tsx` 22-30 says that a tab picks up a fresh token
  on its next reconnect. The token is fixed when the socket is made, so after fifteen minutes a
  reconnect is refused. No reconnect starts a refetch, although the indicator says connected again.
- The map keeps a position it was sent after the ninety seconds of the cache are over.
- `src/apps/mobile/src/lib/api.ts` 108 says that `/auth/logout` is not public; it is
  (`modules/auth/auth.controller.ts` 43).
- `HomeScreen` of the app does not handle `AuthExpiredError`: after a lost refresh the screen stays,
  and the user is signed out when the app is started again.
- `modules/auth/auth.service.ts` 170 says of the cooldown that a code was sent recently. It is set before
  the SMS is, and if sending fails the next request within the minute is answered 204 with nothing sent.
- `src/README.md` 164 says that a duplicate pending invite is rejected. Two requests at once both pass
  the check, and so does one whose `findOne()` meets an expired invite of the address first.
- `users.phone` is not UNIQUE: couriers who accept with one number share its codes.
- As many `/auth/me` at once as the pool has connections wait for each other for ever, and every later
  request behind them: the pool has no timeout. A START TRANSACTION that fails leaks its connection,
  since `common/tenant/tenant-context.service.ts` 37-38 stand outside of the `try`; with each, fewer
  `/auth/me` suffice, and after as many as there are connections nothing is served at all.
- `pair` writes back a status of the courier that may be long over, DELIVERING among them
  (`modules/devices/devices.service.ts` 65, 77), without an event; `updateOwnStatus` writes back a
  `currentDeviceId` that a pairing has replaced meanwhile (`modules/couriers/couriers.service.ts`
  138-144), after which device and courier disagree.
- `realtime/location-cache.service.ts` 44-52 answers a failing Redis like an empty one: a map loaded
  then shows nobody until the next reports.

## Not modelled

- Several backend processes. Orders, sessions, invites and devices do not depend on their number,
  since all they share is in Postgres and Redis; positions do (each process has a throttle map of its
  own, and events go through the Redis adapter of Socket.IO).
- The throttler, validation pipes, the exception filter, health checks and configuration:
  settings of the framework, or pure I/O. What an error of theirs does to a client is in `Clients`.
- Whether the pool serves every request in the end: it need not, as said above.
- The pages for orders, devices and analytics, the layout of all pages, maps and translations: they
  keep no state that outlives a request, and what they fetch is in the models of the backend.
- Rows of `audit_logs`, written and never read by the program; indexes, geography and the columns no
  condition reads.
- The SMS gateway, Postgres, Redis, TypeORM and Socket.IO themselves: they are in the models as far as the
  code in `src/` depends on what they do.
- Access tokens: the server keeps no state of them, and what they do when they expire is in `Clients` and
  `Live`.
- Shared types: declarations without behaviour.
