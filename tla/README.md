# A TLA+ model of maghsul_backend

`maghsul_backend` is the server of a laundry marketplace: an Express
application on Node.js over PostgreSQL (Prisma), Redis, BullMQ and Socket.IO.
Customers order a pickup, drivers collect the clothes, the laundry ("washer")
works on them, the customer pays, a driver brings them back.  This directory
holds TLA+ modules translated from the source, the TLC configurations that
check them on small instances, and TLAPS proofs of what holds for every
instance.  `PROJECT.json` says which source lines each definition stands for.

Paths below are relative to the repository root.

## 1. The system

### 1.1 Components

| component | code | state it keeps | operations |
|---|---|---|---|
| orders | `src/modules/orders` | `Order.status`, `driverStaffMembershipId`, `OrderEvent`, `OrderItem`, `totalPrice` | createOrder, setOrderDetails, updateWasherStatus, updateDriverStatus, customerCancel |
| drivers | `src/modules/drivers` | `DriverTask.status`, `assignedDriverId` | claimPickupTask, claimDeliveryTask, claimDeliveryByOrderId |
| payments | `src/modules/payments` | `Payment`, `Order.paymentStatus`, `Order.paymentMethod`, `Invoice.paymentStatus`, `WebhookEvent` | createMoyasarPayment, markOrderPaidManually, switchToCod*, collectCashByDriver, receiveMoyasarWebhook, processWebhookEvent |
| refunds | `src/modules/payments/refund.service.js` | `Refund` rows of a payment | processOrderRefund |
| notifications | `src/modules/notifications` | `NotificationOutboxEvent`, BullMQ jobs, `Notification` inbox, `NotificationDelivery` | outbox dispatcher, queue, worker, processing lease, delivery service |
| realtime outbox | `src/modules/realtime` (dispatcher, publisher, registry, target resolver, outbox service) | `RealtimeOutboxEvent` | safeCreateEvent, pollOnce, processEvent, recovery of expired claims |
| sockets | `src/modules/realtime/socket-*` | connected sockets, rooms, Redis adapter state | connection handler, room joins, session disconnect, start/stop |
| event registry, targets, rooms | `src/modules/realtime/realtime-event.registry.js`, `realtime-target.resolver.js`, `socket-room.*`, `socket-context.resolver.js` | none of their own; who is in which room | resolve the rooms of an event, join, emit |
| staff contexts | `src/modules/auth/v2/staff.controller.js`, the guards in `src/middlewares` | `Session.staffMembershipId`, `washerId`, `branchId` | verifyOtp, getContexts, selectContext, switchContext; the guards of a request |
| sessions | `src/modules/auth/services` (session, token, canonical context) | `Session`, refresh token hash and generation, Redis session cache | createReplacementSession, rotateRefreshToken, revokeSession, getSessionState |
| OTP | `src/modules/auth/services/otp.service.js` | `OtpCode` | sendOtp, verifyOtp |
| staff invitations | `src/modules/auth/services/staff-invitation.service.js` | `StaffInvitation`, `StaffMembership` | create, resend, revoke, accept |
| permissions | `src/modules/auth/services/permission.service.js`, `src/middlewares/requirePermission.js` | permission version and cached permission sets | resolve, increment |
| users, account deletion | `src/modules/users`, `src/workers/accountDeletion.worker.js` | `Identity.status` and `deletionScheduledAt`, `UserDevice` | upsertByPhone, updateMe, upsertFcmToken, request, restore, the deletion worker, createUser, deleteUser |
| work lists | `washers.service.js`, `drivers.service.js` | none of their own | the lists of a laundry and of a driver |
| washers, coverage | `src/modules/washers` | `Branch`, `CoverageZone`, payment methods, schedule | replaceBranchCoverage, saveBranchNeighborhoodCoverage, savePaymentMethods, saveSchedule, evaluateBranchCoverage |
| products | `src/modules/products` | products of a washer, Redis cache | save, list |
| geo, analytics, customer | `src/modules/geo`, `analytics`, `customer` | none of their own | read-only queries |
| middlewares, config, utils | `src/middlewares`, `src/config`, `src/utils` | none that outlives a request, except the connections | request pipeline, environment, parsing |
| legacy notification path | `src/config/queue.js`, `src/workers/notification.worker.js`, `notifications.service.js` | `Notification` inbox | trySend, createAndSendNotification |

### 1.2 How they interact

* HTTP handlers call services; a service reads rows, validates the snapshot,
  then opens an interactive Prisma transaction (PostgreSQL, READ COMMITTED) in
  which it writes.  Several Node processes may run; nothing serialises two
  requests for one order except what the statements themselves do.
* Inside the transaction services append to `RealtimeOutboxEvent`; the
  realtime dispatcher polls that table with `FOR UPDATE SKIP LOCKED` and emits
  to sockets.
* Invitations append to `NotificationOutboxEvent`; the notification dispatcher
  claims rows, puts a BullMQ job per row, and marks the row queued; the worker
  takes a processing lease, writes inbox and delivery rows and sends through
  Firebase.
* Orders and payments also enqueue a legacy notification job after their
  transaction (fire and forget).
* The payment gateway (Moyasar) is called from request handlers and calls back
  by webhook, which may be delivered more than once and in any order.
* Sessions, permissions and products are cached in Redis beside their rows.

### 1.3 What is hard, and what makes each component correct

* **orders, drivers** - every handler validates a row it read *before* its
  transaction; only one of them repeats the check in its UPDATE.  Correct
  means: the order moves along the transition matrix, tasks and order agree,
  no commit turns a completed task into a cancelled one or back, a cancelled
  order stays cancelled, every request is answered.
* **payments** - the same shape, with an external gateway between the read and
  the write and webhooks that race with the response.  Correct means: money
  recorded once, a confirmation never lost, prices frozen once paid.
* **refunds** - a reservation, an external call and a completion in three
  transactions.  Correct means: never more refunded than paid, the payment
  marked refunded exactly when it is.
* **notification outbox** - three hand-overs (row, job, lease), each with
  retries, crashes and timeouts.  Correct means: no recipient is sent a message
  twice by two workers at once, no event is stranded, the final status tells
  what happened.
* **realtime outbox** - at-least-once delivery with claims that expire.
* **sessions, permissions, products** - a cache filled from a row read before
  the row changed.  Correct means: a revoked session is not served from cache
  longer than the code says.
* **coverage, placing an order** - a save of zones is two UPDATEs and an INSERT
  that lock no common row; createOrder looks at the zones, then at its
  idempotency key, then takes a number.  Correct means: one order per key,
  numbers without a gap, exclusions kept, no mixture of two saves.
* **invitations** - an acceptance that compares and sets, against revocations,
  resends and compensations that write by id.  Correct means: an invitation makes
  somebody a member once, one that is pending was sent, permissions are those of
  a role the member has.
* **OTP, account deletion** - checks before writes by id: codes sent, guessed and
  used by overlapping requests; a restore racing with the deletion worker, which
  does not look again at the status of what it found.  Correct means: overlap
  costs a bounded number of codes and guesses, a deleted account stays deleted, a
  due one is deleted.
* **contexts and rooms** - a session names a context that was valid when it was
  selected; guards check it again at each request; rooms are joined once.
  Correct means: nobody is served after a suspension, a client cannot mix the
  parts of two contexts, an event reaches its parties once and nobody else.
* **work lists** - each person acts on what a query shows.  Correct means: no
  order that is not over falls between the lists.

`PROJECT.json` lists the hazards one by one, each at its line, with the
properties that guard against it.

## 2. Modules

| module | models | instances and proofs |
|---|---|---|
| `OrderStatus` | the state machine of an order: statuses, transition matrix, cancellation window | used by `OrderLifecycle` and `Payments` |
| `OrderLifecycle` | one order, its driver tasks and the overlapping requests that move them | `MCOrderLifecycle`, `OrderLifecycleProofs` |
| `WorkLists` | the lists of the laundry and the drivers, as predicates on that order | extends `OrderLifecycle`; `MCOrderLifecycle`, `OrderLifecycleProofs` |
| `OrderPlacement` | the zones of a branch, their cache, and createOrder with its key and number | `MCOrderPlacement`, `PlacementProofs` |
| `Payments` | the payments of one order: online, cash, manual, webhooks, the price | `MCPayments`, `PaymentProofs` |
| `RefundLedger` | abstract: what refunding one payment promises | implemented by `Refunds` |
| `Refunds` | processOrderRefund in its three transactions | `MCRefunds`, `PaymentProofs` |
| `NotificationPipeline` | invitation notices: outbox, BullMQ job, processing, pushes | `MCNotification`, `NotificationProofs` |
| `RealtimeOutbox` | realtime events from their row to the sockets, several processes | `MCRealtime`, `RealtimeProofs` |
| `Sessions` | sessions, refresh tokens, the cached session state, guards and sockets | `MCSessions`, `SessionProofs` |
| `StaffAccess` | invitations of one phone, the membership they lead to, cached permissions | `MCStaffAccess`, `StaffProofs` |
| `Accounts` | one-time codes, login and enrolment, the account and its deletion | `MCAccounts`, `AccountProofs` |
| `Audience` | staff contexts, the guards, customers' orders and sockets, rooms and events | `MCAudience`, `RealtimeProofs` |

Conventions shared by the modules:

* A *slot* is one request, job or socket being served.  What it has read and
  will use later is a record in `req` (`work`, `node`); each read, write or
  commit that another process could come between is a step of its own.  A
  request that validation refuses changes nothing and is not a step.
* Transactions are READ COMMITTED, Prisma's default for PostgreSQL, which no
  call in the repository overrides: a statement sees what was committed when it
  started; a row that was written stays locked until the commit; a statement
  that waited for a row evaluates its WHERE again and skips the row when it no
  longer matches.
* Several modules choose a *world* in `Init` and never change it: how many
  requests overlap, how many faults there may be.  One run then covers both
  "one request after the other, with faults" and "overlapping, with fewer".
  Properties that hold only of requests that do not overlap say so
  (`Sequential => ...`); section 4 lists what overlapping breaks.
* Time is left out.  Leases, caches, tokens and delays end whenever they may.
* Operators whose name ends in `_Bug`, `_Raw` or `_Any` stand before the
  definition they would replace: plausible mistakes in that code.  They are not
  part of any specification; each one breaks the property `PROJECT.json` names
  with it, which shows that the property depends on the code.

### 2.1 `OrderLifecycle`

State: the order row (`status`, `driver`), the `DriverTask` rows (`task`, one
pickup row and at most one delivery row per slot), the requests in flight
(`req`), the `OrderEvent` the last commit wrote (`event`), and `world`: how many
slots and drivers there are and what they may ask for.

A request's life is the code's: the read outside the transaction that validates
(`Accept`), the statement on `driver_tasks` (a SELECT leaves the row to others,
an UPDATE locks it until the commit), and the commit, which writes the order row
last.  The order row is the last row every transaction writes, so writing it and
committing is one step.  It is therefore never held as a lock in the model: what
would be seen of transactions that lock order and task in opposite orders, had the
code such, is outside `RequestsAreAnswered`, which is about the locks on tasks.

| action | code |
|---|---|
| `WasherRead`, `WasherFindDelivery`, `WasherReadyCommit`, `WasherCommit`, `WasherConflict` | `updateWasherStatus`: validation; the `ready_for_delivery` branch; the compare-and-set branch with its 409 |
| `DriverRead`, `DriverFindPickup`, `DriverCompleteTasks`, `DriverCommit` | `updateDriverStatus`: aliases and validation; the claim of the open pickup task; the tasks that are completed; the update by id |
| `CancelRead`, `CancelTasks`, `CancelCommit` | `customerCancel` |
| `ClaimPickupRead`, `ClaimDeliveryRead`, `ClaimCommit` | `claimPickupTask`, `claimDeliveryTask` |
| `ClaimOrderFind`, `ClaimOrderRead`, `ClaimOrderCommit` | `claimDeliveryByOrderId` without an open task |

`claimDeliveryTask` writes no `OrderEvent`; the others do.  Two branches of the
code, the targets `washing` and `ready`, are unreachable: neither is a status of
the matrix `assertOrderTransition` consults first.

### 2.2 `OrderPlacement`

State: the active `CoverageZone` rows of one branch, each named by the save that
inserted it (`active`); `coverage:branch:<id>` in Redis (`cache`); the public
number of the order of each idempotency key (`order`); `Washer.nextOrderSequence`
(`sequence`); the requests.  A zone is its kind, its family (circle or polygon)
and the set of places it covers; that set is all `evaluateBranchCoverage` asks of
the geometry.  `CacheShowsZones` names the only two ways in which the cached zones
go out of date, whatever overlaps: a commit whose request is about to drop the key,
and a reader that overlapped a commit; and it asks that the key is dropped unless
the process dies or Redis fails.

| action | code |
|---|---|
| `Replace`, `SaveNeighborhoods` | the start of `replaceBranchCoverage` (circles, exclusions) and `saveBranchNeighborhoodCoverage` (districts) |
| `Sweep`, `Lock` | an `updateMany` of one family of inclusion zones: what it matches, and its end once the rows are free |
| `SaveCommit` | `createMany` and the commit |
| `ClearSweep`, `Clear` | `clearBranchCoverage`, one UPDATE |
| `Deadlock` | two saves that hold each other's rows: they sweep the families in opposite orders |
| `CacheDrop`, `ShowRead`, `ShowFill`, `CacheExpires` | `CacheService.del` after each write; `getBranchCoverage`, its read and its `CacheService.set`; the hour |
| `CreateRead`, `CreateKnown`, `CreateNew`, `TakeNumber`, `CreateCommit`, `CreateDuplicate` | `createOrder`: the zones; the key (the order is answered, or 409); the increment of the washer's row; the insert; the unique key refusing it |

### 2.3 `Payments`

State: the order's `status`, `totalPrice`, `paymentStatus`, `paymentMethod`; its
invoice's status; the `Payment` rows of the gateway by external id (`row`) and
those of cash and manual settlement (`cash`); the `WebhookEvent` rows (`hook`);
what the gateway knows (`gateway`).

| action | code |
|---|---|
| `CreateRead`, `GatewayCreates`, `CreateFails`, `CreateCommit` | `createMoyasarPayment`: validation, the call, its errors, the transaction |
| `ManualRead/Commit`, `SwitchRead/Commit`, `CollectRead/Commit` | `markOrderPaidManually`, the switches to cash, `collectCashByDriver` |
| `DetailsRead/Commit` | `setOrderDetails`, which sets the price |
| `ReceiveWebhook` | `receiveMoyasarWebhook`, the unique event id |
| `WebhookReadPaid`, `WebhookPaidCommit`, `WebhookReadMismatch`, `WebhookMismatch`, `WebhookReadFailed`, `WebhookFailedCommit` | `processWebhookEvent` and its three outcomes |
| `GatewaySettles`, `OrderMoves` | external: the customer pays or not; other handlers move the order |

Nothing in the repository but its tests calls `processWebhookEvent`; the model
lets it run at any time.

### 2.4 `Refunds` and `RefundLedger`

`Refunds` follows `processOrderRefund` for one payment: `ReadOrder`; the
reservation, whose SELECT (`SumReserved`) and INSERT (`Reserve`) are two
statements; the gateway (`GatewayAccepts`, `GatewayFails`, which may have moved
the money although its answer was lost); `Complete`; `Crash` anywhere.
`RefundLedger` is what the service promises, three atomic operations on two sums
and a flag.  The refinement maps `reserved` to the sum of the pending rows,
`returned` to that of the completed rows, `refunded` to the payment's status.

Nothing in the code serialises refunds, so how many are in flight together at most
is chosen in `Init` (`together`, out of the constant `Together`) and the ledger
promises accordingly: with one at a time it is exact, never more than the payment
and refunded exactly when nothing is left; with n, the room is n times the payment
and the flag may lag or lead.

### 2.5 `NotificationPipeline`

State: `NotificationOutboxEvent` rows with their claim and lease (`outbox`), the
BullMQ job of each (`job`), each dispatcher's cycle (`disp`), each worker slot
(`work`), `NotificationDelivery` rows (`delivery`), the devices' tokens
(`valid`), what Firebase accepted (`pushed`).

| action | code |
|---|---|
| `ClaimPending`, `Enqueue`, `MarkAsQueued`, `RecordFailure`, `ReleaseClaims` | `runOnce` of the dispatcher, step by step, with its circuit breaker |
| `StartJob`, `MisCall` | the worker's job handler; `MisCall` is what it really does, see section 4 |
| `ClaimQueued`, `ClaimRefused`, `Refuse`, `Prepare` | `processEvent` steps 1 to 7: the processing claim, the permanent refusals, inbox and delivery rows |
| `SendBatch`, `SaveResult` | step 8: a batch to Firebase, then its results one by one |
| `Aggregated`, `RetryLater`, `Exhausted` | step 9: settle, release for a retry, or fail on the last attempt |
| `WriteFails`, `EnqueueFails`, `DispatcherDies`, `BodyThrows`, `SlotDies`, `JobStalls`, `LeaseExpires` | what may go wrong; all but a lease ending after its holder died draw on `MaxFaults` |

The constant `Wirings` lets the worker call `processEvent` as it does and as the
service declares.  `Recipient` gives an event one recipient or none, which is what
the repository's events have; `Prepare` then drops repeated tokens over all devices
at hand, where `notification-delivery.service.js:349` does so for each recipient.

### 2.6 `RealtimeOutbox`

State: `RealtimeOutboxEvent` rows (`row`) and the version each was written with
(`born`); the aggregate's `version`; each process's dispatcher (`node`) and
infrastructure (`infra`, `broken`); what its sockets were last sent (`seen`);
how often each event was sent (`ran`).

| action | code |
|---|---|
| `Change`, `Command` | `safeCreateEvent` inside a service's transaction |
| `Poll` | `pollOnce`: rows that are pending, or processing under a lease that is over |
| `ResolveClient`, `Publish` | the target resolver's fresh read of the aggregate; `emitClientEvent`, `.local` |
| `RunCommand` | `socket-session-control.service.js` |
| `Mark`, `MarkThrows`, `ResolveThrows` | the conditional updates of the outcome, and the catch |
| `Degrade`, `Recover`, `Stop`, `Close`, `Restart`, `Die` | `socket-redis.adapter.js`, `socket-infrastructure.js`, `realtime-application.js` |

`Namings` covers containers that all call themselves `proc-1`.

### 2.7 `Sessions`

State: `Session` and `RefreshToken` rows (`sess`, `tok`), `session-state:<id>`
in Redis (`cache`), the disconnect command of each session (`cmd`), requests and
sockets (`req`).

| action | code |
|---|---|
| `Login` | `createProvisionalSession`, `createOperationalSession` |
| `GuardRead`, `StateCached`, `StateRead`, `StateFill` | `contextGuard` and `getSessionState`: cache, row, fill |
| `HandshakeStart`, `SocketRow`, `FetchSockets`, `JoinRoom`, `SocketEnds`, `DisconnectSession` | the socket's handshake, its own look at the row, the connection handler, the command |
| `RefreshRead`, `RotateUpdate`, `RotateCommit`, `UsedAgain`, `TokenAges` | `rotateRefreshToken` with its concurrency window and reuse detection |
| `Logout`, `RemoteTarget`, `UpdateSession`, `RevokeCommit`, `CacheRevoked` | logout, revocation of another session, `revokeSession` |
| `ReplaceRead`, `ReplaceCommit`, `FamilyUpdate`, `FamilyCommit` | `createReplacementSession` (also inside an enrolment's transaction), `revokeSessionFamily` |
| `Deadlock`, `Dies`, `CacheExpires` | a rotation and a replacement waiting for each other, ended by PostgreSQL; death of the process; the time to live |

`RemoteTarget` is the handler as it is written.  The route before it refuses every
request (section 4), so the model lets a session be revoked in one way more than
clients can today; the safety properties hold with it and so without it.
`CacheFollows` says of any overlap and any fault how Redis comes to call a session
active that is over, and who corrects it.

### 2.8 `StaffAccess`

State: the `StaffInvitation` rows of one phone (`inv`, `made`), which of them
reached the phone (`sent`) or lost their sender half way (`orphan`); the
person's `StaffMembership` (`member`, `access`); `Washer.permissionsVersion`;
the cached permission sets (`cache`); the requests.  `replaced` and `seen` are
history: the roles a current answer may still grant, and those there were while
a request resolved permissions.

| action | code |
|---|---|
| `CreateInsert`, `ResendRead`, `ResendCommit`, `ResendDuplicate` | `createInvitation`, `resendInvitation` up to the commit, with the partial unique index on pending invitations |
| `SmsSent`, `SmsFails`, `Undo` | the message, and the compensation of one that failed |
| `RevokeRead`, `RevokeCommit` | `revokeInvitation` |
| `AcceptRead`, `AcceptLock`, `AcceptLost`, `AcceptRefused`, `AcceptCommit` | `acceptInvitation`: the token, the compare-and-set that locks the row, its 409, an active membership, the commit with the new version |
| `CreateStaff`, `Suspend` | `createStaff` and `upsertByPhone`; an operator |
| `ReadVersion`, `CacheHit`, `CacheMiss`, `ReadMember`, `ReadAccess`, `Fill`, `Granted` | `resolvePermissions` as `requirePermission` calls it |
| `Dies` | death of the process |

### 2.9 `WorkLists`

The queries behind the screens of a laundry (`washers.service.js`) and of a
driver (`drivers.service.js`), each under its own name, as a set of statuses or a
predicate on `status`, `driver` and `task` of `OrderLifecycle`.  They change
nothing; what they are for is `InSight`: in every state of that model, somebody
who can move the order on sees it.  Two limits are in the model: a ready order is
on the list of the driver who picked it up and on no other (`availableDelivery`
asks that the order has no driver), and an order the laundry itself moves to
`pickup_assigned` or `delivery_assigned` without a driver is on no driver's list,
so `InSight` speaks of drivers only where the statuses do.

### 2.10 `Accounts`

State: the `OtpCode` rows in the order they were created (`code`); the `Identity`
rows with their device and whether they are enrolled (`ident`); `Session` rows
with how they ended (`sess`); the requests; what the running deletion job has
still to do (`found`).  `uses` and `excused` are history for the properties.  The
default codes of `verifyOtp` are steps of their own and outside the budget
`OtpBudget` keeps.  An administrator's `UpdateUser` may give an
account a free phone or make it active; both are outside `GoneForGood`.

| action | code |
|---|---|
| `SendRead`, `SendExpire`, `SendCreate` | `sendOtp`: the cooldown, the older codes, the new one |
| `VerifyRead`, `VerifyWrong`, `VerifyClose`, `VerifyRight`, `VerifyDefault`, `VerifyDefaultMark` | `verifyOtp`: the newest code, an attempt, the last attempt, the right code, the default codes |
| `LoginUpsert`, `LoginSession` | `CustomerController.verifyOtp` after the code |
| `EnrollRead`, `EnrollCommit` | `enroll` and the replacement of a provisional session |
| `Auth` | `auth.js` for every request below: by identity, never by session |
| `UpsertFcmToken`, `UpdatePhone` | the device; `updateMe` with a phone |
| `AccountRead`, `RequestDeletion`, `RestoreAccount` | the pre-reads and updates by id of `user.service.js` |
| `CreateUser`, `CreateMembership`, `DeleteUser`, `UpdateUser` | an administrator |
| `JobFind`, `JobDelete`, `JobFault` | the daily job: what is due, a transaction for each, failure or death |
| `CodeAges`, `FallDue` | the clocks |

### 2.11 `Audience`

State: `StaffMembership` with `BranchAccess` (`staff`), branches and laundries
that are open, `CustomerMembership` (`cust`), `Session` with its context (`sess`),
sockets (`sock`), orders with whom they concern (`order`); the outbox row at hand,
the rooms it was resolved to, and who heard (`event`, `rooms`, `heard`).

| action | code |
|---|---|
| `StaffLogin`, `GetContexts`, `BranchesFound`, `BranchMade`, `ContextsBuilt` | `StaffController.verifyOtp`, `getContexts`, `_buildStaffContexts` with its default branch |
| `SelectGuard`, `SelectMember`, `SelectRefused`, `SelectBranch`, `SelectWasher`, `ReplaceRead`, `ReplaceCommit` | `selectContext` and `switchContext`, then the replacement of the session |
| `StaffGuard`, `StaffMember`, `StaffBranch`, `Served` | a request through `contextGuard` and `requireStaffSession` |
| `CustomerLogin`, `Enroll`, `CustomerGuard`, `PlaceOrder` | customers; the guards that take the laundry from the request |
| `SocketRow`, `SocketMember`, `SocketOverlap`, `SocketJoin`, `SocketEnds` | `resolveContext`, the other sockets of the session, the rooms |
| `Announce`, `Resolve`, `Emit`, `EmitFails` | a row of the outbox, `Targets` (the registry's definitions), the emission to each room in turn |
| `Assign`, `StaffChanges`, `BranchChanges`, `WasherChanges` | a claim; changes from outside (nothing in `src/` makes the last three, every check reckons with them) |

`SelectMember` looks at the membership; that `resolveStaff` also asks for an active
identity is left out, as is the session that `acceptInvitation` replaces
(`staff-invitation.service.js:438`), which only tests reach (section 4).  The first
lets the model serve more than the code does.

The emission is `.local`: the sockets are those of the process that took the row
up; other processes are in `RealtimeOutbox`.

## 3. Runs and bounds

| run | configuration | states | what it shows |
|---|---|---|---|
| `orders` | `Orders.cfg` | 512,613 | one request at a time: order and tasks agree, only claims leave the matrix; two at once: washer updates stay on it, no commit swaps completed and cancelled, every request is answered, the order is in somebody's sight |
| `order_two_claims` | `OrderTwoClaims.cfg` | violation | two drivers bind one task |
| `refunds` | `Refunds.cfg` | 214,581 | the three transactions implement the ledger, however many overlap and whoever dies |
| `refund_over` | `RefundOver.cfg` | violation | overlapping refunds exceed the payment |
| `payments` | `Payments.cfg` | 1,676,428 | the webhook stays on the matrix; one at a time: price, cash, confirmation agree |
| `notifications` | `Notifications.cfg` | 241,004 | one owner, one push, an ended job settles, pending is queued |
| `realtime` | `Realtime.cfg` | 361,034 | emitted is true, nothing goes backwards, events settle |
| `sessions` | `Sessions.cfg` | 2,891,927 | revoked stays out, one token refreshes, nobody is locked out, the cache calls a session active that is over only through a reader that overlapped its end; one at a time, sockets follow |
| `placement` | `OrderPlacement.cfg` | 967,237 | numbers without a gap, exclusions survive, the cached zones go out of date only through an overlapping reader; one at a time, saves do not mix |
| `staff_access` | `StaffAccess.cfg` | 1,914,398 | an invitation is used once, a pending one was sent, permissions follow roles |
| `accounts` | `Accounts.cfg` | 690,233 | overlapping requests cost one code, one use, one guess each and no more; a deleted account stays deleted; a due one is deleted |
| `audience` | `Audience.cfg` | 1,191,655 | a session names its own membership, laundry and branch; nobody suspended is served; events are heard by their parties, once |

**Bounds.**  Two requests overlap (slots, drivers, dispatchers, processes).
Every race in this code is between a read and a write of one request and one
write of another, so two are enough for it to happen; the invariants that are
proved hold for any number.  Per model:

* `orders`: `OneByOne` has one slot, two drivers and every target; `TwoAtOnce`
  two slots and one target of each kind of update (`MCOrderLifecycle`).  One
  pickup task and one delivery task per slot, the most the code inserts.
* `payments`: two charges (a second one while the first is open is the
  interesting case), one webhook notice that may be processed again, two rows of
  cash (`MaxCash`, so that the second meets the first), one price where price is not the question and two where it
  is, two of the statuses other handlers move an order to.
* `refunds`: three requests of up to three units, so that two partial refunds
  and a third that does not fit exist; one, two or three of them in flight
  together (`Together`).
* `notifications`: two events, one with three devices of which two share a
  token and are sent in batches of two; two attempts; one fault (`MaxFaults`).
* `realtime`: two changes of one aggregate and one command, two processes with
  names of their own or one name for both, one fault.
* `sessions`: two sessions and three tokens, that is a login, a rotation and a
  replacement; `MCWorlds` trades overlap against faults and identities.
* `placement`: two places, two keys, two saves; `staff_access`: two roles, two
  invitations.  Both trade overlap against faults in the same way.
* `accounts`: `TwoGuess` (two requests, two codes of one number, one attempt more
  than `MaxAttempts`), `ThreeCodes` (a third code of that number, so that a bound of
  two open ones can be broken), `TwoRequests` (two requests on one account and the next one
  on its number, one failure of the job), `OneByOne` (every operation, two numbers
  and identities).  An overlap needs two requests of one account; more accounts
  only matter through the unique phone.
* `audience`: `Using` (one person with all branches of one laundry and one branch
  of another, two requests, two changes from outside), `NoBranch` (two overlapping
  logins that both create the default branch), `TwoCustomers` (two people, two
  sockets, both customers of both laundries, one an owner and one a driver),
  `Both` (one person as staff and customer, every other kind of event).

Symmetry is declared only where no liveness is checked (`payments`, `sessions`,
`placement`, `staff_access`, `audience`) and over sets no operator orders.  Deadlock is
checked in `orders` and `accounts`, where a request is possible in every state; the
other models
may stop (what they count reaches its bound, every row is settled) and say
`CHECK_DEADLOCK FALSE`.

The type invariant of every module (`TypeOK`; `RefundTypeOK`, `AudienceTypeOK`) is
proved (section 6); the runs do not repeat it.

## 4. Where the code and its documents part

Two runs end in a violation.  Each states a line of the repository.

* `order_two_claims` - two drivers both claim a task (`drivers.service.js:240`):
  the second UPDATE is by id alone.
* `refund_over` - refunds that sum before either inserts exceed the payment
  (`refund.service.js:33`), although the comment above calls the transaction
  atomic.  How far they can exceed it is a theorem (`OverNoFurther`).

Other behaviour that the models have because the code has it, and that a
property excepts or that only overlapping requests show:

*Orders and drivers.*  `claimDeliveryTask` writes no `OrderEvent`.
`customerCancel` updates the order by id: a status committed since its read is
overwritten.  Two overlapping `ready_for_delivery` insert two delivery tasks.

*Payments.*  A second charge turns a paid order into an initiated one
(`payment.service.js:83`), and `setOrderDetails` then changes its price.  Cash
collected twice, or cash and an online payment, when both read before either writes.  A webhook whose compare-and-set matches nothing records
the payment and leaves the order.

*Notifications.*  The worker calls `processEvent` with positional arguments
(`notification.worker.js:97`, modelled by `MisCall`): every job ends with a
permanent error and its event stays queued.  With the declared call, a row left
processing by a slot that died is refused to the retry, because only queued rows
are claimed; a job that overtakes `markAsQueued` finds a pending row and ends.
`retry_exhausted` always settles as failed, although `notification-delivery.service.js:106`
distinguishes.

*Realtime.*  A client event is claimed by one process and sent with `.local` to
its own sockets, while the comment at `realtime-publisher.js:14-19` has every
process deliver to its own.  A process that starts while Redis is away never
recovers.  `disconnectSockets(true)` at the shutdown of one process reaches the
sockets of all.  An unknown error is retried for ever.  `socket.identity.revalidate`
has an event key, but nobody writes the event and no handler is registered for it.

*Sessions.*  A rotation extends the refresh token past `session.expiresAt`.  A
client that does not receive the answer to a refresh has lost its session at the
next try.  A socket authorised before a revocation may join its room after the
disconnect; two sockets of one session may both stay.  `session.service.js:455`
names a `cacheKey` it does not define.  A customer's operational session cannot
pass `requireOperationalSession`.  A rotation and a replacement can wait for each
other; PostgreSQL ends one.  `DELETE /sessions/:id` validates a parameter
`sessionId` (`auth.v2.routes.js:50`) where its route names it `id` (`:143`), so it
refuses every request, though `session.controller.js:163` describes how it revokes.

*Placement.*  Zones cleared after `createOrder` read them do not stop its commit,
though `docs/coverage-routing-policy.md:35-36` asks that the branch cover the
order.  A retry is refused with `BRANCH_OUT_OF_COVERAGE` when the zones
changed since the order was placed, and with 409 when the geocoder answered
differently, since its answer is part of the hash.  The idempotent answer sends
the notifications again.  Overlapping saves of different kinds leave a circle and
polygons active.  `matchedZonePriority` is the maximum over zones that do not
match, too.  `selectBestBranch` is called by tests only.  Clearing removes the
exclusions which no save removes.

*Staff.*  `createStaff` and `upsertByPhone` replace a role without a new
permission version, though `permission.service.js:107` says there should be one:
the old role is served until its key expires, within an hour.  Revocation, resend
and the compensation write by id and overwrite an acceptance they overlap: the
invitation then says revoked or superseded, the membership stays.  An expired
invitation that is pending keeps the phone from being invited until somebody
sends it again or revokes it; so does one whose sender died.  Nothing in `src/`
creates a session with the purpose `staff_invitation_accept`, so only tests reach
`acceptInvitation`; nothing in `src/` suspends a membership.

*Codes and accounts.*  `.env.example:21` sets `OTP_SEND_LIMIT`, whose check is
commented out (`otp.service.js:66`).  Two requests of one number pass the cooldown
together; one code lets two in, and the guesses of two count as more than the
limit.  `contextGuard` never looks at the identity: a session of an account that
waits for its deletion still enrols.  The worker does not compare the status again:
a restore in that gap is lost, or the restore's write makes an anonymised identity
active.  A request to register a device that is under way gives a deleted account
its device back.  The worker neither disconnects sockets nor writes the cached
session state.  `deleteUser` leaves the phone with the deleted identity, so that
number cannot log in again.

*Contexts and rooms.*  The routes of `selectContext` and `switchContext` have
`contextGuard` only, though the comments at `staff.controller.js:141` and `:168`
require a provisional and an operational staff session.  No session has a device,
so `canonicalContextGuard` counts every one, of staff too, as a customer's;
`auth.js` does not look at the session at all.  Every socket of staff is refused
(`socket-context.resolver.js:192`: the token names no application), so the rooms of
laundries, branches and identities are empty and what is meant for staff reaches
nobody.  Were they there, emitting to each room in turn would give one socket the
event several times.  A socket opened before its customer enrolled never joins the
room.  Overlapping logins create two default branches, and a laundry whose branches
were all closed gets a new one (`staff.controller.js:240`).  `requireStaffSession`
looks at the membership but not at whether branch and laundry are open.

*Work lists.*  Lists are paged by a cursor over a filter that changes: an order
that moves on between two pages is skipped or repeated.

## 5. Fairness

Only liveness needs it, and it is weak fairness of steps that stay enabled:

* `OrderLifecycle`, `Refunds`: a request that was accepted proceeds
  (`WF(Proceed(s))`).  Node runs a handler that has started, PostgreSQL ends every
  statement that waits for no lock, a gateway call returns or times out.  No
  request is assumed to arrive.
* `NotificationPipeline`: a dispatcher's timer fires again and its cycle goes on
  (`WF(Dispatch(p))`); a lease ends after its holder died, by the clock.  Nothing
  is assumed of workers: `PendingIsQueued` is about the dispatchers only.
* `Accounts`: the deletion job comes round every day (`WF(JobFind)`) and goes
  through what it found (`WF(JobDelete(i))` for each).  Its failures are bounded.
* `RealtimeOutbox`: the poll loop reschedules itself (`WF(Work(n))`), leases end,
  Redis comes back for a process that watches the connection, a shutdown ends and
  the process is started again.  Faults are bounded, so a fair behaviour has a
  last one.

The other models state safety only and need none.

## 6. Proofs

Each `*Proofs` module extends one or two components and proves, for every value of
the constants that satisfies their assumption (`ConstantsOK`; `AmountOK` of
`Refunds`, `AudienceConstantsOK`), that an invariant `IInv` holds initially and is
kept by every step; the theorems follow from it.  Nothing else is assumed (small
sets are disjoint, bounds are natural numbers, there are finitely many slots,
processes, devices and refund requests), and TLC evaluates it in each run.  No
theorem the project lists has a hypothesis of its own; where a property says
`Sequential =>`, the theorem says no more than the property.

What holds only of requests that do not overlap follows from a second invariant,
`SInv`, which adds to `IInv`, under `Sequential`, that one request is at work and
what it knows is still so.  The step that needs finiteness is the arrival: a limit
on how many are at work says that nobody is.  What `CacheFollowsAlways` and
`CacheInStep` say is not restricted to such requests: they use `SInv` only for the
disjunct that asks for an overlap.

| module | theorems | what `IInv` adds and why |
|---|---|---|
| `OrderLifecycleProofs` | `TypeCorrect`, `WasherForward`, `SettledNeverSwaps`; `SameDriver`, `AlwaysInSight`, `CancelledForGood`, `OffMatrixByClaim` | What a request in flight remembers: its target is a status, and a washer's ask is an arrow from what it read; without it a commit could write anything.  The rows locked by two requests are disjoint and a locked row is live: that is why a closer cannot overwrite the other.  `SInv`: what a request alone read of order and tasks is so; nothing leads back to `pending_pickup`, and a pending order has its pickup task open; `PickupBound` says of `PickupDriverAgrees` that both name somebody. |
| `PaymentProofs` | `TypeCorrect`, `ConfirmsAlongMatrix`, `PaidIsFinal`; `PaidThePrice`, `CashFirst`, `ConfirmsOrder` | `PaidRowsAgree` (a paid row repeats the gateway, which never takes it back), `OneCreator` (one request knows a charge whose row is not inserted yet), `Knows` (what a request in flight learnt of the gateway is still true).  `SInv`: the status and the price a request read are those of the order; an unpaid order has seen no money at all, which is what makes the first payment match. |
| `PaymentProofs`, of `Refunds` | `CompletedReturned`, `LedgerImplemented`, `OverNoFurther`, `RefundTypes` | `RefundInv`: a request that has the gateway's yes has the money returned.  `SoloInv`, for the ledger: the one request in flight has summed exactly what is given, and what it inserts still fits.  `OverInv`: what is given and what is as good as given (a request that has summed inserts without looking again) is at most `together` payments.  `LedgerInv` is `OverInv` with, where `together` is 1, `SoloInv`. |
| `NotificationProofs` | `OneOwnerAlways`, `SettledForGood`, `PushedAtMostOnce`, `EndedJobsSettle`, `TypesAlways` | `Shape` ties the fields of a row to its status and those of a slot to its step; `OneOwner` itself is then inductive, because the claim is one UPDATE over queued rows.  `PInv`, for the pushes: once an event was prepared, at most one device of a token is left to send to; one that was pushed is in the hand of the slot that saves its result, and if that slot fails the row stays with it, so no attempt takes it up.  `EInv`, for the end of jobs: while nothing fails, who works on an event has its job, and a row being processed has somebody at work on it.  `TInv`, for `TypesAlways`: a job waits or runs only while an attempt is left, and only who holds its lock counts one. |
| `RealtimeProofs` | `NeverBackwardsAlways`, `EmittedIsTrueAlways`, `SettledStaysSettled`, `SentOnceAlways`, `TypesAlways` | `Bounded` and `Good`: nothing was read or sent newer than the aggregate, a claim is at most as new as the read, and who is about to mark a row emitted has sent it.  `BInv`, for `SentOnceAlways`: whoever may still send an event holds a ticket for it (each process that has it in hand, and the row while it may be claimed); sending uses a ticket, claiming passes one on, only a fault makes one. |
| `SessionProofs` | `RevokedStaysOut`, `OneWayToRefresh`, `NobodyLockedOut`, `TypesAlways`; `CacheFollowsAlways`, `SocketsFollowAlways` | `Fits` (what a request read is possible still; who is about to cache an active state it read before the end of the session did not come late), `CacheOK` (Redis says revoked only of a revoked session), `TokensOK` (one fresh token per live operational session), `OneRotation` (a rotation holds its token's row).  `SInv`: an active state that is about to be cached is the row's, a socket between its check and its room has a live session, who enrols has a provisional one, and only a revoked session has a disconnect command.  `Remembered`, for `CacheFollowsAlways`: a slot whose sockets a handshake is about to cut serves no request, so no step ends a request but its own. |
| `PlacementProofs` | `NumberedInSequence`, `ExclusionsKept`, `TypesKept`; `SavedAsOne`, `CacheInStep` | `AllSane` and `OneNumber`: the washer's row is locked by one placement, which has the next number and no other.  `SInv`: a save alone has locked every inclusion there is of the families it has swept, and what is about to be cached is what there is. |
| `StaffProofs` | `AcceptedOnce`, `GrantsRight`, `PendingReached`, `TypesKept` | `AboutMade` (rows not inserted yet are blank, requests are about rows that are), `JoinsPending` (an acceptance under way holds its row, pending, alone), `Follow` (a role that was computed or cached under a version was held while every request that read that version was at work).  `GrantsFollowRoles` is not inductive without `Follow`: a fill writes what was read several steps before. |
| `AccountProofs` | `OtpBudgetHolds`, `GoneStaysGone`, `AccountTypes` | `CodePart` and `PhonePart` keep a budget: what a code has let in, or been guessed, and the requests that are past the check and may still add to it are together as many as requests overlap; the same of the open and the cooling codes of a number and the requests that are about to create one.  Without the second half nothing stops a request that read before another wrote.  `GonePart`: an account that went without being overtaken has nobody at work on it, and one that waits for its deletion nobody who stores a device. |
| `RealtimeProofs`, of `Audience` | `SessionsNameTheirOwn`, `OnlyMembersServed`, `HeardByPartiesAlone`, `AudienceTypes` | `Selecting` and `Using`, what a request in flight has checked: a selection past a read names what that read found, and whose a session or a membership is and which laundry a branch belongs to never changes; a request that came too late is still before its membership check, and not entitled.  `RoomsGood`: of an event that was resolved, the only room of customers is that of its order's customer.  `SocketGood`: a socket opened after the enrolment has joined that room. |

*Refunds.*  That three transactions amount to the ledger's atomic steps
(`LedgerImplemented`) is proved step by step: the reservation's INSERT is the
ledger's reservation, the completion its return, a refused call its release, and
every other step, a death of the process included, leaves the sums alone.  Sums are
counted unit by unit (`Units`, `Total`), so what a sum gains and loses follows from
the cardinality of unions and needs no induction over the requests.  The code's
transactions are READ COMMITTED and refunds may overlap, so the theorem assumes
nothing of how many do.  Of one at a time it says that the ledger is exact; of n,
with `OverNoFurther`, that what they promise is at most n times the payment; the run
`refund_over` shows two that go beyond it once.

*Induction.*  Where a proof needs the first of the numbers that have a property (the
newest code of a number, the next order) it takes the least counterexample
(`WFMin` of the library, whose parameter is a set).

What a proof shows and no run repeats: the types, `PaidRowIsFinal` of `Payments`,
`FinalIsFinal` of the notification and the realtime outbox, `OverByOverlap` of
`Refunds`.

**Only model-checked.**  Liveness: `RequestsAreAnswered`, `ReservationsSettle`,
`PendingIsQueued`, `EventsSettle` and `DueIsDeleted`, whose proof needs ENABLED,
which TLAPS cannot give here.  Every invariant and every action property the
passing runs check is a theorem.

## 7. What is not modelled

* The rest of `users`: profile fields and preferences, single updates of rows no
  other operation reads.  The rest of `washers`: profile, services and
  statistics.
* Products, payment methods and schedules: rows written one by one without a
  transaction, and a cache like that of the zones.
* The legacy notification path: fire and forget, no state but the inbox row.
* Geometry, distance and ranking of branches: pure functions; `OrderPlacement`
  takes the set of places a zone covers as given.
* Geo, analytics and customer queries, HTTP middlewares, configuration, parsing:
  no state beyond a request.
* Firebase, SMS and Moyasar adapters: external; each model that calls one lets it
  answer, fail, or act without answering.
* Time: only that a lease, a key or a token ends.  The expiry of invitations and
  sessions is left out where nothing writes it.
* Migrations, seeds, scripts, tests and documents: read, not modelled.

## 8. Plan

Done, in this order: orders and claims, refunds, payments, notifications,
realtime, sessions, placement, staff invitations, work lists, codes and accounts,
contexts and rooms.  Next:

1. Bounds like `OverNoFurther` for what section 4 lists as broken by overlapping
   requests: how far, not only that.
2. Branch ranking and coverage decisions as operators, checked against a reference
   definition; the product cache.
3. One composition of `RealtimeOutbox` and `Audience`: rooms of several processes
   under a client that reconnects.
