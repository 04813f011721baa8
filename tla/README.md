# The developer platform backend in TLA+

The repository is a NestJS application with a Postgres database (TypeORM), Redis
and BullMQ: organizations register applications and API keys, call a gateway
that meters and limits them, receive webhooks and notifications, pay for plans
through Stripe and sell APIs to one another on a marketplace. Several instances
of it may run at a time (`rate-limit/rate-limit.service.ts:26` counts on it), so
any two handlers may interleave at every `await`, and an instance may die between two of them.

Paths below are relative to `src/src/`.

## 1. Inventory

| Component | State | Operations | Speaks to |
|---|---|---|---|
| Rate limiter (`rate-limit/`) | Redis keys `rl:limit:<org>` (TTL one window) and `rl:count:<org>:<window>` | `consume`, `getLimit`; `RateLimitGuard` | Organizations (read of the limit), notifications (breach event) |
| Organizations (`organizations/`) | rows `organizations`, `organization_members` | create, members, `updateRateLimit`, `getRateLimit`, slugs | Redis (DEL of the cached limit) |
| Webhook delivery (`webhooks/`) | rows `webhooks`, `webhook_events`, `webhook_deliveries`; one BullMQ job per delivery | create, remove, `dispatchEvent`, `testWebhook`; worker `process`, `onFailed` | receivers (HTTP), BullMQ, notifications |
| Billing (`billing/`) | rows `subscriptions`, `billing_records` | plan change, checkout, confirm, Connect onboarding and status, Stripe events, bill, portal | Organizations (plan and limit), Stripe |
| Marketplace (`marketplace/`) | rows `published_apis`, `marketplace_subscriptions` | publish, subscribe, confirm, unsubscribe, Stripe events | Stripe, Billing's accounts |
| Notifications (`notifications/`) | rows `notifications`; one job per row | `notify`, worker `process` | listeners of every event, BullMQ |
| API keys and applications (`api-keys/`, `applications/`) | rows `api_keys`, `applications` | create, rotate, revoke, lookup, usage counters; `ApiKeyGuard` | Gateway |
| Gateway (`gateway/`, `api-logs/`) | rows `api_logs` | middleware, guards, interceptor, handlers | API keys, rate limiter, BullMQ |
| Authentication, users (`auth/`, `users/`) | rows `users` | register (with a workspace), login, token check | Organizations |
| Feature flags (`feature-flags/`) | rows `feature_flags` | upsert, lookup, guard | Organizations |
| Audit (`audit/`) | rows `audit_logs` | append, list | every event |
| Queue and e-mails, analytics, portal, widgets, wiring | none of their own | simulated sends, read-only queries, generated text, configuration | |

**What is hard.**

- *Check, then act, over two rows.* TypeORM's `save(entity)` writes back a whole
  entity that was loaded some awaits before, and only `rotate` uses a transaction,
  so two concurrent handlers on a row can lose an update.
- *Two stores.* A row in Postgres and a key or a job in Redis are written one
  after the other: a crash between them leaves one without the other.
- *At least once.* BullMQ gives a job to another worker when its worker dies or
  loses its lock; Stripe sends events late, out of order and repeatedly. The
  handlers are meant to be idempotent.
- *Time.* Redis keys expire on their own; a fixed window ends while requests of
  it are on their way.

**What makes each component correct.**

- Rate limiter: no window admits more requests than the limit they were checked
  against; an old limit is enforced for a bounded time only; a breach is reported
  once; keys do not pile up.
- Webhooks: what is saved is eventually delivered or declared dead; SUCCESS only
  after a 2xx; what has ended stays so; the organization hears of each dead
  delivery once; nobody else's webhooks are called.
- Billing: no plan without payment; the gateway's plan is the billed plan; a
  single Stripe identity per organization; a downgrade ends what was paid for.
- Marketplace: one live subscription per consumer and API; no access to a paid
  API without payment; payouts to the publisher's account.
- Notifications: like webhooks, one row and one job per channel.
- API keys: a revoked or deleted key stays so; a rotation replaces one key by one
  that ends with it; usage is never overstated.
- Registration: a user has a workspace; slugs are unique and a name that is taken
  gets another; one owner for each organization.
- Organizations and flags: what a request was answered stands until another one
  changes it; only the entitled publish.

## 2. Modules

| Module | What it is |
|---|---|
| `RateLimit` | the limiter and `updateRateLimit` for one organization |
| `RateLimitProofs` | its theorems |
| `WebhookDelivery` | dispatch, worker and failure handler over BullMQ |
| `WebhookDeliveryProofs` | its theorems |
| `Notifications` | one row and one job per channel, and the processor |
| `Outbox` | abstract: what the two queues promise; implemented by `WebhookDelivery` and `Notifications` |
| `Billing` | the subscription of one organization, its usage and invoices, and its Stripe side |
| `Marketplace` | the subscription of one organization to one published API |
| `ApiKeys` | the keys of one application and the gateway requests that use them |
| `Workspaces` | registration, organizations, members, feature flags and publishing |
| `BillingProofs`, `MarketplaceProofs`, `ApiKeysProofs`, `NotificationsProofs`, `WorkspacesProofs`, `OutboxProofs` | their theorems |
| `MC...` for each of the seven components | values of the constants and symmetry for TLC |

In every module a step is what one handler does between two awaits, so that TLC
interleaves handlers exactly where Node can. `pc` (or `task`, `updatePc`,
`handler`) says at which await a call is; the variables named after a local
(`limit`, `entity`, `draft`) hold what it has read. Definitions with a comment
that begins with `Slip:` are not part of a specification: each is a plausible
mistake in the definition that follows it, kept to see that the properties would
notice (`mutants` in `PROJECT.json`).

### RateLimit

`consume()` is `ReadCache`, `ReadRow`, `FillCache` (these three are
`getLimit()`), `ComputeWindow`, `Incr`, `Expire` and `Decide`, which is also the
guard's answer and the breach event. `updateRateLimit()` is `LoadOrg`, `SaveOrg`,
`InvalidateLimit`. `RequestCrash` and `UpdateCrash` are an instance that dies, or
a Redis command that fails, at any await. `Tick` is the clock together with
Redis's expiry. Everything is keyed by organization, so one organization is
enough. `heldUntil` is a history variable: when each limit was last the row's.

Three bounds are on time. `Latency` is the longest a request may wait for a
step, `IncrLatency` the longest between the computation of the window and its
`INCR`; without a bound on them nothing of the quota holds (see section 6).
`MaxTime` ends the run. Updates have no latency bound.

### WebhookDelivery

`dispatchEvent()` is `RecordEvent`, `FindWebhooks`, then `SaveDelivery` and
`AddJob` for each webhook found, and `FinishDispatch`; `testWebhook()` starts
with `TestWebhook` and shares the rest. `process()` is `LoadDelivery`,
`LoadWebhook`, `PostAnswered` or `PostLost`, `SaveEntity`; `onFailed()` is
`MarkDead` and `Notify`. `webhook_deliveries` is `row`; the entity the worker
loaded, changes and writes back as a whole is `entity`.

BullMQ is external and modelled from its use: `TakeJob` (under a lock, `holder`),
`Complete`, `FailRetry` while attempts remain, `FailForGood`, `Promote` after
the backoff, `WorkerDeath` (the stalled job is given back), `LoseLock` (given
back although its worker goes on; the result of that worker is then refused:
`Complete` and `FailUnheld`). `Stall` is what BullMQ does with the job of either: it
gives it back at most `MaxStalls` times (`maxStalledCount`, by default 1 and set neither
by the module nor by `@Processor`), and at the next stall fails it for good. Whether that failure counts as an
attempt differs between versions of BullMQ, so it may or may not; unless the attempts are
then used up, `onFailed()` only logs (`handler` becomes `logged`) and the delivery is `Abandoned`.
The assignment of workers to instances is left out: any worker takes any job.

`Faults` says which kinds of fault a run has and `MaxFaults` how many:
`producer` and `handler` (the call throws or dies at an await), `worker`, `lock`
and `database` (an await in `process()` throws; a save may have been committed).
`posts`, `acked` and `notified` are histories. `Phase` and `Queue` are the refinement
mapping to `Outbox` (below).

### Billing

Every request and every Stripe event is a call; `op` says of what kind. The
methods of `BillingService` share steps as the code shares methods: `Ensure`
(`ensureSubscription`), `Find`, `Save`, `LoadOrg`, `SaveOrg` (`applyPlan`, with
`updateRateLimit` in it), then what the caller of `applyPlan` does: `Write` after
`activateFromStripe` or a downgrade, `Branch` (`createCheckout`,
`ensureConnectAccount`). `LoadCustomer`, `CreateCustomer`, `CreateSession`,
`Cancel`, `CreateAccount` are the calls to Stripe with the saves that follow.
`Lookup`, `Change`, `Record` are the handling of events.
`BeginRequest`, `Confirm` and `Deliver` start a call, and so does `UpdateRateLimit`, the
OWNER's `PATCH /organizations/:id/rate-limit` of plan, limit or both, which goes on with
`LoadPatched` and `SavePatched`: the `updateRateLimit` of `applyPlan` (`Updated`) without the
subscription. `CustomLimits` are the limits it asks for. A call may `Crash` at any
await; the controller then answers 200, so Stripe does not send the event again.

Stripe is external: `Pay`, `Renew`, `EndSubscription` and `UpdateAccount` change
what it has and put events into a set from which they are delivered in any
order, once or more often. A session bears the name of the call that made it and
its subscription the name of the session. Two renewals of a subscription whose
events are pending are one event.

`getUsage` and `closeInvoice` are `Ensure`, `Count` and `InsertBill`; `ComputeBill` is
`computeBill`. What they count is `logged`, the instants of the organization's requests
(one each; what matters is on which side of a boundary one is), which `Log` fills as the gateway does, and
`Tick` turns the months of `currentPeriod()`. `createPortal` needs the subscription and
changes nothing else: it is the request `view`. The month does not turn between the
computation of a period and the `findOne` after it, which is one step (`Find`).

`scenario` is chosen by `Init` and never changes: which requests a behaviour makes,
how many calls, how many at a time, whether they may die, whether the organization
has a Connect account and whether time passes. One run thus has several small
instances instead of a large one; the properties name the scenarios they are about.

### Marketplace

`subscribe()` is `Subscribe`, `CheckExisting`, then `Save` for an API without a
price (or without Stripe) and `CheckPayout`, `CreateSession` for one with a price:
no row is written before the payment. `Confirm` (`/confirm`) and the delivery of
`checkout.session.completed` share `FindActivated` and `Save`
(`activateSubscription`); the delivery of `customer.subscription.deleted` is
`FindDeleted` and `Save`. `unsubscribe()` is `Unsubscribe`, `Cancel`, `Remove`.
`entity` is the row in a call's hands. `Save` is TypeORM's: an update, or an insert
if the row has gone meanwhile. The readiness of the publisher's payouts, which is
`Billing`'s, is nondeterministic; sessions of other organizations and other kinds
of session are refused and not modelled. Stripe is as in `Billing`. `publish()` is in `Workspaces`.

### ApiKeys

`create()` is `FindApp`, `InsertKey`; `revoke()` is `LoadKey`, `SaveRevoked`;
`rotate()` is `LoadKey` and the transaction `SwapKeys`; `applications.update()` and
`remove()` are `LoadApp` and then `SaveApp` or `RemoveApp`, whose cascade deletes the
keys. `save` inserts a row that has gone: `SaveApp` brings a removed application
back, and `SaveRevoked` and `SwapKeys` then the key they loaded, revoked. The keys
in `Issued` were created before. A gateway request is
`Lookup` and `RecordUsage` (`ApiKeyGuard`), `Respond` (`RateLimitGuard`, which is
the module `RateLimit`, and the handler) and `Log`. A request that fails before the
context is set is logged without a key. A read-only route needs no step. `root`
(the first key of a chain of rotations), `uses`, `ended` and `raced` are histories.

### Notifications

`notify()` is `Notify`, then `SaveRow` and `AddJob` for each channel, and `Return`;
its callers (the listener, the test endpoint) differ in the channels only. `process()`
is `Load`, `Dispatch`, `Save`; a save that throws enters the catch block
(`DatabaseFault`), whose save is `Save` again and is followed by `Fail`. The senders
only log, so a send never fails here. There is no failure handler. The queue is as in
`WebhookDelivery`, with its `MaxStalls` and without lost locks: `Complete`, `Fail`, `Promote`, `WorkerDeath`.
`Faults` and `MaxFaults` are as there.

### Outbox

An item is enqueued, then delivered, dropped, exhausted or abandoned, for good; that a watched
item is exhausted is reported once, of an abandoned one nobody hears; and every item enqueued ends and every report is
made. `WebhookDelivery` implements it (`ImplementsOutbox`) with `Phase`: a delivery is
open from its job on, delivered when its job completes with SUCCESS on the row, dropped
when it completes because the webhook is gone, exhausted when it fails with its attempts used up,
and abandoned when BullMQ fails it for its stalls; the deliveries are all watched, and `notified` counts the
reports. In `Notifications` a message is delivered when its job completes, if it was sent
and its row says so, and exhausted or abandoned when it fails for good; none is watched, since nobody is told. The mapping
holds under the faults of the two runs: a producer that dies before the job is added
leaves an item that was never enqueued, a handler that dies or a lost lock breaks it
(section 6).

### Workspaces

A call is an HTTP request with what it asks for (`ask`). `register()` is `CheckEmail`,
`InsertUser`, then `TrySlug` for each candidate and `InsertOrg` (the transaction of
`organizations.create()`), `CreateApp` for a subscriber, `Enqueue` of the welcome
e-mail. `POST /organizations` is `Create`, `TrySlug`, `InsertOrg`. Invitations, flags
and publications start with `Guard`, which is the JWT strategy (the user is there)
and `OrgRolesGuard` (the rank of the membership) in one step: users are never
removed and roles never change. Then `addMember` is `FindInvitee`, `CheckMember`,
`InsertMember`; `FeatureFlagsService.set` is `FindFlag`, `SaveFlag`; `publish` is
`Feature` (`FeatureGuard`), `AssertType`, `TryApi`, `InsertApi`. `Insert` is an insert
under a unique index. The candidates for a name are an input: `Ann's` third slug may be
another name's first. They are finitely many where the loop of the code counts on for ever: a
call whose candidates are all taken stops, which `CallsEnd` shows no call of the run does. Of the flags it has the one that gates a route, `api_marketplace`.
`before` and `beaten` are histories: which calls were over when a call arrived, and
which were under way when a row was written.

## 3. Runs

| Run | Instance | What it shows |
|---|---|---|
| `RateLimit_safety` | 3 requests, 1 update (up or down), 4 windows of one tick, a request and the update may die | `QuotaHolds`, `CountersOfEndedWindowsExpire`, `StalenessBounded`, `NotifiedOncePerWindow` |
| `RateLimit_immediate` | 1 request, 1 update | *violated*: `ChangesApplyImmediately` |
| `WebhookDelivery_lifecycle` | a test delivery, 2 workers, 3 attempts, up to 4 worker deaths and database errors, 1 stall, fairness | `OpenDeliveriesAreDriven`, `DeadIsJustified`, `PostsBounded`, `TerminalIsFinal`, `DeliveriesResolve`, `ImplementsOutbox` |
| `WebhookDelivery_fanout` | a dispatch, 2 webhooks that want it and 1 of another organization, 2 workers, 2 attempts, 1 fault of any kind | `FanOutComplete`, `SuccessIsAcknowledged` |
| `WebhookDelivery_buried` | 1 delivery, 1 worker, database errors | *violated*: `DeadIsUndelivered` |
| `Billing_plans` | 8 scenarios of 3 or 4 calls, below | `PlanSync`, `SubscriptionMatchesPlan`, `OneStripeIdentity`, `PlansArePaid`, `InvoicesAgree`, `ActivationRepairs` |
| `Billing_upgrade` | 5 checkouts and events one after the other, 2 plans | *violated*: `FreeCancels` |
| `Billing_month` | 4 calls one after the other, 2 months of 2 instants | *violated*: `UsageIsCurrent` |
| `Marketplace_access` | 6 calls, 2 at a time, one may die, priced and free | `AccessIsPaid`, `BilledHasAccess` |
| `ApiKeys_rotation` | 3 keys, one issued before, 3 calls of owners, 2 requests of which one may die, 3 days | `RotationIsASwap`, `UsageNeverAhead`, `RevocationIsFinal` |
| `Notifications_dispatch` | 1 call for 2 channels, 2 workers, 3 attempts, up to 4 faults, 1 stall, fairness | `FanOutComplete`, `GivenUpLast`, `SentIsFinal`, `ImplementsOutbox` |
| `Workspaces_tenants` | Ann's workspace, Bob, any 3 of 13 requests, one may die, fairness | `OwnedByOne`, `RegistrationIsWhole`, `CollisionsAreRaces`, `AnswersStand`, `PublishedByEntitled`, `CallsEnd` |

The scenarios of `Billing_plans`: four calls one after the other that take and leave a paid
plan; three checkouts and events two at a time, any of which may die; three with the
payout status of a publisher, two at a time; four calls one after the other that may die; three
calls with every plan, becoming a publisher, usage and portal; three calls one after the other, and three
two at a time that may die, among which an OWNER sets plan and limit; subscribing and closing invoices,
two calls at a time, while two months of two instants pass.

In each module `TypeOK` is checked by its first passing run. A *violated* run is a
statement of the repository that the code does not keep (section 6).

**Why the bounds are enough.** Three requests pass the limit of the free plan
(1 in the run) and reach that of the next (2), so a window is
breached before and after the limit goes up or down; four windows let a cache
entry, a counter and a late answer outlive the window they belong to. Three
attempts have a first, a middle and a last one. Four faults are one for each attempt
and one more, or the two deaths that abandon a job and two errors before, between or after them, so a
stall comes at every attempt, the last one included. The two workers are what a job that is given back
needs. One delivery is enough for its life, since deliveries share nothing but
workers; `WebhookDelivery_fanout` has two webhooks to visit, so that a fault falls before, between and after
them while workers already serve the first, and a third one to tell organizations apart. Four billing calls are a checkout, its activation, another
change and an event that comes late; five are needed for the second upgrade, and
four (a checkout, its confirmation, the usage in the next month) show that the period stays.
A month of two instants has its boundary and its middle, and the clock passes the next boundary.
Concurrent billing has three calls because a lost update needs a paid session
(a checkout), and two handlers that overlap. Six marketplace calls are a
subscribe, the confirmation and both events of its session, an unsubscription and
one more of these to come again or to race. Three key calls are two changes of a
key and what they wait behind, or an update, a removal and a rotation of what is
removed; two rotations in a row need three keys. Three days
make a key of one day valid on two of them and invalid on the third. Four faults
abandon both messages of a notification by two deaths each, or use up the three attempts of one and disturb the other. Three requests to the
tenants are a registration, an invitation of the new user and what that user then does,
or three that race for one slug; five slugs leave a free one to each of them.

**Symmetry** is over the workers, the calls, and the requests of equal
crashability, which the specifications treat alike; the runs with liveness properties
(`WebhookDelivery_lifecycle`, `Notifications_dispatch`, `Workspaces_tenants`) use none. `Billing_upgrade` has a state
constraint (`NothingLapses`): it only looks among behaviours in which no payment
fails, and the one it finds is a behaviour of `Spec`. `Workspaces_tenants` does not check
deadlock: when its three requests are over, nothing more happens.

**Fairness** (`FairSpec` of `WebhookDelivery`; that of `Notifications` is the same
without a handler). Weak fairness of `ProducerStep`,
`WorkerStep` and `HandlerStep`: a promise that is pending in a live instance
settles, and `process()` aborts its `fetch` after a timeout
(`webhooks/webhooks.processor.ts:80`).
Weak fairness of `JobStep`: BullMQ promotes delayed jobs and hands out
waiting ones as long as a worker is idle. Users owe nothing, and neither do
faults, which are finitely many. What is promised is an end, or that BullMQ abandoned the job. In `Workspaces` every request that is under way goes on (weak
fairness of its `Step`), and nobody has to make one.

## 4. Proofs

Checked by TLAPS for all values of the constants that satisfy the assumptions
of the modules.

- `RateLimitProofs!TypeCorrect`. The arithmetic of windows (`WindowDivision` and
  the lemmas after it) bounds `windowId` by the last window.
- `RateLimitProofs!Quota`: `IncrLatency = 0 /\ Spec => []QuotaHolds`. `QuotaHolds`
  only counts requests; that they got different numbers is what makes it true.
  `QuotaInv` says that a request between `ComputeWindow` and `INCR` is in the
  current window (`PromptInv`, where the assumption is used), that a counter with a
  TTL outlives its window (`CounterInv`), that requests counted in one window
  have different counts, none above the counter while the window lasts (`CountInv`),
  and that the admitted ones had a count within their limit (`AdmissionInv`). So
  their counts inject them into `1 .. l`, which gives the bound (`InvImpliesQuota`).
- `RateLimitProofs!Staleness`: `Spec => []StalenessBounded`, for any number of
  updates that crash anywhere. A limit about to be cached was the row's when it
  was read, at most `Latency` ago (`FillInv`), and a cached one that is no longer the
  row's expires within a window and a latency of the moment it ceased to be (`CacheInv`).
- `RateLimitProofs!Notified`: `IncrLatency = 0 /\ Spec => []NotifiedOncePerWindow`. The counts given
  in a window have no gaps (`GapFree`): if one passed the limit, one is `limit + 1`. That no two
  requests have it is `CountInv`, and that only this one notifies is `NoticeInv`.
- `RateLimitProofs!CountersExpire`: `IncrLatency = 0 /\ Spec => []CountersOfEndedWindowsExpire`. A
  counter has a TTL that ends in time, or is waiting for it, or the call that was to set it died
  (`TtlOf`); that call created the counter before the end of its window and waits at most `Latency` (`SetterOf`).
- `WebhookDeliveryProofs!TypeCorrect`. `TypeOK` alone is not inductive: that
  `attemptsMade` stays within its bound needs that a job that can still run has
  attempts left (`JobInv`), and that a worker's locals are set when it uses them (`LocalInv`).
- `WebhookDeliveryProofs!Acknowledged`: SUCCESS only after a 2xx, whatever the
  faults. `AckInv` says it of the entities in the workers' hands as well.
- `WebhookDeliveryProofs!OpenDriven`:
  `SafeFaults /\ Spec => []OpenDeliveriesAreDriven`, where `SafeFaults` excludes
  producers and handlers that die and lost locks, and leaves any number of worker
  deaths and database errors. The property excepts a delivery whose job BullMQ `Abandoned`, after more
  than `MaxStalls` of its workers died. A delivery saved and not enqueued is in the hands
  of its call (`EnqueueInv`), a busy worker holds the lock of its job alone
  (`HoldInv`), and a job that is over leaves a row that is terminal, a handler
  that will make it so, or is abandoned (`OverInv`). `Exclusive` draws from `HoldInv` that two workers
  never process one delivery.
- `WebhookDeliveryProofs!FannedOut`: `Spec => []FanOutComplete`. A call only has webhooks of its
  organization and rows for these, and a row without a job is the one it is about to enqueue,
  unless it died (`FanOf`); a worker or handler only writes rows that are there (`BusyInv`).
- `WebhookDeliveryProofs!DeadJustified`: `Spec => []DeadIsJustified`, since what a worker or a
  handler is about to save is justified too (`DeadInv`).
- `WebhookDeliveryProofs!PostsAreAttempts`: `Spec => []PostsBounded`. Workers that lost their job before
  they POST (`Stray`) each cost a fault, so POSTs and strays together are at most the attempts
  counted, the one in use and the faults (`PostOf`); and what the row or an entity shows was done (`ShownInv`).
- `WebhookDeliveryProofs!Final`: `NoLostLock /\ Spec => TerminalIsFinal`. Without lost locks one worker
  has the job, so the row is what it loaded until it saves (`WorkOf`), and a job ends as its row says
  (`EndOf`). With a lost lock it is false (section 6).
- `WebhookDeliveryProofs!FollowsOutbox`: `NoLostLock /\ Spec => Queue!Steps`: every step is one of the
  outbox or a stutter, from the same invariant. It allows more faults than the run that checks `ImplementsOutbox`.
- `NotificationsProofs!TypeCorrect`, `FannedOut` and `SentOnce`: `Spec => []TypeOK`, `Spec => []FanOutComplete`
  and `Spec => SentIsFinal`, from one invariant: a job is active under one worker (`JobOf`), a call
  has rows only for its channels (`CallOf`), and where a worker is says what was sent and
  written (`RunOf`). No lost locks here: the worker of this queue never loses one in the model.
- `NotificationsProofs!RetriedToTheEnd`: `Spec => []GivenUpLast`. Attempts that failed, stalls and runs that are about to
  fail are together at most the faults (`FaultInv`); `MaxAttempts` of the first belong to each message that
  used its attempts up, and `MaxStalls + 1` of the second to each that was abandoned.
- `NotificationsProofs!FollowsOutbox`: `Spec => Queue!Steps`.
- `BillingProofs!TypeCorrect` and `PaidFor`: `Spec => []TypeOK` and `Spec => []PlansArePaid`. What a call
  is about (`LocalOf`), a session (`SessionOf`) and an event (`EventOf`) are for a plan that
  was paid. So are all loaded subscription rows (`Bought`), while an organization, loaded or not, has a plan that was paid
  for or one the OWNER asked for (`Granted`; both in `PaidInv`); `PlanMoves` says where each plan written comes from.
- `BillingProofs!InvoicesFollow`: `Spec => []InvoicesAgree`. An invoice bills no fewer requests than were logged
  before it was counted and no more than those and the ones logged at that instant (`BillOf`);
  nothing is logged in the past, and a bill grows with the requests (`BillMonotone`).
- `BillingProofs!Repairs`: `Spec => ActivationRepairs`. When calls come one by one, the row and the
  organization are what the call under way has read, but for what it has changed (`ReadOf`, `WriteOf` of `SerialInv`),
  whatever calls before it left: faults are allowed.
- `BillingProofs!PlansInSync`, `PaidPlanOnRow`, `OneIdentity`: `Spec => []PlanSync`,
  `Spec => []SubscriptionMatchesPlan`, `Spec => []OneStripeIdentity`, from `SerialInv` and one more each (`SyncInv`,
  `PaidPlanInv`, `StripeInv`), which say what is owed while the one call is under way. `PlanSync` lets the organization
  have a plan that an OWNER asked for (`Patched`), and without such requests it is equality;
  that billing's next activation puts both rows together again is `ActivationRepairs`. The
  properties themselves are about scenarios without overlaps and faults: otherwise they fail (section 6).
- `MarketplaceProofs!PaidAccess`: `Spec => []AccessIsPaid`. `AccessIsPaid` speaks of
  the row; that a step keeps it needs the same of every row a call is about to save
  and of the session every activation is about (`CallInv`), that an announced
  payment was made (`StripeInv`), and that a session which is complete is not made
  again by its call (`StripeInv`, too).
- `MarketplaceProofs!BilledAccess`: `Spec => []BilledHasAccess`, for any number of calls at a time. What is
  canceled in the row or a call's hands has ended at Stripe, and so has the subscription of a row about to be removed,
  unless the call could not reach Stripe (`EndsInv`). So an organization that is billed for its
  only payment has the row, or what gives it the row is announced or under way (`BilledInv`).
- `ApiKeysProofs!UsageSound`: `Spec => []UsageNeverAhead`. A use that is about to be
  recorded has been counted already, and a loaded row has no more uses than its key
  had (`CallInv`).
- `ApiKeysProofs!RevocationHolds`: `Spec => RevocationIsFinal`, from the same
  invariant: what is saved over a live row is either its revocation or its usage.
- `ApiKeysProofs!RotationSwaps`: `Spec => []RotationIsASwap`. A key has the end of the first key of its lineage
  (`LineageOf`), what is about to be saved over a row is of its lineage (`SavesOf`), and unless rotations
  overlapped there is at most one live key and one rotation, which is to replace it (`SwapOf`).
- `WorkspacesProofs!TypeCorrect`. A call only does what its kind asks for (`AskInv`)
  and tries one of the candidates of its name (`TriesInv`): without these `TypeOK` is not inductive.
- `WorkspacesProofs!OneOwner`: `Spec => []OwnedByOne`. An invitation that passed the guard
  is to an organization and not for an OWNER (`InviteInv`). It gives `StepFrame`, which the theorems
  after it rest on: no step removes a user, a role, an organization or an API, or moves another call.
- `WorkspacesProofs!Collisions`: `Spec => []CollisionsAreRaces`. Unless another call wrote
  meanwhile, what a call is about to insert is free (`RacesInv`), since every step that
  writes a row is noted by every call under way (`Writes`).
- `WorkspacesProofs!Entitled`: `Spec => []PublishedByEntitled`. Each check of a publication
  is about something that lasts (`Lasting`): the rank of the caller (`GuardedInv`), that an ADMIN had switched the
  feature on, though it may be off again (`FlagInv`), and the type of the organization (`PublishInv`).
- `WorkspacesProofs!Answers`: `Spec => []AnswersStand`. A call that saves the switch is under way, hence
  not among those that were over when another one arrived (`BeforeInv`).
- `WorkspacesProofs!RegisteredWhole`: `Spec => []RegistrationIsWhole`. What a registration has
  made at each await (`MadeInv`), that an address is taken by one of them (`OnceInv`), that only
  subscribers have a default application (`AppsInv`), and that every account has a workspace or a
  registration that is under way or broke off (`HousedInv`).
- `OutboxProofs!Reported` and `Final`: what the promise of the queues means to those who use
  them, whichever module keeps it.

The hypotheses. `IncrLatency = 0` says that `INCR` reaches Redis in the tick in which the window was
computed; with any other value `QuotaHolds` fails (section 6). `NoLostLock` and `SafeFaults` leave out kinds
of fault under which the property is false (section 6), and no others. All are hypotheses
that the runs satisfy.

Model-checked only: what needs fairness, namely `DeliveriesResolve` and `CallsEnd`, and of
`ImplementsOutbox` the part `Owed` (that what is enqueued ends and what is given up is
reported): TLAPS has no rules for liveness under fairness here. The violated properties of section 6
are counterexamples and need no proof. All other properties of section 3 are theorems.

## 5. Abstractions

- A call of TypeORM is one atomic command. `save(entity)` writes all columns; if
  the row is not there it inserts it, and an insert that meets a unique index
  fails. `update()` writes the columns it names.
- Payloads, signatures, names, formatting and logging are left out. A response is
  `2xx`, `error` or none.
- A row of one user, slug or membership is known by its unique key: ids are left out.
- Passwords and tokens are left out: a request is made by a user who has logged in.
- A failed Redis `DEL` in `updateRateLimit` is an update that dies there.
- A request that dies and one whose Redis command throws are the same: neither is
  admitted.
- Numbers are unbounded: no counter of this code comes near the width of its
  column or of a JavaScript integer in a run of any length considered here.

## 6. Divergences

Where a run of this project shows that the code does not do what a comment says:

- `RateLimit_immediate`. `rate-limit/rate-limit.service.ts:75` and
  `organizations/organizations.service.ts:208` say that a change of the limit
  applies immediately. A request that read the row before the update caches the
  old limit after the update deleted it. `StalenessBounded` is what holds.
- `WebhookDelivery_buried`. `webhooks/webhooks.processor.ts:25` says that a
  delivery is declared DEAD when the receiver does not answer 2xx. If the save
  after a 2xx on the last attempt throws, it is DEAD and reported as failed.
- `Billing_upgrade`. `billing/billing.service.ts:176` says that FREE cancels any
  paid Stripe subscription. Only the one on the row is cancelled; a second
  checkout replaces it there and leaves the first one running.
- `Billing_month`. `billing/billing.service.ts:88` promises the usage of the current
  period. The row's period is set when the plan is (line 78), and by nothing else: a month
  later usage, projection and invoices are still those of that month.

Met while the models were written, each from a counterexample of TLC when a
guarded condition of the properties above is lifted, or a fault allowed:

- A limit that changes within a window makes `count` pass `limit + 1` twice or
  never: the breach is reported twice or not at all
  (`rate-limit/rate-limit.service.ts:56`; line 54 says "exactly ONCE").
  `NotifiedOncePerWindow` is therefore stated for windows under one limit.
- A crash between `INCR` and `EXPIRE` leaves a counter without a TTL for ever,
  not "for one window" (line 59). `CountersOfEndedWindowsExpire` excludes windows in
  which the request that was to set the TTL died.
- An `INCR` that arrives after its window's counter expired starts it again at 1
  (line 50): with an `IncrLatency` of more than zero `QuotaHolds` fails.
- A call that dies between the save of a delivery and `queue.add`
  (`webhooks/webhooks.service.ts:147`) leaves the row PENDING without a job, and
  `onFailed` dying before its update (`webhooks/webhooks.processor.ts:132`) leaves
  it FAILED without a retry. Nothing looks for such rows.
- A job whose workers die twice fails for BullMQ's stall limit with attempts left
  (`webhooks/webhooks.processor.ts:25` speaks of all retries exhausted). `onFailed` then only logs (lines 129 and 152), nothing
  runs the job again, and the delivery stays PENDING or FAILED for ever; the organization never hears of it.
  A notification is lost in the same way.
- The same call that dies in its loop skips the webhooks not yet visited.
- A worker that lost its lock goes on beside the one that got its job: both POST,
  and one overwrites the other's row (line 52 says "idempotent").
- An attempt that is lost after an answered one is not counted or saved, since
  the row still has the earlier `responseStatus` (line 115;
  `webhooks/entities/webhook-delivery.entity.ts:26`).
- A notification whose save fails after it was sent is marked FAILED by the catch
  block and sent again (`notifications/notifications.processor.ts:40`); after the last
  attempt it stays FAILED although it was sent. A call of `notify()` that dies leaves
  a row PENDING without a job (`notifications/notifications.service.ts:49`).
- Two paid marketplace checkouts of one API (`marketplace/marketplace.service.ts:104`
  refuses a second one only once there is a row): the second activation replaces
  the first, which stays billed, and unsubscribing (line 282: "Stop billing the
  subscriber") cancels only the second. `BilledHasAccess` is stated for one payment.
- An activation that is delivered again, or an old session confirmed again (line
  202), after the subscription ended gives access that is no longer billed;
  `AccessIsPaid` asks for a payment, not for a running subscription.
- A deletion event loaded before `unsubscribe` removed the row inserts it again,
  canceled (line 248); such a row, like every canceled one, makes the next
  `subscribe` fail with "Already subscribed" (line 108).
- Two rotations that overlap leave two live keys (`api-keys/api-keys.service.ts:129`;
  line 126 says "a clean swap"). `RotationIsASwap` is stated for lineages without such an overlap.
- `recordUsage` (line 178) loses uses, and `revoke` and `rotate` write back the
  count they loaded. A request that was looked up before a revocation passes after it.
- Two plan changes that overlap may each win one of the two rows
  (`billing/billing.service.ts:83`); two checkouts that overlap make two Stripe
  customers (375; line 368 says "single"), and two onboardings two accounts (227).
- An OWNER's `PATCH /organizations/:id/rate-limit` sets any plan without payment and without the
  subscription row (`organizations/organizations.service.ts:214`): the gateway's plan then differs from
  the billed one until billing applies a plan again. `PlanSync` and `PlansArePaid` except the plans so asked for.
- `invoice.paid` handled before the session's subscription is on the row is
  dropped (412); one that is delivered again is recorded again (412 looks for nothing).
- `Between` includes both ends (`billing/billing.service.ts:94`), and a period ends where the
  next begins (line 47; line 42 says `[start, end)`): a request logged at that instant counts for both months, and may
  be logged after an invoice was counted there. `InvoicesAgree` is therefore stated for
  invoices counted before or after the boundary.
- Closing an invoice twice makes two of one month (line 106), and a change of plan in the
  month bills all of it at the new terms (line 76).
- A registration that breaks off after the user was inserted (`auth/auth.service.ts:41`), for
  example because two registrations of one name collide on the slug, leaves an account without a workspace,
  application or welcome e-mail; its retry is refused as "already registered" (line 36).
- `applications.update()` (`applications/applications.service.ts:60`) inserts an
  application again that was removed meanwhile, without its keys. A rotation that had loaded one of
  these then inserts it, revoked, and its replacement, which is live.
- A change to ENTERPRISE leaves the rate limit of the plan before
  (`organizations/organizations.service.ts:216`); `requestsPerMinute` of
  `PLAN_TERMS` (`billing/billing.constants.ts`) is read nowhere.

## 7. Plan

Done: the seven components, the refinement of `Outbox`, and theorems for every property of the
passing runs but those about liveness. What is left:

1. An abstract limiter that counts atomically, implemented by `RateLimit` with prompt `INCR`s.
2. Abstract specifications of a subscription (`Billing` one call at a time) and of a lineage of keys (`ApiKeys`
   without overlapping rotations), and their refinement step by step.

Not planned: audit, analytics, developer portal and widgets (append-only logs,
read-only queries, generated text), the e-mail worker (its send is simulated),
configuration, health checks and error formatting.

## 8. Running it

    tlc -config RateLimit_safety.cfg MCRateLimit
    tlapm RateLimitProofs.tla
