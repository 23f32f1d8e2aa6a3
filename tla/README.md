# A TLA+ model of walnut-billing

walnut-billing is a Go service that sells software: it takes checkout orders to
a payment provider, receives the provider's webhooks, fulfills paid orders with
entitlements and credits, takes them back on refunds and disputes, keeps a
credits ledger for usage, renews and cancels subscriptions, signs users in with
e-mailed codes, controls devices, trials and cloud storage, and answers the
application with a signed snapshot of what the user may do. An older part sells
license keys. All state is in one relational database (SQLite by default); the
process is a Gin HTTP server, so requests run concurrently, and a request ends
when the client goes away or the server stops.

This directory holds TLA+ modules translated from `src/internal` and `src/cmd`,
TLC configurations that check them on small instances, and TLAPS proofs.
`PROJECT.json` maps every definition to the source lines it models.

## 1. Inventory

| Component | State | Operations | What is hard | What makes it correct |
|---|---|---|---|---|
| Credits (`service/credit.go`, `credit_bucket.go`) | account balance and held amount, buckets with an expiry, reservations with allocations, ledger rows | Grant, Reserve, Commit, Release, ExpireBuckets | idempotency keys, expiry under a hold, sweeps inside Reserve, limits on batches | the ledger explains every balance; each granted credit is in one place; a hold ends once; what expires first is spent first |
| Payment inbox (`service/payment_event.go`) | one row per provider event with a status | ReceiveWebhook, Process (reprocess), List | duplicate and concurrent deliveries, check-then-act on the status, requests that die, whole-row saves | a processed payment is delivered; nothing is stuck; effects once |
| Order processor (`payment_order_processor.go`) | the order's status and paid time | one per event type | events out of order, stale rows | wrong amounts never pay; a reversal is not lost |
| Fulfillment (`service/fulfillment.go`) | executions per order and rule, grants | FulfillOrder | a failing rule, rollback, failed rows written after it, retry | all goods of an order or none, each once |
| Adjustment (`payment_adjustment*.go`) | revoked grants, clawback rows, risk flags | Apply, Decide | policy decisions that are errors but must commit, repeated reversals | taken back once, only for a reversal; a dispute leaves a flag |
| Risk flags (`payment_risk.go`) | open/resolved flags | create, resolve; checkout hold | flag and checkout race | an open flag holds checkout |
| Subscription renewal (`subscription_renewal.go`) | a renewal order per cycle, grace grants | Apply for renewal_paid, renewal_failed, subscription_expired | no transaction for renewals, a nested one for first payments, cycle keys that differ by event type | one fulfillment per cycle; grace ends |
| Subscription cancellation (`subscription_cancellation.go`) | cancellation rows, order metadata | Cancel, Resume | the provider's call before the local transaction, two tries at once | an answered call is true of the provider and of the rows; one active row |
| Checkout (`checkout.go`, `checkout_policy.go`) | the order of an idempotency key | CreateCheckoutSession | the provider's call between read and save of the order, requests and webhooks that save whole rows over each other | a payment gets its goods once, whatever is saved over it; an order is charged at most once for each request that overlaps |
| Entitlement grants (`entitlement.go`) | grants with period and status | grant, revoke, snapshot | grants under stable keys, revoked ones found again | a key yields one grant |
| Snapshots and admin pages (`access_snapshot.go`, `entitlement.go`, `admin_*.go`) | none: computed from the rows | read | eight computations with their own idea of which grants count | they tell one story; what is offered is accepted |
| Login challenges (`access_login_challenge.go`) | challenges with attempts | Create, Verify | stale saves against the atomic consume, rate limit by count | a challenge is used once, attempts are bounded |
| Access session (`access_session.go`, `access_admin.go`) | users, devices, trial grants | RegisterOrRestore, device revocation | the order of logins, revocations and trials | one trial per address, at most the allowed devices |
| Cloud storage (`cloud_storage.go`) | projects, sync sessions, manifests, objects | AuthorizeSync, CommitManifest, reads | used bytes read before the transaction, object keys shared by resources, a session that expires | objects match the newest manifest; the quota's overrun is bounded |
| Licenses, legacy orders (`license.go`, `order.go`, `payment/service.go`) | licenses with devices, orders, the registry of adapters | Activate, Deactivate, Verify, payments and callbacks, adapters swapped | every request saves whole rows; adapters change under open orders | at most the allowed devices; what was paid is given |
| Configuration and wiring (`config/config.go`, `app/bootstrap`, `cmd/server`) | what a server is started with and has wired | Load, ValidateProduction, Build | two dozen settings whose combinations must be refused or safe | a production server that serves has no mock, no developer's delivery, no open gate |
| Migrations and catalog (`app/migration`, `service/commerce_catalog.go`) | schema, its record, product rows | migrate, reconcile | two servers at once, a process that dies between two models | who serves has its schema and its catalog |
| Audit trail (`service/audit.go`) | a bounded channel, a row in hand, the trail | Record, write, Stop | a full channel, shutdown while requests record | accepted entries are kept in order; a clean exit loses none |
| Rate limiter (`middleware/ratelimit.go`) | a bucket per client | Allow, cleanup | a bucket forgotten while a request holds it | forgetting gives no client more than its bucket |
| Provider adapters (`payment/*.go`) | none | verify and decode webhooks, provider calls | the same fact in another place for every kind of event | a payload is understood as what the provider means |
| Metrics, Go SDK | counters; a client's cache | - | - | not modelled |

How they interact: the webhook handler calls the inbox, which calls the
fulfillment processor, which calls the order processor, then adjustment (for
refunds, disputes and cancellations) or fulfillment (for a paid checkout order).
Renewal events go to subscription renewal instead, which calls fulfillment.
Fulfillment and adjustment write entitlement grants and credits inside their own
database transaction (a unit of work). Checkout and the subscription endpoints
read the subscription projection of the user's grants and cancellation rows; the
access snapshot and the administrators' pages read the same rows again, each with
queries of its own. All other calls are single statements, and an update saves
the whole row (`gorm.Save`), including the columns another request has changed
since it was read.

The places that are hard to test are listed as `hazards` in `PROJECT.json`, each
at its line, with the property that watches it or the reason why none does.

## 2. Modules

| Module | What it is |
|---|---|
| `Sums` | a bounded sum over a function, and the minimum of two numbers |
| `Wallet` | what the credit service promises: credits move only through holds, a hold ends once |
| `CreditLedger` | accounts, buckets, reservations and ledger of `credit.go`, `credit_bucket.go` and the refund clawback; implements `Wallet` |
| `Purchase` | what the payment pipeline promises: goods delivered once and together after a valid payment, taken back at most once after a reversal |
| `PaymentPipeline` | inbox, order processor, fulfillment and adjustment as concurrent requests; implements `Purchase` |
| `CreemEvents` | pure operators: the event that the adapter makes of a webhook's payload, and the comparison of its money |
| `Renewal` | failed, late and paid renewals of a subscription, and its first payment, which is announced twice |
| `Plans` | pure operators: the subscription projection, the licence it amounts to, the decisions of the checkout policies |
| `Cancellation` (extends `Plans`) | cancel and resume against the provider |
| `Checkout` (extends `Plans`) | opening hosted checkouts by requests that overlap, while webhooks save the same orders |
| `AccessViews` (extends `Plans`) | pure operators: the snapshots, the cloud plan, the administrators' pages and list of subscriptions |
| `Entitlements` (extends `AccessViews`) | one user's grants over their life, to which the views are applied |
| `Access` | login challenges, registration, devices, trials |
| `CloudStorage` | uploads authorized and committed against a quota |
| `CloudPages` (extends `CloudStorage`) | the client's and the administrators' pages of the stored projects |
| `Licenses` | license keys, their orders, callbacks and machines |
| `Configuration` | pure operators: what a deployment's settings load, validate and wire to |
| `Server` (extends `Configuration`) | the life of servers: migrations, catalog, serving, limiter, audit trail, shutdown, death |
| `MC...` | the instances: model values, definitions of the larger constants, symmetry |
| `CreditLedgerProofs` | recursion, sums and totals of tables; what each helper of `CreditLedger` returns, preserves or bounds; the inductive invariant of the ledger and its theorems; where every credit is, what is spent first, and that the ledger implements `Wallet` |
| `PaymentPipelineProofs` | the inductive invariant of the pipeline, its theorems, and that it implements `Purchase` |
| `SubscriptionProofs` (extends `Cancellation` and `Renewal`) | the inductive invariants of cancels and resumes, and of renewals, and their theorems |
| `CheckoutProofs` | the inductive invariants of checkout requests and of the webhooks that overlap them, and their theorems |
| `ServerProofs` | the inductive invariants of starting servers, of the audit trail and of the limiter, and of where a server is, and their theorems |
| `AccessProofs` (extends `Access` and `Entitlements`) | the inductive invariants of challenges, devices and trials, and of one user's grants, and their theorems |
| `CloudStorageProofs` | sums over finite sets; the inductive invariant of uploads and commits and its theorems, about the pages too |
| `LicensesProofs` | the inductive invariant of licenses, their orders and the requests on them, and its theorems |

A definition whose name has a suffix after an underscore (`Loaded_EnvAsWritten`,
`Exit_Undrained`) is a variant of the definition before the underscore that no
specification uses: a plausible bug, named in `PROJECT.json` under `mutants`, that
the property named there must notice.

### CreditLedger

One variable per table: `balance` and `reserved` are the account's columns,
`buckets`, `reservations` and `ledger` the rows in creation order (an index is an
id), `now` the clock. Every operation of the service runs in one unit of work and
SQLite lets one writer commit, so an operation is one atomic action: `Grant`,
`FulfillCredits` (a grant by a fulfillment rule), `Reserve` (with the sweep of due
buckets and the allocation it does first), `Commit`, `Release`, `ExpireBuckets`
(a batch over all accounts, up to a limit, at a time the caller names),
`Clawback`. A call that is refused, fails or repeats a key on record changes
nothing and is a stuttering step. Rows sorted by expiry, with absent ones last,
are `Ordered`; the loops over them are the recursive functions `SweepBalance` and
`Allocation`. `LegacyBalance` stands for balances of a database that predates
buckets; credits that no bucket covers are paid from it, as in the code. Times
are small integers, `Never` is a nil time. Left out: reservation metadata, the
bucket id a reserve row carries when it drew on one bucket only (nothing reads
it), users that do not exist, int64 overflow (amounts are bounded by prices).

### PaymentPipeline

`workers` are the requests in flight: each has a program counter and the rows it
has read. An action is one repository call or one transaction with the control up
to the next one: `Deliver` (look the event up), `Create`, `Claim` (save
processing), `ReadOrder`, `WriteOrder` (save the row read earlier), `Fulfill` (the
whole transaction), `FailRule` (a rule's executor fails and all is rolled back),
`LookupFailed` and `RecordFailed` (the failed execution written afterwards),
`Adjust` (the adjustment transaction), `Settle` (save the outcome), `Reprocess`
(an operator). `Fault` is a call or transaction that fails, `Abort` a request that
dies. An event is a member of `Events`, with its order, type and whether its
amount and currency match, given by `EventOf`. `Policy` is the configured
adjustment policy; with the low-usage rule on, the action depends on usage, which
is a choice here. A rule is a name: entitlements and credits behave alike, a grant
is found under its target key and a taking back is recorded once (a revoked
status, or a clawback row under its key); the amounts are CreditLedger's.

The instances of `PaymentPipeline` and `Renewal` name their events; that these are
what the code sees is the assumption `PayloadsAssumption` of the instances, which
TLC evaluates: `CreemEvents` decodes the payload of each event, shaped as in the
adapter's fixtures, to the event the run is about, and its amount and currency
match the order's exactly where the run says so.

Left out because nothing in the control depends on them: attempt counts, error
texts, timestamps other than the paid time, trade numbers. An order starts as
`pending`; `checkout_created` is treated alike by every branch modelled.

### Renewal

The orders of one subscription are the checkout order and a renewal order per
billing cycle, named by the cycle's key (`CycleKey`). `periods` is the end of the
grant that fulfilling an order makes, `graces` the grace grant of a cycle. A first
payment runs through `ReadOrder`, `Write`, `Fulfill` when checkout.completed
announces it. subscription.paid goes through `Route`, which compares the time the
checkout order was paid with the start of the period: a first payment that is
already recorded is applied in a transaction (`Nested`), anything else by single
calls (`Apply`, `Lookup`, `Create`, `Write`, `Fulfill`), each with the row it
read before. renewal_failed and subscription_expired are one transaction each
(`ApplyUnpaid`). `Anchor` is where a fulfilled period begins.

`Nested` depends on the database. Its transaction has written the order when
FulfillOrder begins another one on a connection of its own, and SQLite lets no
second writer in: the inner one fails after the busy timeout and the outer one is
rolled back. With an order that is fulfilled neither writes, and both succeed.

The inbox is coarser than in `PaymentPipeline`: a request starts on any event
that is not processed, which covers deliveries, duplicates and an operator's
reprocessing. Left out: events without period dates, amounts and currencies,
refunds, SKUs with several entitlements (the same steps in one transaction) or
without support for grace, and renewal orders named by the event itself.

`Deadlines` are the times that neither a request in flight nor an outage before
the first payment is recorded outlasts. They state the environment: in the passing
runs first payments are recorded within the tolerance of two minutes, and no
request lasts from one billing period into the next. A first payment that stays
unrecorded for longer gets two periods (Observations); one that stays unrecorded
for a whole period lets the next renewal pass for it, since any subscription.paid
is taken for the first payment of an order without a time of payment.
`PromptAssumption` is the part of this that the proofs need: one of the deadlines is
within the tolerance of the first payment. `BillingAssumption` says how the provider
bills: the checkout pays for the period that begins first, and every later one begins
more than twice the tolerance after it.

What is proved of renewals stands beside what is proved of cancellations, so the
names of the state and the steps of this module are its own: `NewSubscription`,
`RenewalStep`, `RenewalLife`, `FairRenewalLife`, `RenewalsTyped`; `clock`,
`orderRows`, `requests`; `Fails` is a call that fails, `TimePasses` the clock.

### Cancellation

A user follows a script of calls, each with its idempotency key, and tries each
until it is answered. `Prepare` is everything before the provider's call (the
lookups by key, the active period, the checks), `Tell` the call, which may have
its effect and lose its answer, `RecordCancel` and `RecordResume` the transaction
that writes the row and the mark on the latest order, whose answer may be lost as
well (`Answers`), `RecordRefused` a transaction that finds no period, or nothing to
resume. `Bill` and `Renewed` are a renewal: the provider has charged,
then the webhook adds the period. `Projection` and its parts are in `Plans`,
because checkout decides by the same projection. A row's default key, which
contains the end of the period, stands in for a key left empty.

### Checkout

`Read` finds the order of the key, `Replay` answers with its URL, `Refuse` is a
policy's answer, `Begin` saves the order as pending, `ProviderOpens` and
`ProviderFails` are the provider's call, `Save` and `SaveFailed` store the copy of
the order with its URL or its failure, `Dies` is a request that ends on the way.
Requests with one key can be open together (`Tries`), each with the copy it read;
`Clients` says which requests a client makes at all (the others stay `Unsent`).
Payments are made at the provider (`Pay`), at an URL that was answered. A webhook
(`hooks`) is a process as well: `Receive` reads the order and makes a copy with the
event's status, `WriteOrder` saves that copy over whatever the row is by now, and
`Fulfill` or `Adjust` are the transactions that follow. A paid webhook that finds the
order not paid any more fails and comes again; what it is about stays in `owed`. A
refund is compensated or left to a review, a dispute is compensated and raises a flag,
a cancellation keeps what is paid, as the default adjustment policy decides. Plans,
cancelled plans and risk flags change meanwhile, because the policies read them.

### Plans, AccessViews, Entitlements

`AccessViews` holds one operator per answer the program computes from a user's
rows: `Snapshot` (the licence, the entitlements, the cloud plan, the renewal),
`EntitlementSnapshot`, `AdminSummary`, `AdminAccount`, `AdminList`. Each is
translated from its own code, down to its own queries: they look alike and are
not the same. `Entitlements` reaches the states they are applied to: trials,
purchases with the period they extend, grace, grants of an administrator (with and
without a key), refunds, cancellations and resumes, and the administrators' reset of a
test scenario. Here each of these is the one
transaction it ends in; the steps before it are in the other modules. Its initial
state, steps and time have names of their own (`NewUser`, `UserStep`, `UserLife`,
`today`, `RowsTyped`), so that one module of proofs can extend it and `Access`.

### Access

`creating` and `verifying` hold requests. Creating: count, insert, deliver, or
give up when the delivery fails (`Count`, `Insert`, `Deliver`, `GiveUp`).
Verifying: read, then save as expired, or save a wrong attempt, or consume
with a conditional update and register in one transaction. Registration finds the
user, the device and the trial, and refuses a device over the limit;
administrators revoke devices in between. `Overlapping` is a bound: which attempts
are sent while others on the same challenge are open. With wrong attempts among
them, attempts are lost (Observations).

### CloudStorage, CloudPages

Four tables: projects, sync sessions, manifests, objects. `AuthorizeSync` reads the
plan, the used bytes and the project, and saves the project and the session later;
`CommitManifest` reads session, plan and used bytes and then runs its transaction,
in which the token is looked up again, the session is claimed and the objects are
replaced. Objects are named by a path made of project, kind, content hash and file
name. The pages are operators over the rows.

### Licenses

One license and its orders; a request is a worker with the rows it has read.
`overwritten` is a history variable that becomes true when a save undoes a change
that was made after its row was read: the code does not lock, and what holds then
is a different question from what holds otherwise. `PaidIsGiven` says which is
which. Adapters are swapped (`Swap`) as the administrators' endpoint does it.

### Configuration, Server

A setting is one of the few values that the code tells apart: a literal it compares
with, a well-formed or malformed value, an empty one, and for `env`, `mode` and
`cloud` a spelling with capitals, since some comparisons normalise and some do not.
`Loaded` is Load's normalisation, `Valid` is ValidateProduction with one operator
per section, `Wired` what Build chooses by settings, `Wires` whether Build succeeds.

A server runs through `Start` (load, validate), migration by mode (`MigrateTable`
is AutoMigrate model by model; `MigrateVersion` the baseline in its transaction),
`FindProduct` and `WriteProduct` for each product, `Wire`, then serves. `Arrive`,
`Allow` and `Handle` are a request at the limiter and its handler, `Take` and
`Write` the audit writer, `Shutdown`, `Stop`, `Exit` and `ForcedExit` the end of main,
`Die` the end at any other point, after which the server may be started again
with the same or another deployment. `ideal` is a history variable: a bucket that is
never forgotten and pays for every request that finds its own bucket in the map.

## 3. Runs

| Run | Instance | Shows |
|---|---|---|
| `credit_ledger` | 2 users, 2 keys, 2 orders, 2 buckets, clock to 2, one legacy credit each, batches with and without a limit | all ledger properties and the refinement of `Wallet` |
| `payment_pipeline` | 2 requests; a payment, one with a wrong amount, a refund, an event to be ignored; 2 rules; a policy that acts or reviews; one fault, one dying request, reprocessing | nothing swallowed, nothing partial, refinement of `Purchase` |
| `payment_live` | 2 requests; a payment, a dispute, a cancellation, an event of an order without checkout; one fault; fairness | a dispute leaves its flag, no event stuck, a payment is delivered |
| `renewal` | 2 requests; both announcements of a first payment, a failed and a paid renewal; one fault, one dying request | one period per payment, none lost, none on the same days |
| `renewal_grace` | 2 requests; first payment, failed renewal, late payment, expiry; grace of two days, one fault; fairness | a late payment takes the days of grace in; an early expiry cuts none off; every event is processed in the end |
| `cancellation` | 2 tries together, 3 scripts of four calls (new keys, resumes without keys, the key of an earlier cancel), a period of two, a renewal, three failures; fairness | answers are true, one active row, the provider first, every call settles |
| `checkout` | two clients: one with a request for a monthly and one for a lifetime key, one with two requests at once for the lifetime key; a webhook (payments of both keys, refunds and disputes of the first, cancellations of the second), three checkouts, one fault, one cancellation of the plan, two moments; fairness | whatever is saved over a paid order, charges are bounded, goods are given once and only rivals take it back; a client gets its checkout |
| `access` | one address with two devices, three challenges, 2 creators, 2 verifiers, every limit 1 (attempts 2), one fault, three moments | a code opens one session, limits overrun only by concurrent creators, devices within the limit, one trial |
| `cloud_storage` | two projects, three resources (two with one path, one filling the quota), 2 tokens, an authorization and 2 commits at once, a plan that comes and goes, sessions that expire | a session is used once, objects are the newest manifest's, the pages agree, the quota's overrun is bounded |
| `entitlements` | a trial, two purchases, grace, one grant of the administrator, two cancellations, within two months | the views tell one story; what is offered is accepted |
| `licenses` | 2 requests, 2 machines, one seat, an order and a renewal, one swap of adapters, one fault, three moments | what was paid is given; seats hold |
| `server` | three scenes (below) | a production server is safe, serves its catalog, keeps its trail, bounds the bursts of the buckets in its map |

The scenes of `server`: one server started with every deployment that differs from
a sound one in one or two settings (one stands for all that are refused, whose
effect is the same); two servers that start together, in each combination of
migration modes, on an empty database, a half-migrated one, a complete one with
outdated products and one whose record is another migration's; one server at work,
with five calls by two requests at a time over four units of time. A process may
die once in each.

Bounds and why they suffice. Two buckets are the fewest with an order among them,
with one that can expire under a hold and one that cannot, and the fewest with
which a batch crosses accounts and is cut by a limit. Grants of three and holds of
two let two holds share a bucket, and one draw on two buckets or on the credit
that no bucket covers. Two client keys allow a commit and a release of
one reservation to race, and two reservations to share a bucket. The clock needs
one step before the period ends, one at its end, one after. Two requests give
every pair of interleaved calls, and the code keeps no state that needs three.
One fault and one dying request reach each error path and each intermediate
state; `cancellation` has three failures because a call has three parts that can
fail, one after the other. Two rules are needed for a partial delivery. A billing
period of three units with a tolerance of one has a time inside the tolerance,
one outside it, and the end; two periods are what a renewal needs, and grace of one
or two units ends before or after a late payment. A limit of one with two devices
or two creators is the smallest at which a limit can be passed; two attempts are
the fewest with one before the last. A bucket of two tokens, refilled by one and
forgotten after three units, is full when it is forgotten, as in the defaults. Four
tables with the products' third leave a half-migrated schema without and with it.
Settings in pairs reach each interaction of two rules; the validation has no
rule that reads more than two settings, and the wiring none that reads more than
three, of which `NewCreemAdapter`'s start from a sound deployment in one step.
Keys, orders, requests, devices and projects are symmetric where no liveness is
checked.

For checkouts, two requests are the fewest whose copies can be stale, and three
checkouts let an order be opened twice without a failure and once more with one, which
is when the bound on charges no longer holds. They also let one of two keys be opened,
lost, and opened again. Refunds and disputes do not meet overlapping requests in the
run, which would be ten times as large; the theorems about it have no such bound.

Deadlock is not checked where an instance ends: its keys, its clock and its events
are used up, and calls that are refused or replayed are stuttering steps. It is
checked in `cloud_storage` and `server`, whose pages, tokens and servers never run
out of steps.

Fairness. `payment_live`, `renewal_grace`: a request that has started goes on (weak
fairness of `Work`; the server schedules every goroutine), and each event is
delivered again, or reprocessed by an operator, until it is settled (weak fairness
of `Retried`): the provider retries on an error response, and the webhook runbook
has operators retry failed events (RUNBOOK_WEBHOOK_OPERATIONS.md:26). Dying requests
are excluded there: one that dies in processing leaves the event to an operator, as
the runbook says. `renewal_grace` leaves the second announcement of the first
payment out: with it `EventsConverge` fails under SQLite (Observations).
`cancellation`: requests go on, the user makes the next call after an answer and
tries an unanswered one again, and a webhook of the provider arrives some time;
failures are bounded, time may stop. `checkout`: the client keeps asking and its
requests go on; nobody need pay, resolve a flag or cancel.

## 4. Observations

No run is expected to fail: what the models found where code and expectation
part is excluded by a stated assumption, bound or scope, and listed here.

Payments and subscriptions.

- A dispute processed before the payment finds nothing applied and becomes
  processed; the payment then takes the order from refunded to paid and fulfills it
  (payment_order_processor.go:41; docs/RUNBOOK_COMMERCE_FLOW.md:586).
- The inbox checks the status at one time and saves processing at another
  (payment_event.go:113): two deliveries can both process an event. Effects still
  happen once (`ImplementsPurchase`).
- A failed attempt records its rule as failed over the applied row of another
  request (fulfillment.go:328), and a later refund looks at applied rows only.
- checkout.completed sets the order's time of payment to the time of processing.
  When that is more than two minutes after the period's start, the
  subscription.paid of the same payment derives a renewal order and grants a second
  period (subscription_renewal.go:468). `Deadlines` excludes it.
- A first payment that failed once as subscription.paid is recognised as such on
  its retry and opens a transaction within a transaction (subscription_renewal.go:111),
  which SQLite cannot serve: it fails for ever, until checkout.completed arrives.
- A payment that is fulfilled when its days are over gets a period in the past:
  entitlementFulfillmentAnchor (fulfillment.go:545) looks for grants that have not
  expired yet and otherwise counts from the time of payment. Two periods can then be
  the same days. Say the checkout is fulfilled late, at 5, when the second period (3
  to 6) has been given: it is anchored after that one and ends at 9. If the payment of
  the period from 6 on is fulfilled at 9 or later, nothing runs any more, it counts
  from 6 and ends at 9 too: two payments, one period of days. `FulfilledInTime` in
  `SubscriptionProofs` says when this cannot happen; within the clocks of the runs it
  does not happen.
- A request that dies in processing leaves the event there until an operator
  reprocesses it.
- Two overlapping checkout requests with one key open two provider checkouts, and
  both can be paid: `ChargesBounded` allows one charge for each request that overlaps,
  and TLC finds that many. A failure of the provider on top of it can
  clear the stored URL, after which the key opens a third (`ChargesBounded` claims
  nothing then). The copy of the slower request is saved over the row, whatever it is by
  then (checkout.go:176, checkout.go:168): a fulfilled order becomes checkout_created
  or failed again. TLC finds both in the instance of `checkout`;
  `TakenBackByRivals` says when at the earliest, `PaymentIsGiven` what holds all the
  same (both are parts of `PaymentIsKept`).
- A webhook saves the whole row it read too (payment_order_processor.go:69): one that
  read the order before a checkout request saved its URL writes the older one back. An
  order whose URL was cleared by a failure and that is paid at the URL of the rival is
  fulfilled without one, and its key answers an empty URL from then on.
- A payment of an order that was refunded makes it fulfilled again and gives nothing
  new: its rules count as applied, and the grant stays revoked (fulfillment.go:240).
  `PaymentIsGiven` is about goods that were given, revoked ones included.
- Two keys opened for the same plan are both payable in any case. A cancelled
  checkout's key keeps answering the old URL.
- Two cancels with different keys and no resume between them leave two active rows;
  a resume marks one, and the subscription still shows cancel_at_period_end
  (subscription_cancellation.go:777). With an empty key, a cancel after a resume in
  the same period is answered as success and not recorded. A cancellation recorded
  between a charge and its webhook carries the old period's end. An overlapping
  cancel and resume can leave provider and rows disagreeing: the scripts send a new
  call only after the last one was answered.
- A refund takes back only what the bucket has left, so credits that are held at
  that time and released later stay with the buyer.
- The administrators' ExpireBuckets takes a `now` ahead of the clock
  (handler/credit.go:127). A hold released after it refills a bucket whose expiry
  key is used up, and every later sweep of the account fails on the unique key.
  `SweepTimes` has such times in it; that a due bucket can always be expired is
  therefore not among the properties.

Access and entitlements.

- A wrong attempt saves the whole challenge row it read
  (access_login_challenge.go:454): attempts are lost, and an overlapping consumption
  can be undone. `Overlapping` leaves such pairs out.
- A refunded lifetime grant gets an expiry, so the administrators' list shows it as
  an expired monthly subscription. Cancel, refund and buy again within the old
  period: the new subscription shows cancel_at_period_end. An order number in the
  list's filter can turn expired into cancelled. Entries with equal times come in
  the random order of a Go map.
- A manual grant of cloud_storage without expiry alone makes the licence lifetime;
  a manual grant with an expiry gives the licence basic while entitled.
- CreateGrant never looks at the review status of the registration it names, and
  without a key two requests at once both create.

Cloud storage.

- AuthorizeSync saves a project row it read earlier (cloud_storage.go:918), so a
  commit in between loses LastManifestID, even to empty: the list then shows no
  manifest while the newest manifest and the administrators' page have it.
- The path of an object leaves out the resource's ID and sanitises the project's
  (cloud_storage.go:976): projects "my project" and "my-project" of one user share
  object rows. `PathsAssumption` excludes it.
- An expired session is marked in the transaction that is rolled back for it
  (cloud_storage.go:1034): no row ever says expired. Of two overlapping commits with
  one token the second is told it is already committed instead of the result.
  Nothing checks that an object was uploaded, and replaced objects stay stored.

Licenses.

- HandleCallback marks the order paid and then saves the license: when that fails,
  success is answered and the license is never activated. Activate, Deactivate,
  CheckExpiry, CreatePayment and renewals save stale rows over each other (a paid
  order can become pending again, two callbacks of one renewal add two periods).
  The amount of a callback is ignored, an unpaid license can be activated, an order
  can be paid through both providers, and the expiry counts from the order.
- The Go SDK sends `license_key` (sdk/verify.go) where the handlers require `key`
  (handler/auth.go:21), and reads a field `valid` they do not send: this server
  refuses each of its calls with 400, which the SDK retries as if it were an outage.
  With another server that answers `valid: false`, the kept answer is valid offline.

Configuration and servers.

- Validation in production accepts only a delivery other than dev, and Build knows
  email only as disabled: login codes are never delivered in production. An unknown
  delivery, and rules of fulfillment that do not parse, pass validation and fail at
  the start; own rules may leave out a product that is sold.
- WeChat and Alipay without credentials are mocks in production, too.
- The record of a migration is a checksum of its name: changed models under the same
  version are not migrated. In a rolling upgrade the last server to reconcile wins.
- A slow refill (fewer tokens in the idle time than the bucket holds) lets a client
  get a full bucket by waiting for it to be forgotten; `LimiterAssumption` excludes
  it. A request that has its bucket in hand when the bucket is forgotten takes from
  that one, beside the new bucket of the same client (ratelimit.go:99): such
  requests are outside the bound of `BurstsBounded`. The administrators' routes are
  not limited.
- A forced shutdown, or a listener that fails, loses queued audit entries.

## 5. Proofs

`CreditLedgerProofs` proves, for all values of the constants that satisfy the
assumptions of `CreditLedger`,

- `TypeCorrect`: `Spec => []TypeOK`, in which every balance, hold and bucket is a
  natural number: nothing is ever overdrawn;
- `LedgerCorrect`: `Spec => []LedgerExplainsBalance`.

The inductive invariant `IInv` is `TypeOK`, `LedgerExplainsBalance` and
`OrderRowsNameBuckets`: the grant row of an order names a bucket that exists. The
last is what `ClawbackRow` needs to update a row of the table, and neither of the
others implies it. The argument: each action appends rows whose amounts are what it
adds to the balance, so the replay of the longer ledger ends in the new balance;
for a sweep this is an induction over the swept buckets. There is one lemma per
action (`...Preserves`), `StepIInv` collects them.

The sums, sweeps and allocations are recursive functions. The library's induction
theorems take an operator as a parameter, which the installed provers cannot
instantiate; the module therefore starts with induction on a set of naturals, from
the least-element theorem of WellFoundedInduction and proves from it that these
functions satisfy their defining equations and stay in their ranges.

Its second half goes on from there and proves of the same specification

- `CreditsAddUpCorrect`: `Spec => []CreditsAddUp`: what an account or a bucket holds
  is what its pending reservations hold; what a bucket was granted is left, held,
  spent, expired or taken back; a balance covers the buckets; a reservation has one
  row for its beginning and one for its end;
- `EarliestIsSpentFirst`: `Spec => SpendsEarliestFirst`, for every reservation;
- `ServiceImplementsWallet`: `Spec => ImplementsWallet`, the refinement of `Wallet`.

`CreditsAddUp` needs two things that it does not say (`CInv`). `Shape`: rows and
reservations name buckets that exist and belong to their own account, an allocation is
within its reservation's amount, and what is left is in an active bucket. And the same
sums as totals over whole tables (`AddsUp`): a step changes one row or the buckets of
one allocation, and the lemmas on totals say what that does to the total of a table. The
order of spending is an induction over the loop of the allocation: nothing is drawn
from a bucket before those ahead of it are drained (`Fills`), and what is ahead is
what expires sooner (`Draws`).

`PaymentPipelineProofs` proves, for any number of requests, events and rules,

- `TypesCorrect`: `Spec => []TypeOK`;
- `PaymentsAreDelivered`: `Spec => []PaidIsDelivered`: what was answered as processed
  is delivered, whole;
- `DisputesLeaveFlags`: `Spec => []DisputeLeavesFlag`;
- `PipelineImplementsPurchase`: `Spec => ImplementsPurchase`.

The invariant adds two things to the types. `Goods`: an applied rule has its grant
whatever has overwritten its row since, and an order's goods are there all or not at
all. `JobsOK`: what a request has made sure of on its way to where it is. The rows it
relied on may have been overwritten by another request for the same event, which is
why it speaks of what no step undoes (`Grows`). The refinement follows step by
step: the transactions that deliver or take back are steps of `Purchase`, every other
step is a stutter.

`SubscriptionProofs` proves, about `Cancellation`, for any number of tries at once,
any failures and every script in which cancels and resumes alternate (`Alternates`),

- `AnswersAreTrue`: `Spec => []AnswerIsTrue`; `OneRowIsActive`: `Spec =>
  []OneActiveRow`; `ProviderIsFirst`: `Spec => ProviderFirst`; and
  `CancellationTypes`: `Spec => []TypeOK`.

`Alternates` is what the list of subscriptions lets a user do (`OfferedIsAccepted`: a
plan that ends can be resumed, one that goes on cancelled), with a key for each cancel
and a new one, or none, for each resume; without it the properties fail as section 4
says. What an answer means depends on whose turn it is, so the invariant has two
halves. While the user cancels (`Cancelling`), an active row is the call's own, and if
there is one, or a try about to write one, the provider has been told. While the user
resumes (`Resuming`), an answer or a row with the call's key says that nothing is
active. One half leads to the other only when a call was answered and all its tries
are gone (`NextCall`); that a resume's key is not found in an older row is
`ResumesPast`. That a new row's period is a time rests on the last of the user's
periods (`GrantsOK`).

About `Renewal` it proves, for any events of one subscription, any number of requests,
any lengths and any failures,

- `RenewalTypes`: `RenewalLife => []RenewalsTyped`;
- `RowsAndInboxAgree`: `RenewalLife => []RenewalsAgree`;
- `OnePeriodForEachPayment`: `RenewalLife => [](OnePeriodPerPayment /\ PeriodsBegin)`;
- `PaidPeriodsFit`: `RenewalLife /\ []FulfilledInTime => []PaidPeriodsAreGiven`, for
  `GracePeriod <= BillingPeriod`;
- `GraceRuns`: `RenewalLife => GraceRunsItsCourse`.

One invariant, `RenewalFits`, carries them; TLC found no violation of it on the
instances of both runs. A paid renewal is a chain of single calls, so most of it says
what a request has made sure of on its way (`OnItsWay`): which order its event pays
for, that the row it is about to save says paid and when, and that an outcome to be
saved as processed has had its effect. It holds through other requests' saves because
they save such rows as well (`RowFits`: an order whose goods were given is paid or
fulfilled, one that is fulfilled has given them) and because a period, once given,
stays. That each payment gives one period is the question which order a payment is
for. The time of payment decides it, and `PaidWhen` says what it can be: within the
tolerance of the start for the checkout order, the start of its cycle for a renewal.
This needs the first payment on record in time (`FirstRecorded`, from
`PromptAssumption`) and no other cycle that begins close to the first
(`BillingAssumption`); then the two announcements of the first payment come to one
order, and `GivenForPay` counts orders against payments. `GracesRun` and `PeriodsEnd`
say of the rows what the anchor needs: days of grace that last have their full length,
and there is a last paid period.

`PaidPeriodsFit` has two premises. With more days of grace than a period has, a
payment may be anchored so far back that its period ends where another one does, or
before it. And `FulfilledInTime`: a payment made while a paid period runs is fulfilled
before the length of a period has passed, or while one runs still; section 4 shows
what happens otherwise. Neither is implied by the code. TLC finds the second in every state
of both instances. Under them, each new period ends later than all that were given
before (`LaterThanAll`), which is more than that no two are the same days. The
other half of `PeriodsFit`, where a period begins, needs no premise and is part of
`OnePeriodForEachPayment`.

`CheckoutProofs` proves, for any keys, any number of requests and webhooks that overlap,
and any failures,

- `ChargesAreBounded`: `Spec => []ChargesBounded`;
- `PaymentsAreGiven`: `Spec => []PaymentIsGiven`;
- `OnlyRivalsTakeBack`: `Spec => []TakenBackByRivals`;
- `PaymentsAreKept`: `Spec => []PaymentIsKept`, the three together;
- `CheckoutTypes`: `Spec => []TypeOK`.

It assumes `CheckoutAssumption`, and that the requests with one key are finitely many
and clients make no others (`TriesAssumption`). None of these is inductive: what a step saves is what some request
or webhook read long before. The invariant `IInv` therefore speaks of every place that
knows an URL (`Knows`: clients, the row, the copies of requests and of webhooks about to
write). Each URL that is known is one of the key's checkouts; a request that called
the provider had found none, and the URL it is about to save is its own, known to
nobody (`CallOK`); a webhook about to fulfill has a payment, and one about to write
writes no status of a checkout (`Works`). Every step of a request is first shown to be
one of six (`Does`: it reads, ends, goes on to the provider, returns, stores its URL or
its failure) and every step of a webhook one of a single form (`ByHook`), so that each
invariant is shown to survive a few forms of steps instead of all actions. On top of it,
`GInv` adds that an order that is fulfilled has its grant, since a payment that
finds it so waits for nothing; `TInv` counts the checkouts of an order that was taken
back: the payment's and the one that the slow request stores, which nobody could have
paid yet. `CInv` counts what a key can still make known: the known URLs and the
requests that found none are together no more than the requests that can overlap
(`Count`). The last needs that nothing failed, or that requests come one after another:
a failure that is saved over an order clears the URL under which it is known.

`ServerProofs` proves, for any number of servers, any settings in `Settings` and any
lists of models in `Tables`,

- `CatalogServed`: `Spec => []ServesTheCatalog`, through every interleaving of
  servers that migrate and reconcile one database, and every death and restart;
- `ProductionSafe`: `Spec => []ProductionIsSafe`;
- `TrailKept`: `Spec => []TrailIsKept`;
- `BurstsAreBounded`: `Spec => []BurstsBounded`;
- `ServersTyped`: `Spec => []TypeOK`.

It assumes what the module assumes: `SentinelsAssumption`, `TablesAssumption`,
`BufferAssumption` (the channel has a size), `WiringAssumption` (what Build returns is
not the value that stands for nothing), and `ScenesAssumption`, by which the scenes
offer deployments and databases the code can meet. The invariant says of each server
how far its start has come and what the database must hold by then: the settings it
accepted (`Deployed`), the tables present (`Migrated`), the products up to the one at
hand (`Reconciled`), and of the database that a recorded version means a complete
schema (`Schema`). The property itself speaks of serving servers only, and is not
inductive: what makes it true was done in several earlier steps, between which others
write the same tables. `OthersKeep` is the heart of it: the database only grows
(`Grows`), so what one server found stays found while others work. For
`ProductionSafe` the rest is a statement about settings: `CreemIsLive`,
`WiresInProduction`, `RedirectsAreListed` lead from `Valid` to what is wired.

The other two have an invariant of their own (`WInv`), about servers at work. The trail,
the row in hand and the queue are one ascending sequence of everything accepted that
did not fail (`AuditOK`): recording appends to it, taking and writing move the place
where it is cut, a failed write takes one entry out. For the limiter, each bucket in
the map has at most what the ideal one has once both are refilled to the same time
(`BucketsOK`); one that is forgotten has been idle long enough to be full, by
`LimiterAssumption`, so that the new bucket in its place is no richer.

The types follow from both, and from where a server can be (`Placed`): it has wired
something only while it is up, stands at no table and no product then, and past the
last product when it wires. A channel that was within its size stays within it, since
recording looks at its length first (`RoomInTheChannel`), and the entry in the
writer's hand is one that was accepted, because it is in the middle of the sequence
(`HandIsAccepted`).

`AccessProofs` proves, for any addresses, devices, challenges and limits,

- `AccessTypes`: `Spec => []TypeOK`;
- `LimitsAlwaysHold`: `Spec => []LimitsHold`, when finitely many requests create
  challenges together (`Creators`);
- `CodeOpensOnce`: `Spec => OneSessionPerChallenge`, when wrong attempts do not
  overlap with other attempts on the same challenge (`"wrong" \notin Overlapping`, as
  in the run `access`; section 4 says what the code does when they do).

The limits on challenges follow from an invariant over what is open: in every window,
the rows and the requests that counted and have not inserted (`Kept`, `Coming`)
are together within the limit and the number of requests (`Quota`). A request that
counts meets it because each later window sees only rows it counted; the rows' times
never change although four steps save rows that were read earlier (`Copies`,
`RowsStay`). For devices, `Rights` bounds the active ones and ties each known device
to its address's trial (also as `DevicesAndTrials`, without the finiteness). For sessions,
`KeyOK` says per challenge what the requests under way know: a pending row has given no
session and its count is that of the wrong answers, an attempt about to be answered
as wrong is alone and read the current row, and of the requests that may consume
a row one at a time is registering. The type invariant needs most of this too: a row's
count of wrong attempts stays within the limit because whoever saves a row with one
more read one that was still pending (`SoundRows`), and the times in rows and
messages are times that were (`Numbered`).

For what an access shows, `AccessProofs` also proves, about `Entitlements`, for any
lengths of months, graces and trials and any number of orders, cancellations and grants,

- `RowTypes`: `UserLife => []RowsTyped`;
- `ViewsTellOneStory`: `UserLife => []OneStory`;
- `OffersAreAccepted`: `UserLife => []OfferedIsAccepted`.

The proof has two halves. The first takes rows of the right shape and no steps
(`ViewsAgree`, `ButtonsWork`), and shows what shape the code's different queries need to
come to one answer: what was taken back is not active (`SoundGrants`), the two goods of a
purchase, a trial or a grace have the same period and state (`Paired`), without
which the licence, read off the software's grants, and the cloud plan, read off the
cloud's, would differ; the user's trial is also a grant (`Given`); and of the
cancellations only the one last written can be running (`OneLive`), since one view looks
for the running row and another at the last. The second half shows that every step
keeps that shape (`AccountFits`). The two goods stay paired because a paid month
is counted from the same moment for both (`AnchorIs`) and a refund takes back by
the order, whose key both carry; that a key is given once needs the tables of orders and
requests too (`Labelled`, `AskingFits`), and that a period ends at a number needs every
set of ends to have a last one (`Bounded`, `GreatestIs`).

`CloudStorageProofs` proves, for any projects, any uploads of finitely many resources,
any finite set of plans and any finite number of commits at once,

- `TypeCorrect`: `Spec => []TypeOK`;
- `WholeCommits`: `Spec => []CommitsAreWhole`: sessions, tokens, the objects that can be
  restored and every page of a project agree with its newest manifest;
- `OverrunBounded`: `Spec => []QuotaOverrun`.

It assumes `CloudAssumption` (the resources of one upload are finitely many) and
`PathsAssumption` (no two projects share a path, section 4). The invariant (`IInv`)
says of a project row, and of the copies that authorizations hold of it (`Copied`),
that the manifest it names is there and is the project's: a copy written back may name
an older one, which is why the pages' properties do not say that the named one is the
newest. `ObjectsKept` says of the active objects of each project, shown or not, that
they are the paths of its newest manifest, and that they are finitely many, without
which no sum over them means anything. The quota's bound is not inductive as it
stands, since a commit compares the quota with a count of its own. `RoomLeft` is: what
is used, plus what each commit under way can still add (`Slack`: its quota less the
count it read), is within the number of commits times the largest quota. A commit that
reads the count gets what is free of its quota then, while the others have a largest
quota each at most (`RoomWhenRead`); one that ends gives its slack up for what it
stores (`ProjectedFits`, `RoomWhenEnded`), whatever others have stored since it read.
The pages' sums are sums over finite sets, which the first lemmas take apart: they do
not depend on the order in which the set is taken (`AnyOrder`), change by the value at
a place (`SetSumUpdate`) and can be grouped by project (`SetSumGrouped`).

`LicensesProofs` proves, for any requests, machines, products, providers and bounds,

- `LicenseTypes`: `Spec => []TypeOK`: a license never has more machines than seats,
  although every request saves the whole row that it has read;
- `PaidLicensesAreGiven`: `Spec => []PaidIsGiven`.

A request keeps the row it read until it saves it, so the invariant is about these
copies as well as the tables (`RequestOK`): each is a sound row of the license's
validity, and the one that is to get a machine has a seat left. `PaidIsGiven` is not
inductive, since what is paid and not yet applied is known only to the requests.
`Applied` are the paid orders that no request has still to apply, and `Has` what the
license is, given those: a save that finds the row it has read is as good as one atomic
step, and adds at most one order to `Applied` and a period to the license (`HasMore`),
while every other step leaves the license alone and `Applied` no larger (`HasFewer`).
A save that finds another row sets `overwritten`, after which only the types are
claimed; `PaidStays` says that up to then a paid order stays paid.

What stays with TLC. Liveness under fairness (`NoEventStuck`, `PaymentIsDelivered`,
`EventsConverge`, `EveryCallSettles`, `CheckoutOpens`), which this prover does not
reach. Every other property of every run, the invariants and the step properties
alike, is stated by a theorem; where a theorem has a premise, it is named above.

## 6. What is not modelled, and what is left

Not modelled: metrics and logging (counters without influence on the services);
the Go SDK (it does not speak this server's protocol, see Observations); the
HTTP calls and signatures of the provider adapters, whose outcomes are the
payloads and answers the models quantify over; request IDs, CORS headers and route
matching, which keep no state; paging, searching and wording of the read models;
users and registrations as rows of their own.

Partly modelled, with what is missing: see the notes in `PROJECT.json`.

Left to do: renewal events without dates; the rest of what `PROJECT.json` lists as
partly modelled.
