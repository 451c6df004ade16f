# Sal7ha backend: a TLA+ model

The Sal7ha backend is a NestJS service for car-service shops ("businesses") and
their customers: bookings, an inventory with point-of-sale, payments and
refunds, onboarding, billing accounts, notifications, and a mobile application
on the same database. State lives in PostgreSQL (through Prisma) and, for read
models, in Redis. Several processes may serve requests at the same time.

This directory specifies that behaviour in TLA+, checks it with TLC on small
instances and proves the central invariants with TLAPS for all instances.

## The system

What makes this program hard is one thing, everywhere: a request handler is an
async function, **every `await this.prisma...` is one atomic step of the
database, and nothing joins two of them** unless the code says
`$transaction`. Between two awaits any other request may run, in this process
or in another, and the process may die. Reads are checked first and acted on
later; the write that follows names the row by id and is unconditional.

| Component (sources under `src/src/`) | State | Operations that change it | Interacts with | What is hard | What makes it correct |
|---|---|---|---|---|---|
| Inventory (`modules/inventory`) | `InventoryItem`, `InventoryTransaction` | create, update, remove, sell | inserts `Payment` rows; drops read models | stock check before the transaction; price read before the sale; item removed under a sale | a sale is one event in three tables; no sale lost from the stock; bounded overselling |
| Payments (`modules/payments`) | `Payment.status`, `PaymentRefund` | refund, batchRefund | rows made by Inventory; drops read models | read, insert, update in three awaits; batches go on after a failure; previous refunds not looked at | refunds bounded by payments; status and refund rows agree |
| Sessions (`modules/auth`) | `RefreshToken` | signIn, refresh, signOut | users; JWTs carry role and business | test, revoke and issue in three awaits; crash in between | revoked is for good; bounded replay; nobody signed out silently |
| Read-model cache (`common/cache`, readers in dashboard, business, payments, reports) | Redis entries with a TTL | remember, del, deleteByPattern | all services that write | value computed before a write, stored after its delete; lost deletes; writes that drop nothing | staleness has a cause and an end |
| Bookings (`modules/bookings`) | `Booking`, details | create, update, remove, setStatus, batchStatus | customers, cars, notifications, read models | status compared with an older read; any status may follow any other | announced status was written; each change announced or its failure visible |
| Notifications and push (`modules/notifications`) | devices, inbox, outbox | registerDevice, unregisterDevice, notify..., dispatchPush | bookings; Firebase | several awaits per recipient under one catch; push result applied to devices later; failed pushes not retried | every recipient gets at most one message per event; a live device stays enabled |
| Mobile app (`modules/mobile`) | one JSON value per user; bookings, customers, cars | profile, vehicles, reviews, payment methods, chats, bookings | auth and account write the same JSON value | read-modify-write of the whole value; find-or-create without a unique constraint | at most one default payment method; an update touches only its part |
| Account (`modules/account`) | user settings | updateProfile, updateSecurity, updateMfa, ... | the mobile store shares a column | `updateSecurity` replaces the column | settings do not touch the mobile store |
| Queues and export jobs (`common/queues`, `modules/payments`) | `ExportJob`, BullMQ | createExportJob, enqueue..., processors | Redis | fallback after a failed or half-failed enqueue; workers not registered | every job is completed, once |
| Billing accounts (`modules/billing`) | `BillingAccount` | create, update, remove, submit | queues | status tested before delete and before submit | only drafts are deleted; verified stays verified |
| Sign-up (`modules/auth`) | `User`, `Business` | signUpBusiness, resume, signUpClient, verifyEmail | unique e-mails | concurrent resumes; orphan businesses | a user belongs to the business it was answered |
| Onboarding (`modules/onboarding`) | business and user flags | save..., submit | bank details, services | two flags in two updates | flags agree; submitted only when complete |
| Business profile and services (`modules/business`) | `Business`, `BusinessService` | updateProfile, replaceServices, create/update/deleteService | read models | unique (business, service) | single statements |
| Customers, vehicles, inbox, support, dashboard widgets | own tables | single-row writes | read models | - | - |
| Service catalogue, locations, health, guards, date and pagination helpers | none | none | - | - | pure |

## The modules

| Module | Extends | Models |
|---|---|---|
| `PaymentTable` | | the `Payment` rows that sales insert and refunds change; the rounding of money columns |
| `Inventory` | `PaymentTable` | `InventoryService`: items, transactions, the requests in flight |
| `Payments` | `PaymentTable` | `PaymentsService.refund`, `batchRefund` |
| `Sales` | `Inventory`, `Payments` | both on the shared table: `Init`, `Next`, `Spec`, the inductive invariant |
| `SalesProofs` | `Sales` | theorems about it |
| `Sessions` | | refresh tokens, their rotation and sign-out |
| `SessionsProofs` | `Sessions` | theorems about it |
| `ReadCache` | | the four read models of a business in Redis |
| `ReadCacheProofs` | `ReadCache` | theorems about it |
| `StoreRegisters` | | abstract: the mobile data of a user as registers and lists stored apart |
| `MobileStore` | | `MobileService`'s JSON value of a user, which implements `StoreRegisters` |
| `Notifications` | | `NotificationsService` and the push service: devices, inbox, outbox, one notice from its recipients on |
| `Bookings` | `Notifications` | bookings, customers and cars of several businesses, and the notices their changes cause |
| `Jobs` | | `AppQueueService`, BullMQ and the processors, with export jobs, billing accounts and tickets |
| `SignUp` | | users and businesses, sign-up, signing in, the claims of access tokens |
| `Onboarding` | `SignUp` | the onboarding steps and the settings pages that change what they look at |
| `JobsProofs`, `MobileStoreProofs` | `Jobs`, `MobileStore` | theorems about them; the second also shows that `MobileStore` implements `StoreRegisters` |
| `NotificationsProofs`, `BookingsProofs` | `Notifications`, `Bookings` | what a notice keeps to itself, as lemmas; theorems about bookings with their notices |
| `OnboardingProofs` | `Onboarding` | theorems about sign-up and onboarding |
| `MCSales`, `MCSessions`, `MCReadCache`, `MCMobileStore`, `MCBookings`, `MCJobs`, `MCOnboarding` | | model values, definitions and symmetry for the `.cfg` files |

### Inventory, Payments, Sales

`items[i]` is a row with its life (`unborn`, `live`, `deleted`), price and
quantity; `transactions` and `refunds` are sets of rows; `payments[p]` the row
with reference `p`. `calls[c]` and `refunding[c]` are slots: what a request
holds in local variables between two awaits. An operation is as many actions as
it has awaits that matter:

* `sell` (inventory.service.ts:144): `CheckSale` (lookup, stock check, unit
  price), `RecordSale` (the `$transaction`), `Abandon` (rollback or death).
* `update`, `remove`: `FindForUpdate`/`ApplyUpdate`, `FindForRemove`/`ApplyRemove`.
* `refund` (payments.service.ts:75): `AcceptRefund` or `RejectRefund` (lookup and
  amount check), `CreateRefund`, `MarkPayment`. `batchRefund` is the same loop
  over `todo`; `StepThrows` is a call that throws (the batch goes on),
  `RefundCrashes` the death of the process.

Requests answered 400 or 404 without a write are not steps. Money is counted in
tenths of a cent, because requests may carry any number of decimals while the
columns are `Decimal(10, 2)`: `Stored` is the rounding of a column. JavaScript's
doubles are taken as exact on such amounts. `baseline` and `interrupted` are
history variables: the code does not have them, the properties need them.
Deletion of a business, which cascades over every table, is never requested by
this code and is left out; so is the read side (lists, catalogues, text).

### Sessions

`tokens[t]` is a row of `RefreshToken`; `parent` and `by` are history. `refresh`
(auth.service.ts:269) is `FindToken`, `RevokeToken`, `IssueToken`; `RefreshDies`
ends it anywhere. `SignIn` stands for every operation that ends in
`issueSession`. A token is 48 random bytes, so ids are never drawn twice.
`signOut` names a row by its token and skips a revoked one. Time is the action
`ExpireToken`; `rememberMe` only changes when it fires and is left out.

### ReadCache

The read models are `dashboard`, `setupWarnings`, `paymentSummary` and
`applicationStats`. What matters of a value is which version of each table it
was computed from, so `cache[k]` is a function from tables to versions.
`remember` is `StartRead`, one `Query` per table (they run side by side in
`Promise.all`), `Finish`. A write is `Write`, then `Invalidate` for each delete
of the service's `invalidate`, then `Answer`. Any Redis command may or may not
reach Redis (`isReady()` of this process, or an error swallowed); a `SCAN` that
throws after the write is `WriterDies`. The module abstracts:
the three payment queries of the application statistics are one read of the
table; a read model with parameters (dates, period) is one key; several `SCAN`
batches are one delete, since a value stored behind the cursor is one whose read
was overtaken by the delete.

### MobileStore, StoreRegisters

The mobile data of a user is the part `mobile` of `User.securityPreferences`.
Every handler reads the user, computes the whole new value and writes it whole:
`Begin` is the read with the computation (which has no await), `Save` the
`prisma.user.update`, `Fail` an update that throws or a process that dies. The
named actions (`UpdateMe`, `CreateVehicle`, `DeletePaymentMethod`, ...) are one
per handler; `VerifyEmail` is AuthService's, `UpdateSecurity` AccountService's,
which replaces the value without a read. An item is its id and what handlers
look at; reviews, uploads and detections are ids only. A handler that answers
404 or 400 writes nothing and is no step.

`StoreRegisters` says what a user of the API takes the store for: settings,
lists, one default payment method, one thread per shop, each stored apart.
`Open` and `Close` begin and end a request, a step of a request that is not
overtaken changes one part, `Clobber` is what a request that was overtaken
may do: anything that is well formed. `MobileStore` keeps for each request
whether it was overtaken (`view`), and `Registers` is the refinement mapping:
parts are read off the JSON value, `default` from the flags of the methods,
`thread` from the threads. `ActsAsRegisters` is the implementation.

### Notifications, Bookings

`devices[t]` is the row of a token, `inbox` the messages, `outbox` the rows of
pushes, `notices[r]` where the notice of request `r` is: `lookup` (recipients),
`next` (`Deliver`: inbox message), `devices` (`FindDevices` with `outbox.create`,
which follows it without anything in between that others can see), `push`
(`Authorize` or `SkipPush`), `send` (`SendOne` for each token, then
`DisableInvalid`, `Report`), `catch` (`CatchPush`). The push service answers
`accepted`, `lost` (delivered, answer lost), `refused` or `error`; `safeNotify`
is `GiveUp`, which also is the death of the process. A muted notification is
`Mute`. `excuse`, `registrant` and the flags `reached`, `unsure`, `cut`,
`moved` are history.

`Bookings` has one action for the lookups of a handler and one for each write:
`FindForUpdate`/`ApplyUpdate` (update, setStatus), `FindForRemove`/`ApplyRemove`,
`Create`/`InsertBooking`, `BatchStatus` (one `updateMany`), and of the mobile app
`FindCustomer`, `CreateCustomer`, `FindCar`, `CreateCar`, `InsertBooking`
(createBooking), `FindForCancel`/`ApplyCancel`. A notice takes over the slot of
its request and looks its recipients up after the change, as the code does. One
thing is merged: customers and cars are never deleted and never change their
business, so a lookup that only checks *that one is there* is one step with the
await behind it. That none is there is no such fact, so the lookups of
`findOrCreateCustomer` and `findOrCreateCar` are steps apart from the inserts.
`raced` and `twinned` are the histories of lookups that overlapped: the client,
or the customer with the vehicle, for whom another request was about to insert
as well. `made` is the status a booking was made with and `knows` what its client
was last told: nothing (`Unheard`) of a booking that the shop made, since `create`
tells the owners only. A business has one owner, who goes by its name; a client
is its e-mail, which does not change here. Prices, dates and services of a
booking are left out.

### Jobs

`exports`, `accounts` and `notified` are the rows that wait for work. A request
writes its row and is at `enqueue`; `TryAddBullJob` puts the job into the queue
and returns, or throws before or after that (`queue.close()` is awaited in the
same `try`); `QueuesAreOff` is `REDIS_QUEUES_ENABLED` unset; `Fallback` does the
work in the request. `Take`, `ProcessorThrows`, `WorkerDies` are BullMQ's
(external): attempts with backoff, one recovery of a stalled job, a job that is
complete is removed. **As deployed no module registers the processors**: then
`Workers` is empty, and `WaitHasCause` says why each row waits; with a worker
`WorkIsDone` says that it waits not for ever. `remove` and `submit` of billing
accounts are a lookup and a write by id. Nothing in the program sets an account
`rejected`; `enqueueBookingStatusNotifications` has no caller; a download
computes its content anew and never looks at `expiresAt`. All three are left out.

### SignUp, Onboarding

`users` and `businesses` are the tables, ids their row numbers, e-mails unique
as the database demands. `signUpBusiness` (auth.service.ts) is
`SignUpBusiness` and `FindOwner` (its lookups), then `CreateBusinessAndOwner`, or
the resumption: `FindBusinessAgain`, `FindOwnerAgain`, and at `decide` one of
`CreateOwner`, `Refuse`, `CreateBusinessOnly`, `Link`, `KeepBusiness`. What was
read stays in the slot and is what is decided by. A session is `Grant`: the
claims are those of the row that the last read or write returned, and the token
stays in `tokens` for good (its expiry only takes behaviour away). `promoted` and
`moved` are the two histories that make a claim stale: `Link` made a client a user
of a business, which a sign-up that overlaps nothing does as well, or took a user
from one business to another, which needs an overlap (`contested`).
`stranded` are businesses without a user for a cause. One cause needs no
overlap: `KeepBusiness` of an owner who has a business and signs up another.

A step of the onboarding saves its part with the claims of *some* token
(`BusinessToken`: the guards look at nothing else), then `Progress` reads the
business again and `MarkBusiness`, `MarkUsers` follow. Of a business only what
`computeProgress` and the setup warnings look at is kept. `hours` may come as
empty strings, so a step can take its own part back. `computeProgress` looks at
ten users of the business, in no order: `Looks(b)` are the sets of users it may
see, with `Take` for the ten, and `MissingRequirements` is what seems missing from
those. So a business can be all done (`AllDone`) and yet not be found so, when two-factor
is on for somebody who is not looked at; in `SureDone` it is found whoever is. `UpdateMfa`, `UpdateProfile`,
`ReplaceServices`, `CreateService`, `DeleteService` change the same facts from
the settings pages.

## What the runs check

| Run | Instance | Shows |
|---|---|---|
| `stock` | 1 item, 2 payments, 2 concurrent inventory requests, quantities and levels 1 and 2, prices of 0.4 and 2 cents, 1 refund slot | `SalesArePaid`: three tables of a sale agree, amounts up to rounding. `StockBalanced`: stock = last level written - sales since. `OversellBounded`: no further below zero than one largest sale for each *other* request in flight |
| `refunds` | 2 payments of 2 tenants' requests, 2 refund slots, 2 refund rows, amounts below, at and above the payment, sub-cent ones, batches naming a payment twice | `TypeOK`; `EachRefundWithinPayment`; `StatusHasCause`; `UnmarkedRefundIsInterrupted`; `TenantsSeparate` |
| `sessions` | 4 tokens, 2 users, 2 concurrent refreshes | `TypeOK`; `ExchangedTokensRevoked`; `ReplaysBounded`; `RevokedHasCause`; `RevokedForGood` (action property) |
| `read_cache` | payment summary, 2 readers, 1 writer, 2 writes (a sale, a booking) | `TypeOK`; `StaleHasCause`; `EventuallyFresh` (liveness) |
| `mobile_store` | 2 concurrent requests of one user, 4 in all, 2 ids, 1 shop | `TypeOK`; `OneDefaultOneThread`; `LossNeedsOverlap`, `ReturnNeedsOverlap`: saved data is lost, deleted data back, only by overlapping requests or the settings page; `ActsAsRegisters`: refinement of `StoreRegisters` |
| `notices` | 2 businesses, 1 client, 1 token, 2 vehicles of which one has a plate, 2 bookings, 3 customers and cars of which one each is there, 2 concurrent requests, 2 in all | `TypeOK`; `OutboxTruthful`; `DisabledHasCause`; `PushReachesItsUser`; `BookingWithinBusiness`; `MessagesTrue`; `StatusKnown`; `DuplicatesNeedOverlap`: two customers of one client, two cars of one vehicle only by two lookups before an insert, or by the shop's own entry; `PendingResolved` (liveness) |
| `jobs` | 1 export, 1 account, 1 ticket, 2 concurrent requests, 3 in all, 1 worker, queues on in one process and off in another | `TypeOK`; `WaitHasCause`; `DraftsDeleted`; `DoneOnce` (action property); `WorkIsDone` (liveness) |
| `accounts` | 2 e-mails of users, 2 of businesses, 2 passwords, 2 concurrent requests, 3 in all, `Take` 1, from 12 initial states | `TypeOK`; `ClaimsHold`; `OwnerlessHasCause`; `CompletionAgrees`; `LastStepSubmits` |
| `oversell` | as `stock` | **violated**: `StockNeverNegative`. Two sales both pass the check |
| `over_refund` | as `refunds` | **violated**: `RefundsWithinPayment`. Refunds are checked against the payment, not against what is left of it |
| `rotation` | as `sessions` | **violated**: `RotationSingleUse`. Two refreshes in flight exchange one token twice |
| `cache_coverage` | application statistics, bookings, sales and refunds | **violated**: `WritesDropTheirModels`. A booking drops only the dashboard and the setup warnings |

Bounds. Every hazard here needs two requests that overlap, so two slots show
them; the proofs remove the bound for what they prove.
In `mobile_store`, `notices`, `jobs` and `accounts` the requests are bounded in
number too (`MaxCalls`), as the rows they make stay; two that overlap, in
`mobile_store`, `jobs` and `accounts` with one before or after them, are what
each hazard takes. Two ids make a list with an
item to lose and an item that overtakes it. `accounts` starts from states that
earlier requests may have left (`MCBefore`: nobody yet, or an owner whose
business lacks one or two parts, or none), so that three requests suffice for
two steps that race to be the last. `Take` is 1 there and not 10, so that the two
users of a business are one more than the progress looks at. In `notices` the first
customer and car are there and two more of each can be made, so that two
overlapping bookings of the client make their duplicates. `MaxServices` is 1, as only "none" and
"some" are told apart; the attempts of jobs are 2, not 3 and 5: once more and no
more. One worker is enough for a job that runs besides the fallback of its own
request.
Two payments are needed for a refund to concern the wrong one, and two refund
rows for a payment to be refunded twice. Four tokens allow a chain of
two rotations next to a replay. One writer with two writes gives a read that
spans two deletes, one that is dropped by a write and one that is not. Requests
are unbounded in number in the other instances: slots are reused. The number of
payments and refund rows (`PaymentIds`, `RefundIds`), of tokens (`TokenIds`) and
of writes (`MaxWrites`) is bounded, and runs out; that of `mobile_store` never stops, since the settings page may
always be saved. `notices`, `jobs` and `accounts` come to rest when their
requests are used up and say `CHECK_DEADLOCK FALSE`; deadlock is checked in
the others.

Symmetry is used where model values are interchangeable and no liveness is
checked; `b1` and `b2` are not, since `b1` owns the item.

Fairness is stated where liveness is checked. In `ReadCache`, a read or a write
whose await is done is resumed by the event loop (`WF` on the steps of a request that is not dead), and
Redis honours the `EX` that every `SET` carries (`WF` on `Expire`). Nothing else
makes an entry fresh: without `Expire` the property fails (its mutant), because
deletes can be lost, overtaken or absent. In `Bookings` the same event loop resumes a request that
has sent a notice (`WF` on its steps, not on the ones that end it early):
`PendingResolved` needs no more, because each notice is a finite loop over the
recipients it looked up. In `Jobs`, besides, BullMQ hands a waiting job to a
worker that is free, and a worker finishes or throws (`WF` on its steps; a death
is never required). The other specifications state no fairness: their
properties are safety.

## What is proved

For every number of businesses, items, payments, refunds, requests and amounts
(`SalesProofs`), from the assumptions named in `PaymentTable`, `Inventory` and
`Payments` - tables are not empty, quantities are positive, levels are natural
numbers, prices and amounts are integers of any sign; for the bound on
overselling also that requests in flight are finitely many and that sales have a
largest quantity (it has to fit an integer column):

* `SalesInvHolds`: the inductive invariant `SalesInv`. The safety properties are
  not inductive alone: they need what requests in flight hold (`SalesInFlight`,
  `RefundsInFlight`: the payment that was found still exists, with the same
  tenant and amount, and the refund row of a request about to mark is there) and
  that amounts in the table are whole cents (`AmountsStored`). One lemma per
  action; `QuietStep` and `RefundReadInv` carry what a step leaves alone.
* From it `TypeCorrect`, `SalesAlwaysPaid`, `RefundsEachWithinPayment`,
  `StatusAlwaysHasCause`, `UnmarkedOnlyIfInterrupted`, `TenantsStaySeparate`.
* `SerialSalesNeverOversell`: with at most one inventory request in flight the
  stock never falls below zero. So the `oversell` run is about concurrency and
  nothing else, and a lock per item, or `quantity: { gte }` in the update, would
  do. Its invariant is `SerialInv`: what was checked is still there.
* `OversellIsBounded`: with any number of them it falls no lower than minus one
  largest sale for each other slot. The bound is not inductive: nothing in it says
  that the sales still to come fit. `OversellInv` does: for each item the pending
  sales (checked, not recorded), counted at the largest quantity each, either all
  fit above the bound, or all but one fit and that one is covered by the stock it
  saw. A check makes its own sale the covered one; a recorded sale takes away no
  more than it was counted for; a level written outright is not negative.
* `StockAlwaysBalanced`: no sale is lost from the stock or counted twice.
  `StockInv` adds that a sale an item counts has its transaction row, so that the
  row a sale inserts, under a payment id nobody has, is counted once and for its
  own item only. The sum over the rows is a fold; the lemmas from `LeastNumber`
  to `SoldAdds` show that it is what it looks like (the recursive function
  exists, and the order in which elements are taken does not matter). They do
  induction without the induction theorems, which the provers cannot instantiate:
  a smallest set for which the claim failed would have a smaller one.
* `StoredInt`, `StoredBounds`, `SaleRounding`: rounding is idempotent, within
  half a cent, and keeps a refund within its payment; a sale of `q` units differs
  from its transaction row by at most half a cent times `q + 1`.

For every number of users, tokens and refreshes (`SessionsProofs`), where the
slots are a finite set:

* `SessionsInvHolds`: `SessionsInv` adds to the properties what a refresh in
  flight knows of its token (`CallsConsistent`) and that a slot exchanges a token
  at most once (`OneExchangePerSlot`), which is the reason the replay is bounded:
  a slot that exchanged a token left it revoked, and will not find it again.
* `TypeCorrect`, `ExchangedAlwaysRevoked`, `RevokedAlwaysHasCause`,
  `ReplaysAlwaysBounded` (an injection from children to slots),
  `RevokedStaysRevoked` (the action property), and `SerialRotationSingleUse`:
  one refresh at a time never exchanges a token twice.

For every set of read models, every number of readers, writers and writes
(`ReadCacheProofs`):

* `CacheInvHolds`: `CacheInv` adds `ReadsHaveCause`, the same claim of a read in
  flight as of an entry: what a read has queried becomes the entry when it
  finishes, so its reasons must be kept from the first query on. `WriteCovers`
  is the lemma about the program's lists: a kind of write that is not in
  `Uncovered` deletes each read model whose tables it changes.
* `TypeCorrect` and `StaleAlwaysHasCause`.

For every number of requests, workers, rows and attempts (`JobsProofs`):

* `JobsInvHolds`: `JobsInv` adds to the properties that a job and a request are
  told apart by their number (`JobsNamed`), that who is about to remove or submit
  an account found a draft (`LookupsHold`), and that the work of an export or a
  ticket is asked for by one request with one job (`WorkOnce`): without these a
  row could be waiting for a job that is another's.
* `TypeCorrect`, `WaitAlwaysHasCause`, `DraftsAlwaysDeleted`, `WorkDoneOnce` (the
  action property), and `SerialDeletesDrafts`: with one request at a time no
  account is deleted but as a draft, so the lost account is about overlap alone.

For every number of requests, items, shops and values (`MobileStoreProofs`):

* `StoreInvHolds`: one lemma per handler (`VehicleCreated`,
  `PaymentMethodDeleted`, ...) shows that it makes a well-formed value of a
  well-formed one and which ids it adds and removes (`Edit`); an id is in one
  place only (`Distinct`), or deleting one item might leave its id in another.
  `Promise` is what a request in flight relies on whatever is written meanwhile,
  and what becomes true of the store when it saves; `StoreInv` puts it together.
* `TypeCorrect`, `AlwaysOneDefaultOneThread`, `LossAlwaysNeedsOverlap`,
  `ReturnAlwaysNeedsOverlap`.
* `StoreActsAsRegisters`: `MobileStore` implements `StoreRegisters` under the
  mapping `Registers`. Beyond `StoreInv` this needs `CurrentInv`: a request that
  nothing overtook will write what its handler computes from the store *as it
  still is* (`Computed`), though it read the store long before. One lemma per
  handler (`CreatedVehicle`, `SetSetting`, `SaidInThread`, ...) shows which part
  that changes and that the others are left alone under the mapping;
  `SaveActsOnePart` puts them together, `OvertakenSaveClobbers` and
  `UpdateSecurityResets` are the two writes that need no such request.

For every number of businesses, clients, devices, bookings and requests
(`BookingsProofs`, on the lemmas of `NotificationsProofs`), from
`BookingsAssumption`, which tells ids, statuses and markers apart:

* `BookingsInvariant`: `BookingsInv` puts together what a request and the notice
  in its slot may be (`Apart`: a slot is one or the other), what is true of rows
  (`RowInv`: the tenant of a booking is that of its customer and car, also in
  what a request is about to write), of a notice under way (`NoticeInv`: where it
  stands agrees with its row of the outbox, which no other notice writes), of
  messages (`MessageInv`: the news a notice is still to deliver was
  true of its booking, by the history `past`), of what a client knows
  (`StatusInv`: the booking's status, or a notice that owes it is under way and
  no other says anything else; who heard nothing has a booking as the shop made
  it), and of customers and cars (`CustomerInv`, `CarInv`: who is about to
  create one found none, or has overlapped another who was). Each part is kept
  by every action; those of a notice disturb no row, those of a request no
  device, which is what the lemmas of `NotificationsProofs` are for.
* From it `BookingsTypeCorrect`, `OutboxIsTruthful`, `DisabledForCause`,
  `PushesReachTheirUser`, `BookingsWithinBusiness`, `MessagesAreTrue`,
  `StatusIsKnown`, `OneCustomerForEachClient` and
  `OneCarForEachVehicle`, which `DuplicatesAlwaysNeedOverlap` puts together.

For every number of users, businesses, passwords and requests
(`OnboardingProofs`), from `SignUpAssumption` and `OnboardingAssumption`: the
tables start as earlier requests leave them when none was overtaken or cut short
and every part was saved by a step and kept. That is more than the invariant
says of later states, which have the history variables to excuse them; empty
tables satisfy it, and so do the instances of the run:

* `OnboardingInvariant`, in two halves. `AccountInv` is about who is who: owners
  are linked to businesses that exist, e-mails are unique (`Tables`), what a
  sign-up in flight has read of a user still holds unless another has linked the
  user since (`ReadSound`), a token says of its user what the row says or said
  before the user was promoted or moved (`TokenSound`), a business without an
  owner has a cause. `CompletionInv` is
  about who is done: what a step has checked before it marks is so still or was
  taken back (`MarkSound`, `CompleteSound`), the users follow their business or a
  step is about to make them (`UsersFollow`), and a business whose parts are all
  seen whoever is looked at is marked or a step is on its way to
  (`LastStepSubmits`). What the ten users show is less than there is, never more
  (`SeenMissing`): a step may miss a part, it marks none complete that is not. Each
  action is shown to fall under a few descriptions of what a step may do: edit
  rows in place (`InPlace`), keep or make complete (`CompletionKept`), leave a
  request at a place it may be at (`SlotMoves`) and note what got done outside a
  step or was taken back (`DoneNoted`); `CompletionMoves` derives the invariant from
  these alone.
* From it `OnboardingTypeCorrect`, `ClaimsAreTrue`, `OwnerlessForCause`,
  `CompletionIsTrue`, `SomeStepSubmits`.

Every safety invariant, every action property and the refinement that the passing
runs check are theorems. Only model-checked are the three liveness properties
`EventuallyFresh`, `PendingResolved` and `WorkIsDone`, since the prover does not
reach fairness, and the four counterexamples, which need no proof.

## Disagreements met

1. `sell` checks the stock outside its transaction; the API declares
   `InventoryItem.quantity` with `minimum: 0` (`oversell`).
2. `refund` rejects an amount above the payment as invalid, but not the sum of
   several (`over_refund`). Two equal full refunds both succeed.
3. `refresh` is described as a rotation; two concurrent refreshes of one token
   both return a live successor (`rotation`).
4. The cache contract in the API lists `bookings.write` for the application
   statistics; a booking does not drop them (`cache_coverage`). Customers, cars,
   mobile bookings and sign-ups drop nothing either: `Uncovered` lists the pairs.

## Hazards without a property

Three, with the reason in `PROJECT.json`: saving bank details again makes a
second billing account (nothing in the program or its documents says there may
be one only); any status of a booking may follow any other (neither the code nor
`docs/notifications.md` says which may); dates are parsed as UTC
and printed in local time (a conversion that depends on the process's time zone alone).

## Plan

1. An abstract till in which a sale is one step on stock and ledger together,
   refined by `Sales` with the requests in flight hidden; `StockInv` is what the
   mapping needs.
2. Likewise for the refresh tokens: sessions as chains in which a replay is a
   branch, refined by `Sessions`.
3. The steps of the liveness arguments that are safety: what a notice or a job
   still has to do never grows while it waits.

## Not modelled

- Reads without side effects (lists, shops, quotes, catalogue, locations, system
  health, downloads), serialisation, validation messages, logging: no state.
- Password hashing, signing of JWTs and of Firebase assertions, Firebase's own
  protocol, BullMQ's and Redis's inner workings: external; what the program can
  see of them is modelled.
- Date and pagination helpers: pure conversions of a few lines.
- `createFeedback`, dashboard widgets, notification preferences, `updateService`
  and the update of a billing account's bank data: single statements whose values
  nothing modelled reads. Their effect on the read models is in `ReadCache`.
- The role `admin`: no handler assigns it, so no user has it unless the database
  is edited by hand; a sign-up would promote an admin as it does a client.
- A read with `include` is several queries of the client library, with other
  requests between them; here it is one step. What is read together so are rows
  and those linked to them (a booking with its customer and car, a business with
  its users).
- The change of a client's e-mail while a notice is looked up: in `Bookings` a
  client is its e-mail.
- Live AI endpoints: they answer constants or 503.
- Seed data and migrations. Global cache keys (catalogues, geo, help centre) hold
  constants of the program and are never invalidated.
