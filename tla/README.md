# Verification of oyana-backend

`oyana-backend` is the NestJS/GraphQL backend of a freight platform: customers
post shipments, providers (drivers) carry them, and a wallet holds the money. It
runs as API and worker processes over one Postgres database (Prisma) and a Redis
queue (BullMQ), and it calls Paystack for payments and Prembly for identity checks.

This directory holds TLA+ models of its core logic, TLC configurations that check
them on small instances, and proofs that TLAPS checks for every value of the
constants. Paths below are relative to the backend's repository.

Two facts about the runtime shape every model:

* Node runs the code between two `await`s without interruption, and everything that
  is awaited (a query, an HTTP call) interleaves with every other request, with the
  worker processes and with Paystack. A step of a model is therefore a statement, or
  a transaction's reads, or its writes and commit.
* Postgres runs at its default, READ COMMITTED. A plain `SELECT` in a transaction
  locks nothing: what it saw can be stale at the next statement. What does protect
  the code: unique indexes (ledger references, idempotency keys, one batch, one offer
  per provider and one assignment per shipment), relative updates
  (`balanceMinor: { decrement }`), conditional updates (`updateMany ... where
  status`), and one explicit `SELECT ... FOR UPDATE` in the dispatch acceptances.

## Inventory

| Component | State | Operations | Hard behaviour | What makes it correct |
|---|---|---|---|---|
| Wallet, withdrawals (`src/wallet/wallet.service.ts:427-742`, `1107-1177`) | `wallet_accounts.balance`, `wallet_transactions`, `wallet_withdrawals` | `createWalletWithdrawal`, webhooks `transfer.*`, refund transaction | debit, HTTP call and update are three separate steps; timeouts after acceptance; late and repeated webhooks; three callers of one refund | debit before payout; at most one refund and only of a debit, with a reason; status backed by ledger and Paystack; refused transfers refunded in the end |
| Wallet, funding (`159-425`, `744-914`) | the same ledger, `payment_intents` | `createWalletFunding` (saved card, checkout), `confirmWalletFunding`, webhook `charge.success` | three paths credit one payment; confirm writes FAILED from a stale answer; a webhook before the row exists; an answer without an amount | a credit is what was collected, once, unless the answer did not tell; an acknowledged payment is credited; a paid checkout is credited in the end |
| Wallet, idempotency (`1308-1435`) | `wallet_idempotency_keys` | `withIdempotency` around the two mutations | racing calls, failure after effect, crash in the action | one effect per key; answers belong to the request |
| Dispatch (`src/dispatch/dispatch.service.ts`) | shipment, batch, offers, assignment | broadcast job, accept, counter, decline, owner's accept and decline, driver progress, administrators' edits | stale reads everywhere except under the row lock; jobs that collide; offers sent after the shipment is taken; prices edited meanwhile | one winner; the agreed price is the shipment's, but for an edit; a status backed by the assignment; delivered work settled |
| Dispatch queue (`src/workers`, `src/queue`, `dispatch.service.ts:398-421`) | BullMQ jobs | job per new shipment, periodic reconcile | swallowed enqueue errors, three attempts, a batch size; updates that put a shipment back | a due shipment is broadcast in the end, once, and not before its time |
| Shipments (`src/shipments/shipments.service.ts`) | shipments, items, milestones, addresses | create, update, cancel, progress of marketplace shipments, pricing | cancel against jobs and drivers; free-form status edits | progress is backed by an assignment |
| Marketplace (`src/market-place/market-place.service.ts`) | bids, award, assignment | bid, edit, withdraw, award, progress | award against withdraw, edit and cancel; two awards | one award, at the amount of the accepted bid |
| Auth (`src/auth/auth.service.ts`, `guards/gql-auth.guard.ts`) | OTP codes, sessions, passwords | request and verify codes, sign-in by password, phone, Google, refresh and silent rotation, reset, logout | two uses of one code or token; a logout or reset during a rotation | a sign-in has one session and stays ended; a spent code or old password signs nobody in |
| User (`src/user/user.service.ts`) | profile, driver profile, provider, onboarding submission | onboarding draft, submit, review, mode, presence | review against resubmission and against another review; presence written after the approval it saw is gone | a grant is backed by an approval and one provider; an available driver is online; a waiting driver has a waiting submission |
| KYC (`src/kyc/kyc.service.ts`) | checks, KYC profile, retained payloads, uploads | start check, vendor answer, webhook, poll, status, cleanup | answers late, twice, under other names; an aggregate recomputed from an old read; denials the code cannot read | verified means what Prembly verified, at one moment, but for two misreadings; a status looked at becomes that of the checks; payloads are purged |
| Ops, back office (`src/ops`) | disputes and their events, tickets, invoices, fraud flags | open, comment, decide, set a status | two administrators on one file, each with the time it took before its lock; times written back from a read | case and newest decision agree unless two raced; times survive |
| Ops, dashboard (`ops/admin-ops.service.ts:158-398`, `991-1360`) | none: reads shipments | `adminDashboard` | ranges, buckets and time, each with conditions of its own | the figures of a report agree |
| Shipments, lists (`shipments.service.ts:190-842`, `1483-1640`) | none: reads shipments, offers, bids | lists for three roles, one shipment, two dashboards | time moves a shipment between lists; filters merged by key | every shipment is found once |
| Notifications (`src/notifications/notifications.service.ts`, `user.service.ts:1090-1164`) | inbox, devices, settings | store and push, settings, devices | failures swallowed; devices looked up before the push | people are told what was committed; who opts out is left alone |
| Address, storage, GraphQL, config | rows, files | CRUD and wrappers | none that decides anything above | - |

How they interact: the wallet mutations are wrapped by `withIdempotency`; the
Paystack webhook endpoint dispatches on the event to the funding or the withdrawal
side, and both move one balance. `createShipment` enqueues a dispatch job; the worker
and the reconcile job run `dispatchShipmentIfEligible`; providers and customers answer
through GraphQL; drivers and customers change the same shipment row; notifications
and subscriptions follow after commit. An approved driver may be asked for KYC, whose
checks Prembly answers at once, by webhook or when polled; a worker purges their payloads.
The guard rotates sessions for every resolver. Lists and dashboards only read.

## Modules

| Module | Models |
|---|---|
| `Account` | what the next two share: the wallet's balance, the executions of webhooks and confirms |
| `Withdrawal` | one process per withdrawal request, Paystack's transfer, webhook executions, the refund transaction |
| `Funding` | card and checkout funding, confirm, the charge webhook, the credit transaction |
| `Wallet` | `Withdrawal` and `Funding` together, on one balance |
| `WalletLedger` | abstract: an append-only ledger and its balance |
| `Idempotency` | `withIdempotency`, one statement a step |
| `OnceOnly` | abstract: one effect per key, answers of that effect |
| `Dispatch` | one shipment: jobs, offers, acceptances, counters, progress, cancellation |
| `Matching` | abstract: one winner at an agreed price |
| `Reconcile` | several due shipments, the queue's jobs, the periodic sweep |
| `Marketplace` | one marketplace shipment: bids, edits, withdrawals, awards, progress, cancellation |
| `Auction` | abstract: one winner, at an amount it asked |
| `Onboarding` | one driver: edits, submissions, reviews, presence, app mode |
| `Kyc` | one provider's checks, Prembly, the aggregate profile, the cleanup job |
| `Sessions` | one person's codes, passwords and sessions |
| `SignedIn` | abstract: sign-ins with good credentials, renewed as one, ended by a reset |
| `Inbox` | storing and pushing notifications, with settings and devices |
| `Desk` | disputes, tickets, invoices and fraud flags, extending `Inbox` |
| `Views` | the table of shipments over time; lists and dashboards of customers and providers |
| `Dashboard` | the administrators' dashboard, extending `Views` |
| `WalletProofs` | theorems about `Withdrawal`, `Funding`, `Wallet` and `Idempotency` |
| `DispatchProofs` | theorems about `Dispatch` and `Reconcile` |
| `MarketplaceProofs`, `OnboardingProofs`, `KycProofs`, `SessionsProofs` | theorems about the module of that name |
| `OpsProofs` | theorems about `Desk`, `Views` and `Dashboard` |
| `LibraryProofs` | what the community modules' operators are that the models use: least elements, sums, sequences |
| `MC*` | instances for TLC |

In the modules, a definition whose comment says *Bug* is a mistake the code could
have, not part of a specification: each property fails under one of them.

### Withdrawal

`wpc[w]` is where the handler of request `w` stands. `ReadBalance` is everything up
to the balance check (`wallet.service.ts:427-523`), `Debit` the writes of the first
transaction, `SendTransfer` ... `ReceiveAnswer`/`Timeout` the Paystack call,
`SaveOutcome` the last update, `RequestReverse` and `RequestCommit` the calls of
`markWithdrawalFailedAndReverse` from the `try` and from the `catch` block, in that
order: the call in the `try` block is followed by a throw, so the catch block runs it
again. `HookSucceeded` is the conditional UPDATE of `transfer.success`, `HookFailed`
and `HookCommit` the refund by a webhook. A refund transaction is two steps because
its check for an earlier refund takes no lock: `reversing` holds the open ones with
what they read; a commit that would insert a reference twice aborts, as the unique
index makes it. `Accept`, `Reject`, `Settle` are Paystack (external, from how
`paystack.service.ts` and the webhook use it): `transferEvents` is never emptied, so
a webhook may come late, repeatedly and in any order.

### Funding

`SendCharge` precedes `CreateIntent` for a saved card, as in the code; a checkout's
row is created before the answer with the checkout URL, so `PayCheckout` waits for
`fpc = "ok"`. `finalizing` holds open calls of `finalizeFundingIntent` and of
confirm's failure branch. `DropUnknown` is the webhook that answers 200 for a
reference no row has. `Collectable` makes amounts right or wrong; a wrong currency
behaves like a wrong amount. An answer about a success shows the amount collected
(`"priced"`) or none that `extractPaystackAmount` can read (`"silent"`), and only an amount
that is there is compared (`wallet.service.ts:815`). `CreditIsCollected` therefore says that
a credit which is not what was collected shows in the row: `rawWebhook`, the answer the row
keeps, has no amount, or a later failure has overwritten it. `Answers` is assumed to be
right when it does show an amount; a fraction of the smallest unit, which the code
truncates, does not occur.

### Wallet and WalletLedger

`Withdrawal` and `Funding` extend `Account`, which declares `balance`, and `Wallet` extends
both; a step belongs to one side, and leaves all but the balance of the other alone. The
refinement maps the ledger's `entries` to the three sets of
posted references. The two sides share handlers by name only: every execution of the
webhook endpoint serves one event. The properties of the withdrawal side are checked on
the composition, with a card charge moving the balance beside it.

### Idempotency and OnceOnly

`Lookup`, `Create` (with its unique-constraint branch), `Reread`, the action with its
three outcomes, `SaveCompleted`, `SaveFailed`, and `Crash` anywhere. Key and payload
of a call are constants: the hash is a function of the payload.

### Dispatch and Matching

The acceptances (`acceptDispatchOffer`, `acceptShipmentDispatchOffer`) lock the
shipment's row before reading; the job's inserts hold that row's KEY SHARE lock
through their foreign keys, so neither can fall between the reads and the writes of an
acceptance: each is one step. Every other mutation is two steps or three, with
`doing[r]` between them. The job is `JobReads` (the checks on the shipment),
`JobBatch` (`getOrOpenDispatchBatch`) and `JobCommits`. Which providers are eligible
(distance, route, presence, vehicle) is any non-empty set. The commit of a job that
lost the race to create the batch changes nothing. `Abandon` stands for a refusal of
a later check or a crash before the write. `EditReads` and `EditWrites` are `updateShipment`
with a price: the customer may set it to any of `EditedPrices` at any status that is not
final, and leaves the price in the assignment alone (`shipments.service.ts:948-1038`).
`edited` is history: such an edit has come after the last acceptance that made or changed a
contract. `PriceIsAgreed` speaks of the time before: nothing but the edit parts the two
prices. In `Matching` the edit is `Reprice`, of the shipment and of no contract.

### Reconcile

`Dispatch` follows one shipment and lets a job run at any time; `Reconcile` says when
jobs run. `Create` is `createShipment` with the enqueue, whose exception is swallowed
(`shipments.service.ts:1309-1340`); `tries` are the attempts BullMQ has left for the
job. A broadcast, by job or by sweep, is three steps: it reads and chooses
(`QueuedReads`, `SweepReads`); its update of the shipment takes the row, for which it waits,
and it looks for a BROADCASTED event (`QueuedLocks`, `SweepLocks`, `Looked`); it inserts one
if there was none and commits (`QueuedCommits`, `SweepCommits`). From the second to the third
it holds the row (`RowIsFree`), and nobody else writes it: that is all that keeps the event
single, and without it (`NoRowLock`) `BroadcastOnce` fails. What the transaction writes is
seen at its commit. `UpdateReads` and `UpdateWrites` are `updateShipment`: it moves
`scheduledAt`, sets any status, puts a shipment back to CREATED too, and inserts a
BROADCASTED event of its own, unconditionally, when it sets BROADCASTING and had read
another status (`shipments.service.ts:1040-1056`). `sent` counts the worker's events and
`told` says whether there are updates' ones; a worker never adds to either, which is
`BroadcastOnce`, while an update may add to both. It leaves the delayed job, which may then
run early. A shipment with an assignment, and so a batch that is ASSIGNED, is `"taken"`:
both the choice and `getOrOpenDispatchBatch` turn it away, whatever its status is put back
to, so `SetTo` leaves it there; a broadcast that finds it so after its choice stops
(`QueuedStops`, `SweepStops`), one that had passed this check does not notice. Updates that
begin on a taken shipment are left out.
`SweepStarts` is the query of `dispatchDueShipments`: the oldest due
shipments, at most `batchSize`, and without a look at the drivers; the loop then
broadcasts one after the other, and an exception ends it (`SweepFails`). `batchSize` is a
setting chosen at the start. A worker takes one
job at a time, so a shipment's job runs beside a sweep in another worker process; two
sweeps, which start minutes apart, are not modelled side by side. `wasDue` is history. The order
of (`scheduledAt`, `createdAt`) is the constant `Rank`, which a reschedule keeps.

### Marketplace and Auction

A bid, an edit, a withdrawal, an award and the driver's progress are each a step that
reads (`BidStarts`, ...) and one that writes, with `doing[r]` between them, because the
transactions lock nothing; the unique indexes on the award, on the assignment and on
a provider's bid for a shipment decide who fails. A bid's open shipment is CREATED:
nothing gives a marketplace shipment the status BROADCASTING. An award does not look
at the shipment's status, so a cancelled one becomes ASSIGNED, as in the code. `asked`
is history: the amounts each provider ever bid, which `Auction` speaks about.

### Onboarding

An edit, a submission, a presence update and a switch of mode are two steps each: what
they read, what they write. A review is four: it reads the profile, it looks for a
provider of the account (only to approve), it takes the account's row lock by setting
the app mode and reads the latest submission, and it writes and commits. `Judging` is
that lock; the unique `providers.profile_id` makes an approval fail that would insert a
second provider. Submissions are kept in the order of their commits, with `began` for
the order of their dates, so that `Latest` is the newest by date and not by commit.
An edit that read APPROVED leaves the status and the grants alone; a rejection writes
back the provider link it read and leaves the provider's availability as it is. Details
and documents are one flag, `ready`, beside the vehicle type that the grants depend on.

### Kyc

A call is one execution of a mutation, a webhook, a poll or `myKycStatus`. `Start` is the
request to Prembly with its answer in hand: Prembly may know the transaction already,
which is how a second check of one transaction, or an answer under another name, comes
about. A transaction is `open` at Prembly while it is under way and when it was turned
down, until it is verified (`Settle`), which never need be. `AnyBody` is every combination
of the fields the code looks at, among them words it does not know. `Bodies` is what
Prembly may say of a transaction, and the one assumption about it: an answer about one it
has not verified denies it in at least one field (`Denies`), and one about a verified
transaction denies it in none, or says VERIFIED. What the code makes of it is
`Normalized`, with its conversions: a face status that is neither true, false nor
'verified' is read as no answer (`FaceStatus`, `kyc.service.ts:672-676`), and a phone's
status other than VERIFIED is not asked for once flag and code are good (`746-748`). Where
nothing else in the answer denies it, the code then takes for verified what Prembly has
denied: that is `Misread`, `misread` (history) are the transactions it has happened to, as
long as Prembly has not verified them after all, and `VerifiedIsVendors` says that there
is no third way. Names are the vendor's reference, its tracking id, or none
(`extractVendorReference`). `FindProfile` and `CreateProfile` are
`ensureProviderKycProfile`, two statements whose loser breaks the unique index; `Lookup`
and `SaveStarted` are `createCheckAndRefreshProfile`, with the attachment of the face
image, a further statement, in the same step. `Hook` finds the newest check of its
reference and carries the state of now or of before; `Poll` fetches the targets one by
one, newest first. Every path ends in `ReadChecks` and `UpsertProfile`, two statements
between which other checks are stored; a call forgets what it no longer uses
(`GoesAfresh`). `Expire` is the passing of a retention period, counted in days, so no
execution is older than it; `Cleanup` is the job's UPDATE. `together` is history: both
latest checks were verified at one moment. One provider: checks of different providers
share no row.

### Sessions and SignedIn

One person, with what an account makes of email and phone (`AccountOf`), an administrator
or not. A call is between two of its statements in `doing`: `TakeCode` finds the newest
usable code, `UseCode` marks it, without a condition, `FindAccount` and `SaveAccount`
read and write the profile, `Issue` inserts the session. The phone sign-in and the reset
mark their code in the transaction that uses it, as the code does. Rotation is
`RotateReads`, `RotateDeletes` (which throws when the row is gone) and `Issue`, for
`refreshToken` and for the guard's silent refresh alike. `root` of a session is the
sign-in it descends from, `by` and `nr` the credential that made it: history. Named
actions (`VerifyOtp`, `UsePassword`, ...) put the statements of one endpoint together.
`SignedIn` has neither rows nor statements: a sign-in is made with a credential that is
good, may be renewed or lost while it is, and ends for good. The refinement takes for a
sign-in the first of its sessions; a rotation is `Renew` when it deletes and `Renewed` when
it inserts; a credential is closed when it is spent and no call has it in hand. What
`resetPassword` promises is the abstract `Reset`: every sign-in to the email's account ends,
but for one that is being renewed at that moment.

### Inbox and Desk

`Desk` has every mutation of the back office. What a mutation has committed goes into
`done` (history) and the mutation goes on to tell the owner, the administrators or both,
as batches of `createManyNotifications`: `Store`, `FindDevices`, `Send`, `Drop`. `Swallow`
is the catch block. A decision of a dispute takes its time (`ResolveStarts`: `now`,
`disputes.service.ts:293`) before its transaction (`ResolveWrites`), whose UPDATE waits for the
row, so whoever took the earlier time may write last; case and event carry that time as
their `stamp`, and events are read back by it (`disputes.service.ts:88`), not in the order of
their insertion. `raced` is history: the files that two decisions were under way on at once.
For these the case says what one of its decisions says, and for all others what the newest
says: `DecisionIsRecorded`. Decisions that do not overlap are assumed to take different times
in their order, as on one server whose clock goes forward (`clock`); other times are not
kept. A ticket's status is a read (`TicketReads`) and a write with the times that the read found. The app registers its
device, hands it on, or is removed; Expo then answers that the token is dead, and the row
is switched off by id.

### Views and Dashboard

A shipment is its status, schedule, two dates and what the viewing provider has to do
with it; the actions are the writers of these columns, and `Tick` moves the time. How the
writers race is the matter of `Dispatch` and `Marketplace`: a race leaves no row here that
single writers do not, because `updateShipment` sets any status at any time. Queries are
state functions: `Matches` is `buildShipmentWhereFilter`, `ConcernsViewer` the filter of
the role, `Listed` the two merged by key as `getShipmentsForViewer` does, `MayOpen` what
`canAccessShipment` says. `Normalized` is the dashboard's filter, and `Report` puts the
readings together as `adminDashboard` does.

## Runs

| Run | Instance | States | Shows |
|---|---|---|---|
| `wallet` | a card charge and a withdrawal, 2 handlers, opening balance 1 | 283,464 | `PayoutIsDebited`, `StatusIsBacked`, `RefundIsJustified`, `ReversedIsFinal`, `BalanceIsPosted`, `ImplementsLedger`; under fairness `FailedTransferIsRefunded`, `DebitIsSettled` |
| `wallet_overdraft` | 2 requests that fit the balance one at a time | | violation of `NoOverdraft` |
| `funding` | a card and a checkout request, 2 handlers, right and wrong amounts, answers with and without one | 62,353 | `CreditIsCollected`, `IntentIsBacked`, `AcknowledgedIsCredited`, and `PaidCheckoutIsCredited` |
| `idempotency` | 4 calls, 2 keys, 2 payloads | 4,596 | own answers, `ImplementsOnceOnly` |
| `dispatch` | 2 providers, 2 mutations and 2 jobs in flight, 2 counter amounts, 1 edited price | 1,322,867 | `OneWinner`, `PriceIsAgreed`, `ProgressIsBacked`, `DeliveredIsSettled`, `ImplementsMatching` |
| `reconcile` | 2 shipments, batches of 1 and of 2, jobs of 2 attempts, 1 update | 702,042 | `BroadcastIsDue`, `BroadcastOnce`; under fairness `DueIsReached` |
| `onboarding` | 2 mutations in flight, 2 submissions | 444,974 | `InReviewIsSubmitted`, `GrantIsBacked`, `AvailableIsOnline` |
| `marketplace` | 2 providers, 2 amounts, 2 mutations in flight | 59,021 | `ProgressIsBacked`, `ImplementsAuction` |
| `kyc` | a NIN and a phone transaction, 2 calls in flight, 2 verifications, 1 webhook or poll | 907,812 | `VerifiedIsVendors`, `VerifiedTogether`; under fairness `LookedAtIsCurrent`, `ExpiredIsPurged` |
| `sessions` | 2 calls in flight, 2 codes of any mode, 2 sessions | 1,234,152 | `OneSessionPerSignIn`, `ImplementsSignedIn` |
| `desk` | an administrator, a user, a device, 2 requests, 1 file, 3 events, 3 decisions, 1 change of settings or device | 1,597,654 | `DecisionIsRecorded`, `ToldIsRecorded`, `TimesAreKept`, `OptOutHolds` |
| `dashboard` | 1 shipment, 7 hours, days of 3 hours, four due times, every filter | 31,688 | `ListsCover`, `LaterIsNotActive`, `WidgetsAgree` |

The type invariants are not among the runs' properties: they are proved, or implied by
what the checked properties read.

Why the bounds are enough: a race needs two actors on one row, so two of each kind of
actor with the third kind beside them show every pairwise order; the theorems extend
the safety results to any number. Two shipments and a batch of one are the smallest case
in which one is out of a sweep's reach; one update puts a shipment that was broadcast back
to CREATED, or tells of a broadcast between a job's choice and its lock. One edited price is the first
counter amount, above the quoted price and below the other amount. Of three decisions two may
race and the third come after. Two verifications are one of each type, which
verified needs, or two of one type, of which the newest counts; with a webhook or poll
between them an old answer overtakes a new one. Two sessions are two sign-ins, or one and
its rotation, with a second rotation in flight. One shipment is enough for the lists and
figures, which are sums over shipments; four due times lie before, on and after the day's
end and the horizon. No run uses a state constraint: the state spaces are finite because
every request, charge and transfer happens once, everything that is created is counted
(`MaxSubmissions`, `MaxStarts`, `MaxReports`, `MaxCodes`, `MaxSessions`, `MaxFiles`,
`MaxEvents`, `MaxNews`, `MaxMoves`, `MaxUpdates`, `MaxDecisions`), time ends at `Horizon`, and the sets of amounts are
finite. Amounts in `wallet` are powers of two, so different sets of rows never have the
same sum. Deadlock checking is off where everything may end. Symmetry is used in safety
runs only.

### Fairness

* `WalletFairSpec`, which is `Withdrawal`'s fairness on the composition: Node
  runs a request on (weak fairness; the HTTP client has a timeout,
  `PAYSTACK_REQUEST_TIMEOUT_MS`), and Paystack repeats a webhook until it is
  answered 200 (strong fairness of the webhook, because the open transaction of
  another execution may keep disabling it). Nothing obliges Paystack to settle a
  transfer, and a crashed request never resumes.
* `FundingFairSpec`: the same for the charge webhook and an open confirm.
* `Kyc`'s `FairSpec`: the cleanup runs again and again
  (`worker-bootstrap.service.ts:68-106`: at startup and every six hours), as long as
  `PREMBLY_RAW_PAYLOAD_CLEANUP_ENABLED` is not false. Prembly,
  webhooks and polls owe nothing: `LookedAtIsCurrent` is conditional on somebody looking.
* `ReconcileFairSpec`: the sweep is started periodically
  (`worker-bootstrap.service.ts:44-66`), and its failures are transient: a shipment
  whose turn comes again and again is not stopped every time (`Served`: broadcast, or found
  to need nothing). A job's transaction that holds a row ends, committed or not
  (`QueuedEnds`). Otherwise queued jobs, customers and drivers owe nothing. Updates are
  finitely many: if older shipments were put back for ever, each broadcast of them might cost
  the sweep its rest. `DueIsReached` promises a broadcast to
  shipments *within reach*: due, with someone who can carry them, and with fewer than
  a batch of older due shipments ahead. That is what the code gives, for the query
  does not look at the drivers: a batch of old shipments nobody can carry keeps all the
  later ones waiting, unless their own job served them.

## Findings

* `NoOverdraft` - the balance is checked without a lock and decremented later, so
  two withdrawals that pass 'Insufficient wallet balance' (`wallet.service.ts:522`)
  together make it negative.

Known besides, from the models:

* A key is marked 'failed' whatever was thrown, also after the action moved money, and the
  client is told to use a new key (`wallet.service.ts:1429`, `1347`).
* A job, or a driver's mutation, that read the shipment before it was cancelled writes
  its status over CANCELLED (`dispatch.service.ts:305`, `581`, `631`), which
  `shipments.service.ts:986` treats as final.
* An answer of Paystack without an amount that can be read credits the intent's own amount
  unchecked (`wallet.service.ts:815`).
* `updateShipment` lets the customer change the price of a shipment that is carried at an
  agreed one, and leaves the assignment's as it was (`shipments.service.ts:1031`).
* `updateShipment` inserts a BROADCASTED event whatever the history holds
  (`shipments.service.ts:1040`), and an assigned shipment it puts back to CREATED is never
  broadcast again, for its assignment stays (`dispatch.service.ts:268`).
* A late progress of the driver writes over COMPLETED (`dispatch.service.ts:581`).
* The code can mark verified what Prembly denied: a face status in a word it does not know
  (`kyc.service.ts:672-676`), and a phone whose verification is not VERIFIED beside a good
  flag and code (`kyc.service.ts:746-748`).
* Of two administrators who decide a dispute at once, the one with the earlier time may write
  last: the case then holds one decision, and the newest event is the other's
  (`disputes.service.ts:293`).
* An edit or a withdrawal that read its bid as active writes
  (`market-place.service.ts:597`, `635`) after an award accepted it.
* An award does not look at the shipment's status (`market-place.service.ts:680`): a
  cancelled freight shipment becomes ASSIGNED again.
* `refreshToken` answers with the token whose session it has just deleted
  (`auth.service.ts:446`); only the cookie holds the new one.
* A rotation that has deleted its session and not inserted the next outlives a reset of
  the password (`auth.service.ts:413`), and so does a sign-in that had checked the old one.
* Requests that hold one code all use it (`auth.service.ts:217`), since marking it used has
  no condition.
* A check whose answer carries another name takes that name, and its webhooks, which use
  the old one, are then dropped (`kyc.service.ts:491`); two first verifications at a time
  can both create the profile row, and one of them fails after Prembly was asked
  (`kyc.service.ts:984`).
* A shipment on its way before its scheduled time is on none of the customer's three lists
  until then, and one due at this very moment is on two (`shipments.service.ts:243-276`).
* For a customer who has become a driver since the guard looked, the provider's OR
  replaces that of the ACTIVE filter (`shipments.service.ts:209-212`).
* The provider's completion rate counts cancelled shipments as completed too, because the
  history holds them, so it never falls below 50 (`shipments.service.ts:774-781`).

## Proofs

Every safety invariant, action property and refinement that the runs check is a theorem,
for every value of the constants. The theorems assume only what the
modules assume of their constants, in `ASSUME`s that TLC evaluates (amounts are naturals,
processes and "no one" are different values). Each is proved by an inductive invariant.
Why the checked invariants alone are not inductive:

* `WithdrawalSafety` (types, `PayoutIsDebited`, `StatusIsBacked`, `RefundIsJustified`): an
  open refund transaction acts on what it read, so `WithdrawalInv` says what it may still
  rely on (`RefundInv`), that each process has one (`OneEach`), that a request's phase
  tells whether its debit is committed (`PhaseInv`), and that an answer of success has its
  webhook (`TransferInv`). `ReversedStays` proves `ReversedIsFinal` from it.
* `FundingSafety`: an open credit has seen the money, and the right amount of it if its
  answer has one (`FinalizeInv`), and a checkout's row
  exists before its user can pay (`CheckoutInv`).
* `WalletSafety`, `WalletReversedStays`: the same of the composition. No part of the two
  invariants but the types reads the balance, and these bound it by nothing, so a step of
  one side preserves the invariant of the other.
* `WalletImplementsLedger`: only three kinds of step post a row, each once and with its
  amount; that a request debits once and refunds only debited withdrawals (`DebitInv`) is a
  consequence of `WithdrawalInv`.
* `WalletIsAudited`: the balance is the sum of the rows (`BalanceIsPosted`). A step posts
  one row and moves the balance by its amount, or does neither; that the sum grows by that
  amount (`SumAdd`) needs that finitely many rows are posted at any moment, which is part
  of the invariant (`PostedInv`), and that the row is new, which is what the unique index
  makes of an aborted transaction.
* `IdempotencySafety`, `WrapperKeepsPromise`: the call that holds the key's row in
  progress is the only one past `Create`.
* `DispatchProofs!Safety`, `DeliveredStays`, `DispatchImplementsMatching`: what a
  handler read is only about its own provider or about an assignment that is never
  deleted (`ReadsHold`), a countered offer has an amount, and the assignment is one
  row. `CanAssign` under the lock does the rest. An edit of the
  price sets `edited`, and only an acceptance that sets both prices resets it.
* `BroadcastsOnce` proves `BroadcastOnce`: whoever is to insert an event has the row, alone,
  and what it found there, no event, still holds (`LockInv`); every writer of the events
  needs the row.
* `ReconcileSafety`: what a job, or the sweep as the first of what it has left, has chosen
  to broadcast was due when it was chosen, and to have been due is for good; a shipment
  that does not exist yet has no history (`DueInv`). It needs of the types only the columns
  (`ColumnsOK`), not that the sweep's `pass` is a sequence: that a set of shipments can be
  sorted is induction over data, so the full `ReconcileTypeOK` is not a theorem.
* `MarketplaceProofs!Safety`, `MarketplaceImplementsAuction`: an award in flight holds an
  amount its provider has asked (`ReadsHold`, `AmountIsAsked`: both stay true because
  `asked` only grows), and award and assignment are inserted together (`OneRow`).
* `OnboardingProofs!Safety`: an approval is granted from what the same transaction wrote
  (`Granted`); what a review has read about provider and link can only be outdated in
  the direction that makes it fail (`ReadsHold`), and one review at a time is past the
  row lock (`OneJudge`).
* `KycProofs!Safety`: what was verified at one moment stays verified at Prembly
  (`TogetherInv`), so it is enough that an aggregate a call has read and not yet written
  (`CallInv`) was right at a moment, and that no moment goes unnoticed (`MomentInv`). A
  check, and an answer on its way, says verified only of a transaction Prembly verified or
  an answer about which was misread (`Passed`, `RowInv`, `Answered`); `AggregateIsSound` says
  what the newest checks make of that.
* `SessionsProofs!Safety`, `Ended`, `Spending`, `SessionsImplementSignedIn`: a rotation that has deleted its session
  knows one that is gone (`RotateInv`), every session descends from a sign-in
  (`RootInv`), and the sessions and the rotations in flight of a sign-in are together one
  (`OneStands`, which is stated without cardinalities). `InPlace` says which statements an
  endpoint gets to: a call at the wrong one would issue from the wrong credential. Most
  steps add no session and are treated as one kind (`Tame`, `StepKinds`). In the
  refinement these are stuttering steps (`StillSteps`) but for logout, reset and a lost
  rotation; that a rotation renews, and renews one sign-in, is `OneStands` again, and that
  the reset finds the sessions of the account is that a rotation copies how its sign-in was
  made (`RootInv`). `EndedStaysEnded` and `SpentIsDead` follow from the refinement and are
  stated, and proved, by themselves; the run checks the refinement.
* `OpsProofs!Safety`, `Stays`, `OptOut`: a request tells only what it, or an earlier one,
  has committed, and pushes what it has stored (`CallInv`); the exception is an update of a
  ticket between its read and its write, whose batches name what it will commit. Events
  belong to files (`EventInv`), so a new file is not taken for a decided one. No decision
  is stamped later than the clock (`ClockInv`), and the one that is under way on a file
  nobody raced on is alone and newer than all its events (`RaceInv`).
* `OpsProofs!ListsSafety`: here the state holds no race, and the work is in the queries. The
  invariant is the types of the rows and of the non-rows (a step needs to know that a
  shipment without a row has none of its columns). From the types follow `ListsCover`, by
  cases on the status and on the due time of one shipment (`OffTheLists`) and by the
  cardinality of two disjoint sets for the counts (`CountsAdd`), and `LaterIsNotActive`.
* `OpsProofs!ReportsAgree`: `WidgetsAgree` follows from the types and from the dates, for a
  shipment is never updated before it was created, so nothing in a report lies before the
  first bucket. The buckets begin in order and without gaps (`StartsInOrder`), so each
  shipment is in one, and the total of a series is the number of shipments it counts
  (`CountsSum`).

`LibraryProofs` holds what these proofs need of the library: that a least or greatest
element exists and is the one chosen, what a sum over a set is, and how it changes with an
element more or less. Such facts are inductions over finite sets. The library's induction
theorems take an operator, which the provers cannot instantiate, so each induction is done
by a minimal counterexample: among the finite sets that fail there would be a minimal one
(`MinimalIsIn`, of the least cardinality), and with an element removed it does not fail.

Model-checked only:

* the liveness properties `FailedTransferIsRefunded`, `DebitIsSettled`,
  `PaidCheckoutIsCredited`, `DueIsReached`, `LookedAtIsCurrent` and `ExpiredIsPurged`:
  fairness and ENABLED are out of the prover's reach;
* `NoOverdraft`, which does not hold.

## Not modelled

* Administrators' direct edits of batches, offers and assignments
  (`dispatch.service.ts:423-556`, `1177-1226` and the assignment mutations): they bypass the
  promises the rest of the code makes. Offer expiry is only ever set there. The same holds
  of `updateShipment`'s free choice of status, which `Views` has, and `Reconcile` up to the
  assignment. What else it may set is left out: customer, mode, currency, escrow, commission.
* VIEWED offers: no code writes that status.
* The approval of a driver by an older role column (`user.service.ts:481`).
* The place in the sweep's order that a reschedule changes.
* Choice of providers, currencies, saved cards and bank accounts, subscriptions,
  marketplace listings and paging, validation of inputs, time zones and daylight saving.
* In the back office: amounts, references to shipments, SLA rules, platform settings,
  `approveRefund`, and marking notifications read.
* Collisions of reference numbers of six random digits (`invoices.service.ts:362`):
  probability, not state.
* Pricing: arithmetic in one statement each, on configured numbers.
* The components marked `not_modelled` in `PROJECT.json`, each with its reason.

## Plan

Done, in this order: `Withdrawal`, `Funding`, `Wallet` with `WalletLedger`,
`Idempotency` with `OnceOnly`, `Dispatch` with `Matching`, `Marketplace` with `Auction`,
`Reconcile`, `Onboarding`, `Kyc`, `Sessions`, `Desk` with `Inbox`, `Dashboard` with `Views`,
and the proofs of their safety properties. Next:

1. Abstract specifications of what `Sessions` and `Desk` promise, with refinement proofs
   like those of `Matching` and `Auction`.
2. The administrators' edits of batches, offers and assignments, as further actions of
   `Dispatch`, once it is settled which of its promises they keep.
3. Saved cards and bank accounts, beside `Funding` and `Withdrawal`.
