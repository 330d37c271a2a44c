# A verification project for the food rescue backend

The repository is a marketplace for surplus food: providers list what is left
over, customers reserve and pay for it and pick it up, NGOs claim it for
volunteers to deliver. This directory holds TLA+ models of the backend
(`src/Food_waste_backend`), the TLC runs that check them on small instances,
and TLAPS proofs of their main safety properties for every instance.

What goes wrong in such a system is rarely a single handler. A reservation is
decided by whichever comes first of a webhook, a timeout job, two sweeps, the
customer, the provider and the clock; each works in its own transaction on rows
the others change, and the payment gateway has the last word on the money.
Three modules model that core: the life of a paid reservation (`PaymentHold`),
the way food takes to NGOs and volunteers (`NgoTasks`), and money on its way
back (`Refunds`). Ten smaller ones model the services around it, each a protocol
over tables of its own.

1. [Inventory](#1-inventory)
2. [The modules](#2-the-modules)
3. [What the runs check](#3-what-the-runs-check)
4. [What is proved](#4-what-is-proved)
5. [What reading and checking brought up](#5-what-reading-and-checking-brought-up)
6. [Not modelled](#6-not-modelled)

## 1. Inventory

Processes: the API server (`services/api`), the workers process
(`services/workers`, BullMQ queues over Redis), PostgreSQL, and the Cashfree
payment gateway. Handlers and workers share nothing but the database, the
queues, Redis and the gateway. All paths are relative to `Food_waste_backend`.

| component | state it keeps | operations | what is hard | what makes it correct | module |
|---|---|---|---|---|---|
| Customer reservations (`controllers/reservation.controller.js`) | `reservations`: status, payment_status, payment_context | createReservation (hold transaction, then session transaction), cancelReservation, markAsPickedUp | the session transaction spans a gateway call; its failure is cleaned up by a third transaction; ambiguous commits | one live reservation per customer and listing; every hold is decided | PaymentHold |
| Payment sessions (`payment.service.js`) | `payments`, `payment_order_attempts` | createPayment, createReliabilityDepositPayment | attempt rows are written on another connection and survive a rollback | rows and gateway agree in the end | PaymentHold |
| Webhooks and reconciliation (`paymentReconciliation.service.js`, `paymentTimeout.worker.js`) | the same rows, `cashfree_webhook_events`, marks in Redis | handleCashfreeWebhook, reconcileOrder, sweeps for overdue sessions, attempts, lost initializations and refunds | duplicated, late and reordered events; gateway read before the transaction that uses it; crashes | a captured order is served or refunded; an event is applied once | PaymentHold, Refunds, WebhookLog |
| Inventory (`inventory`, `reservationConsistency`, `reservationLock` services) | `food_listings.remaining_quantity`, status | reserveListingStock, restoreReservationStockIfHeld, releasePendingPaymentReservation | many handlers race to give the same stock back | stock is conserved; never negative | PaymentHold, NgoTasks, StockLedger |
| Listings (`food.controller.js`, `expiry.worker.js`) | `food_listings` | addFood, updateFood, deleteFood, requestNGO, expiry job | edits and expiry while stock is held | nobody is left with a reservation that cannot be honoured | PaymentHold, NgoTasks |
| Refund execution (`refund.worker.js`, `refundExecution`, `refundRouting` services) | `payments.refund_*`, `financial_operations` | refund, deposit and provider-fault jobs | job lost after commit; retries of an executed refund; late failure after success | one refund each; rows say what the gateway did | Refunds |
| NGO reservations (`ngo.controller.js`, `reservationCapacity.service.js`) | `ngo_requests`, reservations with deposits | acceptNGORequest, rejectRequest, bulkReserve | a request is rejected while its deposit is being paid; several requests count active reservations at once | accepted request and live reservation agree; the limit holds | NgoTasks, Capacity |
| NGOs and volunteers (`ngo.controller.js`, `volunteer.controller.js`) | `volunteer_requests`, `volunteers` | joinNGO, requestVolunteer, approve, reject, respondToRequest, leaveNGO | two NGOs approve at once; the check takes no lock | one NGO per volunteer | Membership |
| Volunteer tasks (`volunteer.controller.js`, the two timeout workers) | `reservations.task_status`, assigned volunteer, `volunteer_stats` | startTask, pickup, completeTask, timeouts | timeouts race confirmations; timeouts and deposits' refunds queued after the commit | one active task per volunteer; each task counted once; deposits kept or sent back | NgoTasks |
| Settlement (`providerPayout.service.js`, `admin.controller.js`) | `provider_settlements`, ledger entries | pay one, settle a month, carry a refund forward | two administrators pay together and count on one refund | nothing paid or recovered twice | Settlement |
| Payout accounts (`providerPayout.service.js`) | `provider_payout_accounts` | upload, request change, approve, verify, reject, deactivate | reads without a lock, writes later | one active account | PayoutAccounts |
| Notification outbox (`notificationOutbox.service.js`) | `notification_outbox` | enqueue, claim, deliver, mark, fail | leases that run out under a slow worker | every row ends; a final row stays | Outbox |
| Trust (`trustEvent`, `trustWorker`, `trustProjection` services, rebuild script) | `trust_events`, `trust_event_effects`, `trust_scores` | append, claim, project, retry, rebuild | events applied out of order by several workers that crash | the score is a replay of the events | Trust |
| Moderation (`moderation.service.js`, `admin.controller.js`) | `provider_reports`, `moderation_cases`, `moderation_appeals` | report, review, case form, appeal | two doors to one verdict, the form reads unlocked | one verdict everywhere, final | Moderation |
| Incidents (`incidentManagement.service.js`) | `incident_records`, events, postmortems | create, transition, postmortem | status derived in a snapshot older than the lock | resolved before closed; one active per source (not kept: `revived_incident`) | Incidents |
| Sessions (`auth.controller.js`, frontend `lib/axios.ts`) | `users.refresh_token`, grace entries in Redis, a cookie | login, refresh, logout | tabs refresh with one token at once | tabs stay signed in; logout sticks | Sessions |
| Reports, compliance, observability, routes, validation, frontend | mostly none of the domain's own | queries, counters, forms | little | see section 6 | none |

`PROJECT.json` lists the same components with their sources and says of each
what is modelled; it lists every hazard at its line with the properties that
watch it.

## 2. The modules

| module | what it is |
|---|---|
| `Items` | the reservations of one listing and the items they ask for; a sum of quantities is the cardinality of a set of items |
| `StockLedger` | the abstract specification of a listing's stock: a reservation takes its items once, if they are there, and gives them back at most once; the provider may offer more, or less but never less than is held |
| `PaymentHold`, `MCPaymentHold` | paid self-pickup reservations of one listing with everything that acts on them, and constants for TLC |
| `PaymentHoldProofs` | proofs about each reservation's rows on their own; proofs that relate reservations to each other and to the listing, and the refinement of `StockLedger` |
| `NgoTasks`, `MCNgoTasks`, `NgoTasksProofs` | requests to NGOs, NGOs' reservations with or without a deposit, volunteers' tasks and the timeouts, on one listing; its proofs, with the refinement of `StockLedger` |
| `Refunds`, `MCRefunds`, `RefundsProofs` | the money of one reservation on its way back |
| `Settlement`, `PayoutAccounts`, `Outbox`, `Trust`, `Incidents`, `Moderation`, `WebhookLog`, `Membership`, `Sessions`, `Capacity` | one service each |
| `MCServices` | one small instance of each of those, and of `NgoTasks` with a single NGO for its liveness and its deposits |
| `ServicesProofs` | proofs about PayoutAccounts, Outbox, Moderation, WebhookLog and Sessions |
| `LockingProofs` | proofs about the services that lock several rows in turn: Settlement, Membership, Capacity, Incidents |
| `TrustProofs` | proofs about the trust engine and its workers |
| `FoldLemmas` | induction over naturals and finite sets, and what folds and sums return |
| `MCServicesProofs` | the services composed: each keeps to its own specification |

An action is one transaction, one autocommitted statement, one gateway call or
one call to Redis; where a handler reads without a lock and writes later, or
calls out while it holds locks, it is several actions with what it read in a
variable. Definitions whose comment says "as if" are deliberate mistakes; no
specification uses them. They are the mutants `PROJECT.json` lists, with
which the run of the property they belong to must fail.

### PaymentHold

| variables | in the code |
|---|---|
| `quantity`, `remaining`, `listing` | `food_listings.quantity`, `remaining_quantity`, `status` |
| `clock` | now against `pickup_end_time`: before the cancellation cutoff, after it, over |
| `status`, `payStatus`, `held`, `initializing` | `reservations.status`, `payment_status`, `payment_context.stock_reserved`, `.payment_initializing` |
| `overdue` | the hold's deadline (`payment_expires_at`, `payment_initializing_at`) has passed |
| `payment`, `refundId` | `payments.status` (`refund_status` goes with it), `refund_id` set |
| `attempt`, `session`, `attemptOld` | `payment_order_attempts.status`, `payment_session_id` set, `updated_at` over ten minutes ago |
| `order`, `notices` | the order at Cashfree and the webhook deliveries on their way, one per idempotency key |
| `creator` | where the createReservation request is between its transactions |
| `reads` | what a worker has read (at the gateway, or an unlocked row) and not applied yet |
| `refundJob` | BullMQ job `refund-<reservation>`: absent, waiting, finished and retained |

Transactions are atomic because every handler that changes a hold locks the
listing's row before the reservation's (`lockReservationGraph`,
`lockPaymentGraphByOrderId`, the expiry worker's first UPDATE), and the ones that
only lock the reservation (pickup, the session transaction) change nothing the
others have read without that lock. The session transaction of
createReservation is split, because it holds its lock during the gateway call
and writes the attempt on another connection; `RowLocked` keeps the others
waiting (or skipping, where the code says SKIP LOCKED) meanwhile. A gateway read
and the transaction that uses it are two actions. The one check made without a
lock before the locked section of `restoreAttemptReservationsWithoutPaymentRows`
is a step of its own (`CheckAttempt`).

| actions | code |
|---|---|
| `Reserve`, `BeginSession`, `GatewayCreates`, `MarkCreated`, `CommitSession`, `CommitUnacknowledged`, `SessionError`, `CleanupHold`, `RequestDies` | createReservation, createPayment, cancelPaymentInitializationHold |
| `CustomerPays`, `CustomerDeclined`, `OrderExpires` | the gateway (external) |
| `Deliver` | handleCashfreeWebhook with processPaidOrder or processFailedOrder |
| `ReadOverdueSession`, `ApplyOverdueSession` | the timeout job and reconcileStalePaymentSessions, reconcileOrder |
| `ClaimAttempt`, `Materialize`, `CheckAttempt`, `AbandonAttempt`, `KeepAttempt` | recoverPaymentOrderAttempts |
| `ClaimInitialization`, `ApplyInitialization` | claimStalePaymentInitializations, recoverStalePaymentInitialization |
| `WorkerDies` | a worker that crashes between its read and its transaction |
| `CancelHold`, `CancelPaid`, `PickUp` | cancelReservation, markAsPickedUp |
| `PrepareRefund`, `RefundOutcome` | refund.worker, refund webhooks and sweep, as far as the payment row goes |
| `ExpireListing`, `EditListing`, `DeleteListing` | expiry.worker, updateFood, deleteFood |
| `HoldLapses`, `AttemptAges`, `Tick` | time |

Amounts, codes, ledger entries, trust events, realtime publications and
notifications are left out: no modelled guard reads them. Two branches of the
code are left out because an invariant shows they are never taken: activation of
a hold that has no stock (`StockFollowsReservation`) and the repair of a paid
payment row under a pending reservation (`PaymentsAgree`). The clause that lets
the sweep wait two minutes for a webhook in progress only delays
`ReadOverdueSession`, which may be delayed anyway. The expiry job of an earlier
pickup end is refused by the worker and does nothing.

### NgoTasks

`req`, `status`, `pay`, `task`, `by`, `qty`, `held`, `request` are columns of
`ngo_requests` and `reservations`; `deposit` is
`payments.reliability_deposit_status`, "back" once a refund that contains it is
queued; `order` the deposit's order; `vol` counts startTask requests of a
volunteer that are past their unlocked check; `starting`, `confirming` and
`returning` are handlers between their commit and their queue calls, `pickupJob`,
`deliveryJob` the queued timeouts, and `forsaken`, `unreturned` the reservations
whose handler died before it had queued the timeout or the deposit's refund.

| actions | code |
|---|---|
| `RequestChecked`, `RequestInserted`, `RejectRequest` | requestNGO, rejectRequest |
| `BulkReserve`, `AcceptRequest` | bulkReserve (for one listing of the order), acceptNGORequest |
| `DepositPaid`, `ReleaseHold`, `ProcessPaid`, `CancelNgo` | the gateway; releasePendingPaymentReservation; processPaidOrder with activatePendingReservation; cancelReservation |
| `StartChecked`, `StartTask`, `StartRefused`, `SchedulePickup` | startTask before, in and after its transaction |
| `ConfirmPickup`, `ScheduleDelivery`, `CompleteTask` | markAsPickedUp in and after its transaction, completeTask up to its commit |
| `QueueRefund` | what follows the commits of completeTask, cancelReservation and reconciliation: deliveryQueue.remove, the refund's job |
| `PaidAgain` | processPaidOrder for a cancelled reservation: the refund is asked for once more |
| `HandlerDies`, `RefundUnqueued` | a process that dies, or a Redis call that fails, after a commit |
| `PickupTimeout`, `DeliveryTimeout`, `StaleTimeout` | the two timeout workers |
| `Tick`, `ExpireListing` | the clock, expiry.worker |

The deposit's way through the gateway is that of PaymentHold, reduced to an order
that is paid or dies. A deposit paid after the expiry worker ran activates a
reservation of an expired listing; that is the finding of `paid_after_end`
again, and the liveness property says "made while the listing was offered".

### Refunds

`res`, `resPay`, `pay`, `dep`, `rid`, `did` are columns of the reservation and its
payment; `op` the rows of `financial_operations`, one per idempotency key;
`step`, `left`, `says` where each of the three jobs is, its attempts left and the
gateway's answer; `gw`, `parts` what Cashfree has for each refund id, and `seen`
what the sweep has read.

| actions | code |
|---|---|
| `Cancel`, `PickUp`, `Expire`, `Validate` | cancelReservation, markAsPickedUp, expiry.worker with retainReliabilityDeposit, validateProviderReport with enqueueProviderFaultRefund |
| `Prepare`, `NothingDue` | prepareRefund, prepareProviderFaultRefund, prepareDepositRefund |
| `Call`, `CallRefused` | PGOrderCreateRefund, idempotent in the refund id |
| `Persist`, `PersistRaises`, `MarkOperation` | persistRefundStatus, persistDepositRefundStatus, markFinancialOperationStatus |
| `LookUp`, `ApplyLookUp`, `AttemptFails`, `Crash` | reconcileRefundErrorWithGateway, BullMQ retries, stalled jobs |
| `Settle`, `Webhook`, `SweepReads`, `SweepApplies` | the gateway; processRefundEvent; claimPendingRefunds |

`Lose` says what may happen to a job between the commit and the queue. The
gateway refuses a refund of a part that is returned already: the total would
exceed what was paid, since the fee paid on top is smaller than either part. New
refund ids are alike, so the least unused one is drawn.

### The services

| module | state and code | left out, and why it may be |
|---|---|---|
| `Settlement` | one provider's settlements, the ledger entries payments read back, and each administrator's transaction (locks, what it read). transitionProviderSettlementStatus and settleMonthly take their locks, read and write in separate steps | a rollback after the first write is the same as one before it, since nobody reads a locked row; entries of what was paid are kept by nobody who decides |
| `PayoutAccounts` | rows, the active one, verification, change requests; uploads and verifications are two steps | the cipher and the masks |
| `Outbox` | rows, leases, each sweep's batch and the delivery it has not marked yet | the batch limit; the back-off, which only delays |
| `Trust` | the log, the applied effects, the stored projection, and each worker's transaction with the advisory lock. The projection is the code's arithmetic, in half points so that the 0.5 of a repeated gain is an integer | overrides in payloads that no code writes; all pickups are at one provider |
| `Incidents` | status events stamped with the time their transaction began, row locks, the status each waiting request saw | INVESTIGATING stands for IDENTIFIED and MITIGATING, which have the same transitions |
| `Moderation` | report, case, appeal, trust event, refund, and what a status form has read | UNDER_REVIEW stands for ESCALATED and AWAITING_RESPONSE |
| `WebhookLog` | mark and lock in Redis, the row and its lock, where each delivery is | what applying does (PaymentHold, Refunds); it is counted |
| `Membership` | requests and memberships of one volunteer, row locks, the rows an approval has still to reject | the hour before a join may be repeated and active tasks at leaving are left to chance; `FailJoin` is a deadlock's victim as well as a lost connection |
| `Sessions` | the live token, grace entries, the cookie, each tab's request | the access token with its version, and the week a refresh token lasts; entries end oldest first, and no request outlasts their ten seconds. `disturbed` marks what ends a session otherwise: logins, logouts, a silent Redis, a winner slower than the polling, an entry of another device, an overtaken answer |
| `Capacity` | what the count sees of each reservation, the trust level, each request's step and the policy it read, the row lock on users | other reasons to refuse are left to chance; a hold without a session has no deadline in the code, the model lets it pass anyway; an order over several rows is paid row by row |

The services share no table: a step of one neither reads nor writes what another
one has. `MCServices` therefore lets one of them move in each behaviour (`part`
says which), which keeps the state space the sum of theirs instead of the product
and loses no behaviour of any of them. `EachServiceAlone` proves the other half:
seen through its own variables, every service of the composition behaves as its
own module says.

## 3. What the runs check

Deadlock is not checked: when all reservations are closed, all requests made and
the window is over the system stops, as it should.

| run | instance | shows |
|---|---|---|
| `hold_faults` | PaymentHold, 1 reservation of 2 items, 2 or 3 offered, each event notified under 2 keys, 2 faults of all 5 kinds, failing gateway reads, orders paid before their row exists | `PaymentsAgree`, `StockFollowsReservation`, `CapturedOnly`; no step reaches the database trigger (`TriggerNeverFires`) or reopens a closed reservation (`ClosedStaysClosed`) |
| `same_customer` | 2 attempts of one customer, 2 items, 2 keys, a failing session | `OneLiveReservation`: late events about the first attempt never make it live beside the second |
| `contention` | 2 customers, 1 or 2 items, one edit or deletion | `StockConserved`, the inductive invariant `IInv` of the proofs, and `KeepsLedger`: the handlers implement `StockLedger` |
| `hold_liveness` | 1 reservation, a failing or unacknowledged session, one edit, under fairness | `HoldsResolve`, `CapturedMoneySettles`, `RefundsComplete` |
| `ngo_tasks` | 2 NGOs, each asked once, 2 items, a volunteer with 2 startTask requests, deposits asked for, one handler that dies | `TypeOK`, `OneTaskEach`, `StatisticsAgree`, `RequestsAgree`, `DecidedOnce`, and `KeepsLedger`: these handlers implement `StockLedger` too, so that every item is left or with one reservation (`ItemsAccounted`) |
| `refunds` | 1 payment with or without a deposit, 3 refund ids, 2 attempts per job, one crash, jobs lost or not | `OneRefund`, `SaysTruth`, `RefundHasCause`; and, when every webhook is lost, `RefundReported` |
| `services` | one instance of each service, below | up to three properties of each, below |
| `crashed_hold` | 1 reservation, one crash, under fairness | `HoldsResolve` is violated |
| `lost_refund_job` | 1 reservation, one lost job, under fairness | `RefundsComplete` is violated |
| `paid_after_end` | 1 reservation, one edit | `NoReservationOnEndedListing` is violated: a listing deleted during a hold gets an active reservation; with `MaxEdits = 0` so does an expired one |
| `revived_incident` | 2 incidents of one source, 2 requests of admins | `OneActiveIncident` is violated: a request decides on a status read before it waited |
| `deposit_asked_twice` | 1 payment, no fault | `AskedOnce` is violated: a pickup and a validated report ask for the deposit under two refund ids |

The five violations are disagreements between the code and what its docs or its
own messages say; `PROJECT.json` quotes both under "findings".

What `services` checks, besides the types of all (`ServicesTyped`):

| part | instance | properties |
|---|---|---|
| settlement | 3 dues of 1, 2 and 1, two administrators, one due refundable, one unit carried forward | `NeverOverpaid`, `ReleasedAsCarried` |
| payout accounts | 3 accounts | `OneActiveAccount` |
| outbox | 2 mails, 2 sweeps, 2 tries, one worker lost, under fairness | `FinalStays`, `OutboxEnds` |
| trust | 3 events of a volunteer or a provider, the third after the decay, 2 workers and the rebuild script, 2 attempts, one crash | `ScoreIsReplay`, `SuccessesHelp` |
| incidents | 2 incidents of one source, 2 requests of admins | types only; the run `revived_incident` and the theorem `AlwaysResolvedFirst` say what holds of them and what does not |
| moderation | 2 reports, reviews, one status form under way at a time | `VerdictsAgree`, `VerdictsStand` |
| webhook | 3 deliveries, one that dies | `AppliedOncePerFailure` |
| membership | 2 NGOs, 3 joins, 1 invitation | `OneNgoByJoining` |
| sessions | 2 tabs, 4 tokens | `TabsStaySignedIn`, `LogoutSticks` |
| capacity | 4 reservations in 3 requests, 3 trust levels with limits 2, 1 and 0 | `WithinLimit` |
| NGO work | 1 NGO, 1 volunteer, one handler that dies, under fairness | `DepositFollowsTask`, `NgoWorkEnds`, `DepositsReturn` |

**Bounds.** Two faults suffice for a failed session whose cleanup fails too, and
for a crash of the request and of the worker that recovers from it. Two keys per
event give a duplicate that arrives at any later moment. Two reservations are
what the properties relating reservations speak of, two NGOs what a rival request
needs, two startTask requests what the unlocked check lets through. Three refund
ids are one for each kind of refund and one more for a retry that wrongly drew
its own (only then is the third used); two attempts are one that fails and one
that finds what it did. Two sweeps make one outlive its lease; a third delivery
finds what the first two left. Three dues give a month and a single settlement
that share some rows but not all. Three events are the least with a penalty, its
decay and a gain out of order; `ComplaintStep` is 2 instead of 10 so that three
events reach a level. Two requests of admins are one that waits for the other. Four tokens are two
refreshes and a login. `MaxEdits`, `MaxFaults`, `MaxDeaths`, `MaxCrashes`,
`MaxLosses`, `MaxDrops` and `MaxCarried` bound what the environment does; with
fairness such a bound says that faults stop, which the liveness properties need.
With two NGOs (`ngo_tasks`) every reservation asks for a deposit; those that ask for
none, and what a deposit promises, are checked with one NGO (`services`), since each
concerns one reservation at a time. The proofs do without any of these bounds.

Symmetry is used only in runs without liveness. It exchanges reservations that are
alike (`same_customer`) and, in `ngo_tasks`, the two NGOs, each of which makes one
reservation and is sent one request that go by its name. `EarlyPay` (an order paid
although its payment row never committed), `GatewayFails` (reads of a known order
that fail) and `Recovery` (the sweeps of attempts and lost initializations) are
switched on together in `hold_faults`; the runs with two reservations leave them
off to stay small, and the liveness runs leave the first two off: a gateway that
never answers, or an order paid by a customer who never got its session, is not
something the scheduling of this code can promise anything about. The proofs cover
all their values.

**Fairness.** Weak fairness for what the code schedules by itself, and nothing
else. PaymentHold: a request that has not died goes on; deadlines pass; the
timeout job and the repeatable sweeps (`upsertJobScheduler`) keep running and
BullMQ retries their jobs; a queued refund job runs; Cashfree redelivers a webhook
until it is accepted, expires an unpaid order and settles a refund it accepted.
NgoTasks: a live process goes on to its queue calls (timeouts and refunds), BullMQ
runs due timeouts, the expiry job runs when the window is over, a hold is paid or
released; nothing is assumed of `PaidAgain`, since no second event need come.
Refunds: the refund sweep alone, nothing of jobs and webhooks. Outbox: leases
end and a sweep that lives goes on. Nothing is assumed of customers, providers,
NGOs, volunteers and administrators.

## 4. What is proved

TLAPS checks the theorems below for every value of the constants that satisfies
the modules' assumptions: finitely many reservations (of one or two items in
PaymentHold, since createReservation refuses other quantities, of any number in
NgoTasks), and finitely many settlements, accounts, events, webhook deliveries,
incidents and requests; positive offers and amounts; names that differ. In the
proofs all bounds on faults are arbitrary.

**PaymentHold.** `TypeCorrect`: `TypeOK` is inductive as it stands.
`PaymentsAlwaysAgree`, `StockAlwaysFollows`, `OnlyCaptured`: none of these is
inductive alone. Whether a late answer may be applied depends on what the worker
has read and on whether the creating request still holds the row lock. `Control`
(where the request is determines the attempt, the payment row and the
reservation) and `PaidIsPaid` (whoever says that an order is paid has it from the
gateway) complete them. All five speak of one reservation at a time, so the proof
carries `RowInv(r)`, with one lemma per action that treats the reservation it acts
on and any other one apart. `AlwaysOneLive`: a reservation becomes live in
`Reserve` alone, which looks for the customer's others. `StockAlwaysConserved`:
every action keeps the set of reservations that hold stock, adds one, or removes
some, with `remaining` moving by the cardinality of their items. `InvariantHolds`
is the conjunction; `TriggerIsSilent` and `ClosedIsFinal` are each step's
lawfulness given the invariant before it; `ImplementsLedger` maps the same three
kinds of step to Take, GiveBack, Adjust or a stutter of `StockLedger`.

**NgoTasks.** `NgoTypes`, `AlwaysOneTask`, `AlwaysStatistics`, `AlwaysDeposit`,
`AlwaysRequests`, `AlwaysAccounted` and `AlwaysDecidedOnce`, for any number of
NGOs, requests, volunteers and reservations. The strengthening says which
statuses, payments, tasks, holds and volunteers go together in one row, and that
an accepted request has the reservation that accepted it; that a handler with a
refund to queue belongs to a reservation served or cancelled, and that a held
deposit of a confirmed one was paid, so that the handler that ends it knows there
is something to send back; counts of tasks and items move by cardinalities of
disjoint sets. `ImplementsLedger`: an insertion is
Take of one reservation, a released deposit, a cancellation or a pickup timeout is
GiveBack of one, the expiry worker GiveBack of all that no volunteer has started,
and everything else a stutter. It needs of a row that a released one holds no
stock, else a deposit paid late would take items back from nobody.

**Refunds.** `RefundTypes`, `AlwaysOneRefund`, `AlwaysTruth`, `AlwaysCause`, for
any number of refund ids, attempts and crashes, and whatever is lost. `SaysTruth`
is inductive only together with what is under way: each answer a job or the sweep
carries is one the gateway has given (`Heard`), each refund at the gateway is
named by the row that asked for it (`Named`), and a refund of the payment contains
the deposit whenever there is one (`Whole`).

**Services.** Each theorem has an inductive invariant that says what the locks and
the requests under way amount to. The type invariants (`SettlementTyped`,
`TrustTyped`, `SessionTypes` and one lemma for each other service) are proved with
them: that a counter stays a number, or a local names a row that exists, rests on
where the request is.

| theorem | property | invariant, in words |
|---|---|---|
| `AlwaysApplied` | `AppliedOncePerFailure` | `HookInv`: who applies holds the row and found it unprocessed; one application more than failures only while the row says processed |
| `AlwaysOneAccount` | `OneActiveAccount` | `AccountInv`: one active row or none, as the index admits; lemmas say what a late write makes of it |
| `AlwaysAgreed`, `AlwaysStand` | `VerdictsAgree`, `VerdictsStand` | `CaseInv`: a report a form saw decided is decided still (`FormsKnow`), and one it saw pending is reviewed through the report's own guard |
| `AlwaysSentOnce`, `AlwaysFinal` | `SentOnce`, `FinalStays` | `MailInv`: a delivery a sweep believes to have made, leased or not, has its one notification |
| `AlwaysSignedIn` | `TabsStaySignedIn` | `KeptInv`: until something disturbs the session, a way leads from the cookie, and from every token a tab has sent, through grace entries and rotations under way to the live token |
| `AlwaysLoggedOut` | `LogoutSticks` | `TokenInv`: a request under way names a token, never NULL, so that its UPDATE misses a row logged out |
| `AlwaysOneNgo` | `OneNgoByJoining` | `MemberInv`: who holds which row (`RowsLocked`), an approval accounts for every other pending join (`Accounted`), and no other membership is active while it grants |
| `AlwaysResolvedFirst` | `IncidentsAgree` (no run's) | `TimelineInv`: whatever stale status a request holds was once the incident's (`Informed`), and timelines only grow |
| `AlwaysWithinLimit` | `WithinLimit` | `CapacityInv`: who has counted holds the account's row, and what it wants still fits beside the active rows paid in time (`CountStands`) |
| `NoneOverpaid`, `RecoveredOnce` | `NeverOverpaid`, `ReleasedAsCarried` | `SettlementInv`: no two transactions lock a row (`LocksExclude`), each keeps the rows it pays (`HoldsOwn`) and the refunds it counts on (`HoldsSources`) until it ends, and what it has read of them still stands (`SeenStands`); amounts of a month are sums over its rows |
| `AlwaysReplay` | `ScoreIsReplay` | `TrustInv`: one worker has an event (`ClaimsStand`), one transaction the account's advisory lock, and what its holder has loaded is the replay of the applied events (`ViewStands`) |
| `SuccessesAlwaysHelp` | `SuccessesHelp` | a potential: `Owed` bounds the successes a stored score still needs, each success pays one of them (`SuccessPays`), and the app promises that many (`PromiseKept`) |
| `EachServiceAlone`, `ServicesAlwaysTyped` | `ServicesTyped` | none: a step of one service leaves every other's tables, so that the theorems above hold of the composition |

**Folds.** A replay of events and the amount of a month are folds, recursive
functions over finite sets. `FoldLemmas` reasons about them without an induction
theorem that takes a predicate: naturals have least elements, so the subsets of a
finite set can be treated by size, and both principles are stated about a *set* the
proof defines (`AllNat`, `AllSubsets`). From these follow that the recursive
function behind a fold exists (`RecursionExists`), that a fold stays in a set its
step stays in (`StaysIn`), and where sums and maxima lie (`SumIn`, `MaxIn`).

**Only model-checked.** Liveness (`HoldsResolve`, `CapturedMoneySettles`,
`RefundsComplete`, `RefundReported`, `OutboxEnds`, `NgoWorkEnds`,
`DepositsReturn`), which rests on fairness and ENABLED, which the provers do not
handle. Every other property of a passing run has a theorem.

## 5. What reading and checking brought up

Besides the findings, the following came up. Each is stated where the model
meets it (as an exception in a property, or a comment); none contradicts a line
of the repository's docs, so that none is a finding.

- `Membership`: two approvals of one volunteer are kept apart by a deadlock, not
  by their check; a join written between one's search for the others and its
  commit escapes (`crossed`), and an accepted invitation does not look for other
  memberships at all. leaveNGO looks for active tasks without a lock.
- `Capacity`: a hold past its deadline is not counted, and may still be paid; the
  account is then over its limit (`slipped`).
- `Sessions`: an answer overtaken by a later one puts an older token back into the
  cookie, and logging out with it clears the browser and leaves the row's token
  live, with nobody who has it.
- `Settlement`: a refund carried forward after a payment has its locks is locked
  by nobody and can be released by two payments (`late`). The database also has a
  CHECK that a settlement's paid amount stays within what is due
  (`providerPayout.service.js:230`); the model leaves it out, so that `NeverOverpaid`
  shows that the row locks suffice without it.
- `NgoTasks`: stock of a paid reservation whose activation failed, because its
  request was rejected meanwhile, is restored by nobody (`Stranded`). A handler
  that dies between its commit and its queue call leaves a task without a timeout
  (`forsaken`), or an ended reservation whose deposit nobody sends back
  (`unreturned`): completeTask refuses the retry, and no sweep looks for a refund
  that was never asked for.
- `Moderation`: withdrawing an appeal and reviewing its case lock the two rows in
  opposite orders (`moderation.service.js:1370`, `:1455`); PostgreSQL aborts one. The
  provider-fault refund is queued after the commit and lost with the process.
- `paymentReconciliation.service.js:2476`: an attempt abandoned after a declined try,
  whose order a later try pays, has no payment row, so that the money is never
  refunded. It needs an order paid whose row never committed (`EarlyPay`), which the
  liveness runs leave out: the checkout needs the session id of the lost answer.
- `reservation.controller.js:400`: the session transaction keeps a pooled
  connection during the gateway call, so that a slow gateway can drain the pool. The
  models have no pool and no time for a call to be slow in.
- `reservation.controller.js:1592`: reportProvider assigns `committed`, which it never
  declares, so that a failure after its commit is answered by a rollback.
- `compliance.service.js`: a request approved under a legal hold can neither be
  executed nor cancelled by a route, and blocks new requests of its kind.

## 6. Not modelled

- **Compliance requests** (`compliance.service.js`): each lives in one row, every
  transition locks it and decides on what the lock shows, an advisory lock keeps a
  second request out, and execution is one transaction nothing waits for. A model
  would restate its transition table.
- **Restrictions and abuse guard, OTP and rate limits**: counters in Redis or single
  statements with an expiry; nothing modelled reads them but as a refusal, which is
  left to chance.
- **Access tokens**: a signed claim checked against one column.
- **Orders over several reservations**: rows of one order move together in one
  transaction; PaymentHold has one. bulkReserve is modelled per listing, and its
  limits over listings in Capacity.
- **Free self-pickup reservations**: a hold transaction without a session, whose
  later steps are those of PaymentHold without the money.
- **Ledger, ownership and allocation snapshots** beyond what Settlement reads back:
  written once beside modelled transactions, under idempotency keys, and read by
  reports alone. Financial reconciliation compares and reports, it repairs nothing
  a modelled guard reads.
- **retainReliabilityDeposit over a listing** (`payment.service.js:454`): one
  deposit whose refund has begun makes it throw and rolls back the expiry of a
  whole listing. Refunds has one reservation per listing, where the same throw
  is the guard of `Expire`.
- **Notifications and push, realtime, reports, observability, health**: formatting,
  I/O and counters that nothing reads back.
- **Users, profiles, ratings, impact**: single-statement handlers.
- **Routes, validation, migrations, queue set-up, frontend**: no state of the domain,
  or set-up. What the modelled code takes from the schema (the payment transition
  trigger, two partial unique indexes) and from the browser (the shared cookie)
  is in the models.
