------------------------------ MODULE NgoTasks ------------------------------
(***************************************************************************)
(* How the food of ONE free listing reaches NGOs: providers ask NGOs to    *)
(* collect it, NGOs accept or reserve it themselves, with or without a     *)
(* reliability deposit, volunteers take the reservations as tasks, and two *)
(* timeout workers and the expiry worker end what nobody finishes.         *)
(*                                                                         *)
(* The deposit's way through the gateway is that of PaymentHold and is     *)
(* reduced here to an order that is paid or dies.  One action is one       *)
(* database transaction; the queue calls a handler makes after its commit  *)
(* are actions of their own, since the process can die before them.        *)
(* A definition whose comment says "as if" is a deliberate mistake, as in  *)
(* PaymentHold.                                                            *)
(***************************************************************************)
EXTENDS Integers, FiniteSets

CONSTANTS
    Res,       \* reservation rows that may be created
    NgoOf,     \* NgoOf[r]: the NGO that makes reservation r
    Reqs,      \* ngo_requests rows that may be created
    AskedOf,   \* AskedOf[q]: the NGO request q is sent to
    Vols,      \* volunteers
    Offered,   \* items of the listing
    Deposits,  \* what the trust policy may say of a deposit: values of BOOLEAN
    MaxStarts, \* bound: startTask requests a volunteer has under way at once
    MaxDeaths  \* bound: handlers that die between their commit and the queue

ASSUME ResAssumption == IsFiniteSet(Res)
ASSUME NoneAssumption == "none" \notin Reqs \cup Vols
ASSUME OfferAssumption ==
    Offered \in Nat \ {0} /\ Deposits \subseteq BOOLEAN /\ MaxDeaths \in Nat

VARIABLES
    left, listing,   \* food_listings: remaining_quantity, status
    clock,           \* 0, 1 = too late for a request, 2 = pickup window over
    req,             \* ngo_requests.status; "checked": the provider's handler
                     \* has made its checks and not yet inserted the row
    status, pay,     \* reservations: status, payment_status
    task, by,        \* task_status, assigned_volunteer_id
    qty, held,       \* quantity_reserved, payment_context.stock_reserved
    request,         \* payment_context.request_id
    deposit,         \* payments.reliability_deposit_status, "back" once the
                     \* refund that contains it is queued
    order,           \* the deposit's order at the gateway
    vol,             \* startTask requests of a volunteer past their check
    starting, confirming,  \* handlers between their commit and the queues
    pickupJob, deliveryJob,\* queued timeout jobs
    completed, timeouts,   \* volunteer_stats
    forsaken,              \* reservations whose handler died before its timeout
                           \* job was queued
    returning, unreturned  \* reservations whose handler has still to queue their
                           \* refund, or died before it did

listingVars == <<left, listing, clock>>
rowVars     == <<status, pay, task, by, qty, held, request>>
moneyVars   == <<deposit, order>>
jobVars     == <<starting, confirming, pickupJob, deliveryJob, forsaken>>
refundVars  == <<returning, unreturned>>
queueVars   == <<jobVars, refundVars>>
statVars    == <<completed, timeouts>>
vars == <<left, listing, clock, req, status, pay, task, by, qty, held, request,
          deposit, order, vol, starting, confirming, pickupJob, deliveryJob,
          completed, timeouts, forsaken, returning, unreturned>>

None       == "none"
ReqStates  == {"none", "checked", "pending", "accepted", "rejected", "expired"}
Statuses   == {"none", "payment_pending", "released", "reserved", "picked_up",
               "cancelled", "expired"}   \* released: any failed payment status
TaskStates == {"none", "pending", "in_progress", "picked_from_provider",
               "delivered", "failed", "expired"}
ActiveTask == {"in_progress", "picked_from_provider"}

-----------------------------------------------------------------------------
(* Predicates and stock.                                                    *)

\* ensureListingNotPreviouslyReserved: a live or cancelled reservation of the
\* NGO, or one that waits for its deposit
PreviouslyReserved(n) ==
    \E r \in Res : /\ NgoOf[r] = n
                   /\ \/ status[r] \in {"payment_pending", "reserved", "picked_up"}
                      \/ status[r] = "cancelled" /\ pay[r] # "failed"

Payable(r) == pay[r] \in {"paid", "not_required"}

\* restoreReservationStockIfHeld; as if the flag were left set
RestoreLeavingFlag(r) ==
    /\ left' = IF held[r] THEN left + qty[r] ELSE left
    /\ UNCHANGED <<held, listing>>

RestoreIfHeld(r) ==
    /\ held' = [held EXCEPT ![r] = FALSE]
    /\ left' = IF held[r] THEN left + qty[r] ELSE left
    /\ listing' = IF held[r] /\ listing = "completed" /\ clock < 2
                  THEN "active" ELSE listing

\* The items the reservations of S ask for, so that a sum is a cardinality
UnitsOf(S) == {u \in Res \X (1..Offered) : u[1] \in S /\ u[2] <= qty[u[1]]}

\* The request is accepted and its rivals for the listing expire.
Accepted(q) ==
    [p \in Reqs |-> IF p = q THEN "accepted"
                    ELSE IF req[p] = "pending" THEN "expired" ELSE req[p]]

-----------------------------------------------------------------------------
(* Requests of the provider.                                                *)

\* requestNGO checks and inserts in separate statements.
RequestChecked(q) ==
    /\ req[q] = "none" /\ clock = 0
    /\ ~\E r \in Res : NgoOf[r] = AskedOf[q] /\ status[r] \in {"reserved", "picked_up"}
    /\ ~\E p \in Reqs : AskedOf[p] = AskedOf[q] /\ req[p] = "pending"
    /\ req' = [req EXCEPT ![q] = "checked"]
    /\ UNCHANGED <<listingVars, rowVars, moneyVars, vol, queueVars, statVars>>

RequestInserted(q) ==
    /\ req[q] = "checked"
    /\ req' = [req EXCEPT ![q] = "pending"]
    /\ UNCHANGED <<listingVars, rowVars, moneyVars, vol, queueVars, statVars>>

RejectRequest(q) ==
    /\ req[q] = "pending"
    /\ req' = [req EXCEPT ![q] = "rejected"]
    /\ UNCHANGED <<listingVars, rowVars, moneyVars, vol, queueVars, statVars>>

-----------------------------------------------------------------------------
(* Reservations of NGOs.                                                    *)

\* reserveListingStock takes only what is there; as if it took without looking
AdmitsAny(k) == listing = "active" /\ k > 0

Admits(k) == listing = "active" /\ k \in 1..left

\* The new row, and with a deposit its payment session
Insert(r, k, q, dep) ==
    /\ status[r] = "none" /\ ~PreviouslyReserved(NgoOf[r])
    /\ Admits(k)
    /\ left' = left - k
    /\ listing' = IF left = k THEN "completed" ELSE listing
    /\ clock' = clock
    /\ status' = [status EXCEPT ![r] = IF dep THEN "payment_pending" ELSE "reserved"]
    /\ pay' = [pay EXCEPT ![r] = IF dep THEN "pending" ELSE "not_required"]
    /\ task' = [task EXCEPT ![r] = "pending"]
    /\ qty' = [qty EXCEPT ![r] = k] /\ held' = [held EXCEPT ![r] = TRUE]
    /\ request' = [request EXCEPT ![r] = q]
    /\ deposit' = [deposit EXCEPT ![r] = IF dep THEN "held" ELSE "none"]
    /\ order' = [order EXCEPT ![r] = IF dep THEN "active" ELSE "none"]
    /\ by' = by
    /\ UNCHANGED <<vol, queueVars, statVars>>

\* bulkReserve, for the listing's item of the order
BulkReserve(r, k, dep) ==
    /\ clock < 2
    /\ Insert(r, k, None, dep)
    /\ req' = req

\* acceptNGORequest takes everything that is left; with a deposit the request
\* stays pending until the deposit is paid
AcceptRequest(q, r, dep) ==
    /\ req[q] = "pending" /\ AskedOf[q] = NgoOf[r] /\ clock = 0
    /\ Insert(r, left, q, dep)
    /\ req' = IF dep THEN req ELSE Accepted(q)

-----------------------------------------------------------------------------
(* Deposits.                                                                *)

DepositPaid(r) ==
    /\ order[r] = "active"
    /\ order' = [order EXCEPT ![r] = "paid"]
    /\ UNCHANGED <<listingVars, req, rowVars, deposit, vol, queueVars, statVars>>

\* releasePendingPaymentReservation, for a timeout, a failure or the NGO
ReleaseHold(r) ==
    /\ status[r] = "payment_pending"
    /\ RestoreIfHeld(r)
    /\ status' = [status EXCEPT ![r] = "released"]
    /\ pay' = [pay EXCEPT ![r] = "failed"]
    /\ UNCHANGED <<clock, req, task, by, qty, request, moneyVars, vol, queueVars,
                   statVars>>

\* activatePendingReservation: with a request, only while that is pending
ActivateAnyway(r) ==   \* as if the request were not looked at
    /\ req' = req
    /\ status' = [status EXCEPT ![r] = "reserved"]
    /\ pay' = [pay EXCEPT ![r] = "paid"]
    /\ returning' = returning

Activate(r) ==
    /\ request[r] # None => req[request[r]] = "pending"
    /\ req' = IF request[r] = None THEN req ELSE Accepted(request[r])
    /\ status' = [status EXCEPT ![r] = "reserved"]
    /\ pay' = [pay EXCEPT ![r] = "paid"]
    /\ returning' = returning

\* The catch of processPaidOrder: a refund, without a word about the stock
ActivationFails(r) ==
    /\ request[r] # None /\ req[request[r]] # "pending"
    /\ status' = [status EXCEPT ![r] = "cancelled"]
    /\ pay' = [pay EXCEPT ![r] = "refund_pending"]
    /\ returning' = returning \cup {r}
    /\ req' = req

\* processPaidOrder for a deposit; a late one is refunded
ProcessPaid(r) ==
    /\ order[r] = "paid"
    /\ \/ status[r] = "payment_pending" /\ (Activate(r) \/ ActivationFails(r))
       \/ /\ status[r] = "released"
          /\ status' = [status EXCEPT ![r] = "cancelled"]
          /\ pay' = [pay EXCEPT ![r] = "refund_pending"]
          /\ returning' = returning \cup {r}
          /\ req' = req
    /\ UNCHANGED <<listingVars, task, by, qty, held, request, moneyVars, vol, jobVars,
                   unreturned, statVars>>

\* processPaidOrder, when another event or the sweep says again that the order of
\* a cancelled reservation is paid: its refund is asked for again.  Once a refund
\* is queued its job id keeps a second one out.
PaidAgain(r) ==
    /\ order[r] = "paid" /\ status[r] = "cancelled" /\ deposit[r] = "held"
    /\ returning' = returning \cup {r}
    /\ UNCHANGED <<listingVars, req, rowVars, moneyVars, vol, jobVars, unreturned,
                   statVars>>

\* cancelReservation by the NGO, before a volunteer has started
CancelNgo(r) ==
    /\ status[r] = "reserved" /\ task[r] = "pending"
    /\ RestoreIfHeld(r)
    /\ status' = [status EXCEPT ![r] = "cancelled"]
    /\ pay' = [pay EXCEPT ![r] = IF pay[r] = "paid" THEN "refund_pending" ELSE pay[r]]
    /\ returning' = IF pay[r] = "paid" THEN returning \cup {r} ELSE returning
    /\ UNCHANGED <<clock, req, task, by, qty, request, moneyVars, vol, jobVars, unreturned,
                   statVars>>

\* After the commit that ends a reservation: completeTask takes the delivery job
\* away, and every handler queues the refund (of nothing, without a deposit); as
\* if it were forgotten.
ForgetRefund(r) ==
    /\ r \in returning
    /\ returning' = returning \ {r}
    /\ deliveryJob' = deliveryJob \ {r}
    /\ UNCHANGED <<listingVars, req, rowVars, moneyVars, vol, starting, confirming,
                   pickupJob, forsaken, unreturned, statVars>>

QueueRefund(r) ==
    /\ r \in returning
    /\ returning' = returning \ {r}
    /\ deliveryJob' = deliveryJob \ {r}
    /\ deposit' = [deposit EXCEPT ![r] = IF @ = "held" THEN "back" ELSE @]
    /\ UNCHANGED <<listingVars, req, rowVars, order, vol, starting, confirming,
                   pickupJob, forsaken, unreturned, statVars>>

Deaths == Cardinality(forsaken) + Cardinality(unreturned)

\* The handler dies, or a call to Redis fails, before the refund is queued.
RefundUnqueued(r) ==
    /\ Deaths < MaxDeaths
    /\ r \in returning
    /\ returning' = returning \ {r} /\ unreturned' = unreturned \cup {r}
    /\ deliveryJob' \in {deliveryJob, deliveryJob \ {r}}
    /\ UNCHANGED <<listingVars, req, rowVars, moneyVars, vol, starting, confirming,
                   pickupJob, forsaken, statVars>>

-----------------------------------------------------------------------------
(* Tasks.                                                                   *)

Busy(v) == \E r \in Res : by[r] = v /\ status[r] = "reserved" /\ task[r] \in ActiveTask

\* startTask looks for another active task before it locks anything
StartChecked(v) ==
    /\ vol[v] < MaxStarts /\ ~Busy(v)
    /\ vol' = [vol EXCEPT ![v] = @ + 1]
    /\ UNCHANGED <<listingVars, req, rowVars, moneyVars, queueVars, statVars>>

\* unique_volunteer_active_task, the index that makes the UPDATE fail
NoIndex(v) == TRUE   \* as if migration 003 had not run

IndexAdmits(v) == ~\E r \in Res : by[r] = v /\ task[r] \in ActiveTask

StartTask(v, r) ==
    /\ vol[v] > 0
    /\ status[r] = "reserved" /\ Payable(r) /\ task[r] = "pending"
    /\ IndexAdmits(v)
    /\ task' = [task EXCEPT ![r] = "in_progress"]
    /\ by' = [by EXCEPT ![r] = v]
    /\ starting' = starting \cup {r}
    /\ vol' = [vol EXCEPT ![v] = @ - 1]
    /\ UNCHANGED <<listingVars, req, status, pay, qty, held, request, moneyVars,
                   confirming, pickupJob, deliveryJob, forsaken, refundVars, statVars>>

\* The task was taken meanwhile, or the index refused it: 409.
StartRefused(v) ==
    /\ vol[v] > 0
    /\ vol' = [vol EXCEPT ![v] = @ - 1]
    /\ UNCHANGED <<listingVars, req, rowVars, moneyVars, queueVars, statVars>>

\* startTask after its commit
SchedulePickup(r) ==
    /\ r \in starting
    /\ starting' = starting \ {r}
    /\ pickupJob' = pickupJob \cup {r}
    /\ UNCHANGED <<listingVars, req, rowVars, moneyVars, vol, confirming, deliveryJob,
                   forsaken, refundVars, statVars>>

\* markAsPickedUp of an NGO's reservation
ConfirmPickup(r) ==
    /\ status[r] = "reserved" /\ Payable(r) /\ task[r] = "in_progress"
    /\ task' = [task EXCEPT ![r] = "picked_from_provider"]
    /\ confirming' = confirming \cup {r}
    /\ UNCHANGED <<listingVars, req, status, pay, by, qty, held, request, moneyVars,
                   vol, starting, pickupJob, deliveryJob, forsaken, refundVars, statVars>>

\* markAsPickedUp after its commit: the pickup job goes, if it is there yet;
\* as if the delivery job were not added
UnscheduledDelivery(r) ==
    /\ r \in confirming
    /\ confirming' = confirming \ {r}
    /\ pickupJob' = pickupJob \ {r}
    /\ UNCHANGED <<listingVars, req, rowVars, moneyVars, vol, starting, deliveryJob,
                   forsaken, refundVars, statVars>>

ScheduleDelivery(r) ==
    /\ r \in confirming
    /\ confirming' = confirming \ {r}
    /\ pickupJob' = pickupJob \ {r}
    /\ deliveryJob' = deliveryJob \cup {r}
    /\ UNCHANGED <<listingVars, req, rowVars, moneyVars, vol, starting, forsaken,
                   refundVars, statVars>>

\* startTask or markAsPickedUp dies, or a call to Redis fails, after its commit
\* and before the timeout job is queued.
HandlerDies(r) ==
    /\ Deaths < MaxDeaths
    /\ \/ r \in starting /\ starting' = starting \ {r}
          /\ UNCHANGED <<confirming, pickupJob>>
       \/ r \in confirming /\ confirming' = confirming \ {r}
          /\ pickupJob' \in {pickupJob, pickupJob \ {r}} /\ starting' = starting
    /\ forsaken' = forsaken \cup {r}
    /\ UNCHANGED <<listingVars, req, rowVars, moneyVars, vol, deliveryJob, refundVars,
                   statVars>>

\* completeTask up to its commit
CompleteTask(r) ==
    /\ status[r] = "reserved" /\ Payable(r) /\ task[r] = "picked_from_provider"
    /\ task' = [task EXCEPT ![r] = "delivered"]
    /\ status' = [status EXCEPT ![r] = "picked_up"]
    /\ completed' = [completed EXCEPT ![by[r]] = @ + 1]
    /\ returning' = returning \cup {r}
    /\ UNCHANGED <<listingVars, req, pay, by, qty, held, request, moneyVars, vol, jobVars,
                   unreturned, timeouts>>

\* A task fails: penalty and, where there is a deposit, its retention; as if
\* the deposit were forgotten
FailOnly(r) ==
    /\ status' = [status EXCEPT ![r] = "expired"]
    /\ task' = [task EXCEPT ![r] = "failed"]
    /\ timeouts' = [timeouts EXCEPT ![by[r]] = @ + 1]
    /\ UNCHANGED <<clock, req, pay, by, qty, request, moneyVars, vol, starting,
                   confirming, completed, forsaken, refundVars>>

Fail(r) ==
    /\ status' = [status EXCEPT ![r] = "expired"]
    /\ task' = [task EXCEPT ![r] = "failed"]
    /\ timeouts' = [timeouts EXCEPT ![by[r]] = @ + 1]
    /\ deposit' = [deposit EXCEPT ![r] = IF @ = "held" THEN "retained" ELSE @]
    /\ UNCHANGED <<clock, req, pay, by, qty, request, order, vol, starting, confirming,
                   completed, forsaken, refundVars>>

\* The pickup timeout worker; as if it did not look at the row again
OverduePickupUnchecked(r) == r \in pickupJob /\ by[r] # None

OverduePickup(r) == /\ r \in pickupJob
                    /\ status[r] = "reserved" /\ task[r] = "in_progress"

PickupTimeout(r) ==
    /\ OverduePickup(r)
    /\ RestoreIfHeld(r)
    /\ Fail(r)
    /\ pickupJob' = pickupJob \ {r} /\ deliveryJob' = deliveryJob

\* The delivery timeout worker's test; as if it did not look at the row again
OverdueDeliveryUnchecked(r) == r \in deliveryJob

OverdueDelivery(r) == /\ r \in deliveryJob
                      /\ status[r] = "reserved" /\ task[r] = "picked_from_provider"

\* The delivery timeout worker: the food is gone, nothing goes back.
DeliveryTimeout(r) ==
    /\ OverdueDelivery(r)
    /\ Fail(r)
    /\ deliveryJob' = deliveryJob \ {r} /\ pickupJob' = pickupJob
    /\ UNCHANGED <<left, listing, held>>

\* A timeout job that finds the task decided
StaleTimeout(r) ==
    /\ \/ r \in pickupJob /\ ~OverduePickup(r) /\ pickupJob' = pickupJob \ {r}
          /\ deliveryJob' = deliveryJob
       \/ r \in deliveryJob /\ ~OverdueDelivery(r) /\ deliveryJob' = deliveryJob \ {r}
          /\ pickupJob' = pickupJob
    /\ UNCHANGED <<listingVars, req, rowVars, moneyVars, vol, starting, confirming,
                   forsaken, refundVars, statVars>>

-----------------------------------------------------------------------------
(* The end of the pickup window.                                            *)

Tick ==
    /\ clock < 2 /\ clock' = clock + 1
    /\ UNCHANGED <<left, listing, req, rowVars, moneyVars, vol, queueVars, statVars>>

\* The expiry worker: reservations no volunteer has started.
Expiring == {r \in Res : status[r] = "reserved" /\ task[r] = "pending"}

ExpireListing ==
    /\ clock = 2 /\ listing \in {"active", "completed"}
    /\ listing' = "expired"
    /\ left' = left + Cardinality(UnitsOf(Expiring))
    /\ status' = [r \in Res |-> IF r \in Expiring THEN "expired" ELSE status[r]]
    /\ task' = [r \in Res |-> IF r \in Expiring THEN "expired" ELSE task[r]]
    /\ deposit' = [r \in Res |-> IF r \in Expiring /\ deposit[r] = "held"
                                 THEN "retained" ELSE deposit[r]]
    /\ req' = [q \in Reqs |-> IF req[q] = "pending" THEN "expired" ELSE req[q]]
    /\ UNCHANGED <<clock, pay, by, qty, held, request, order, vol, queueVars, statVars>>

-----------------------------------------------------------------------------
Init ==
    /\ left = Offered /\ listing = "active" /\ clock = 0
    /\ req = [q \in Reqs |-> "none"]
    /\ status = [r \in Res |-> "none"] /\ pay = [r \in Res |-> "none"]
    /\ task = [r \in Res |-> "none"] /\ by = [r \in Res |-> None]
    /\ qty = [r \in Res |-> 0] /\ held = [r \in Res |-> FALSE]
    /\ request = [r \in Res |-> None]
    /\ deposit = [r \in Res |-> "none"] /\ order = [r \in Res |-> "none"]
    /\ vol = [v \in Vols |-> 0]
    /\ starting = {} /\ confirming = {} /\ pickupJob = {} /\ deliveryJob = {}
    /\ completed = [v \in Vols |-> 0] /\ timeouts = [v \in Vols |-> 0]
    /\ forsaken = {} /\ returning = {} /\ unreturned = {}

RequestStep == \E q \in Reqs : RequestChecked(q) \/ RequestInserted(q) \/ RejectRequest(q)

ReserveStep(r) ==
    \E dep \in Deposits : \/ \E k \in 1..Offered : BulkReserve(r, k, dep)
                          \/ \E q \in Reqs : AcceptRequest(q, r, dep)

MoneyStep(r) == DepositPaid(r) \/ ReleaseHold(r) \/ ProcessPaid(r) \/ CancelNgo(r)

VolunteerStep == \E v \in Vols : \/ StartChecked(v) \/ StartRefused(v)
                                 \/ \E r \in Res : StartTask(v, r)

TaskStep(r) == \/ SchedulePickup(r) \/ ConfirmPickup(r) \/ ScheduleDelivery(r)
               \/ HandlerDies(r) \/ CompleteTask(r)

TimeoutStep(r) == PickupTimeout(r) \/ DeliveryTimeout(r) \/ StaleTimeout(r)

ReturnStep(r) == PaidAgain(r) \/ QueueRefund(r) \/ RefundUnqueued(r)

Next == \/ RequestStep \/ VolunteerStep \/ Tick \/ ExpireListing
        \/ \E r \in Res : \/ ReserveStep(r) \/ MoneyStep(r) \/ TaskStep(r)
                          \/ TimeoutStep(r) \/ ReturnStep(r)

Spec == Init /\ [][Next]_vars

\* A live process goes on to its queue calls, BullMQ runs due jobs, the expiry
\* job runs once the window is over, and the timeout job and the webhook
\* decide a deposit.  Volunteers, NGOs and providers need not act.
Fairness ==
    /\ WF_vars(Tick) /\ WF_vars(ExpireListing)
    /\ \A r \in Res : /\ WF_vars(SchedulePickup(r)) /\ WF_vars(ScheduleDelivery(r))
                      /\ WF_vars(PickupTimeout(r)) /\ WF_vars(DeliveryTimeout(r))
                      /\ WF_vars(ReleaseHold(r) \/ ProcessPaid(r))
                      /\ WF_vars(QueueRefund(r))

FairSpec == Spec /\ Fairness

-----------------------------------------------------------------------------
(* Invariants.                                                              *)

\* Every column and process variable keeps to the values the schema and the
\* handlers know; the remaining quantity is never negative.
TypeOK ==
    /\ left \in Nat /\ listing \in {"active", "completed", "expired"} /\ clock \in 0..2
    /\ req \in [Reqs -> ReqStates]
    /\ status \in [Res -> Statuses] /\ task \in [Res -> TaskStates]
    /\ pay \in [Res -> {"none", "pending", "failed", "paid", "not_required",
                        "refund_pending"}]
    /\ by \in [Res -> Vols \cup {None}] /\ request \in [Res -> Reqs \cup {None}]
    /\ qty \in [Res -> 0..Offered] /\ held \in [Res -> BOOLEAN]
    /\ deposit \in [Res -> {"none", "held", "retained", "back"}]
    /\ order \in [Res -> {"none", "active", "paid"}]
    /\ vol \in [Vols -> Nat]
    /\ starting \subseteq Res /\ confirming \subseteq Res
    /\ pickupJob \subseteq Res /\ deliveryJob \subseteq Res
    /\ completed \in [Vols -> Nat] /\ timeouts \in [Vols -> Nat] /\ forsaken \subseteq Res
    /\ returning \subseteq Res /\ unreturned \subseteq Res

\* A volunteer never has two tasks at once, however many startTask requests
\* passed the unlocked check together, and a task in progress always has a
\* volunteer who answers for it.
OneTaskEach ==
    \A r, s \in Res : task[r] \in ActiveTask =>
        /\ by[r] \in Vols
        /\ task[s] \in ActiveTask /\ by[s] = by[r] => s = r

\* Each task is counted once: a volunteer's statistics are the tasks they
\* delivered and the tasks they failed, whichever of confirmation, delivery
\* and timeouts came first.
StatisticsAgree ==
    \A v \in Vols :
        /\ completed[v] = Cardinality({r \in Res : by[r] = v /\ task[r] = "delivered"})
        /\ timeouts[v] = Cardinality({r \in Res : by[r] = v /\ task[r] = "failed"})

\* The platform keeps a deposit exactly when the reservation it secured failed
\* or expired, and sends it back only otherwise.  That of a reservation that was
\* served or cancelled is untouched only while its handler has yet to queue the
\* refund, or if the handler died between its commit and that call.
DepositFollowsTask ==
    \A r \in Res :
        /\ deposit[r] = "retained" => status[r] = "expired"
        /\ deposit[r] = "back" => status[r] \in {"picked_up", "cancelled"}
        /\ status[r] = "expired" => deposit[r] # "held"
        /\ status[r] \in {"picked_up", "cancelled"} /\ deposit[r] = "held"
              => r \in returning \cup unreturned

\* An accepted request is one whose reservation was confirmed, and a confirmed
\* reservation made from a request has that request accepted: a request
\* rejected, expired or lost to a rival while its deposit was being paid never
\* yields food.
RequestsAgree ==
    /\ \A r \in Res : status[r] \in {"reserved", "picked_up", "expired"}
                      /\ request[r] # None => req[request[r]] = "accepted"
    /\ \A q \in Reqs : req[q] = "accepted" =>
          \E r \in Res : request[r] = q /\ pay[r] \in {"paid", "not_required", "refund_pending"}

\* Every item is left, held by somebody, handed to a volunteer, or belongs to
\* a paid reservation whose activation failed, which nobody restores.
IsStranded(r) == status[r] = "cancelled" /\ held[r]
IsAway(r) == \/ status[r] \in {"payment_pending", "reserved", "picked_up"}
             \/ status[r] = "expired" /\ task[r] = "failed" /\ held[r]
Stranded == {r \in Res : IsStranded(r)}
Away     == {r \in Res : IsAway(r)}
ItemsAccounted ==
    left + Cardinality(UnitsOf(Away \cup Stranded)) = Offered

-----------------------------------------------------------------------------
(* Refinement: requests, deposits, tasks and timeouts keep the listing's    *)
(* stock as StockLedger promises.                                           *)

LedgerPhase == [r \in Res |-> IF status[r] = "none" THEN "new"
                              ELSE IF IsAway(r) \/ IsStranded(r) THEN "taken" ELSE "closed"]

Ledger == INSTANCE StockLedger WITH offered <- Offered, shelf <- left,
                                    taken <- qty, phase <- LedgerPhase

\* The food of an NGO's reservation is taken once and goes back at most once,
\* through whichever of cancellation, failed deposit, pickup timeout and expiry
\* ends it first.
KeepsLedger == Ledger!Spec

-----------------------------------------------------------------------------
(* Action and liveness properties.                                          *)

Over == {"delivered", "failed", "expired"}

\* Once a task is delivered, failed or expired, nothing that arrives late (a
\* timeout, a confirmation, a payment event, the end of the window) changes
\* the reservation, its volunteer or its deposit; but the handler that delivered
\* it sends the deposit back.
DecidedOnce ==
    [][\A r \in Res : task[r] \in Over =>
          /\ task'[r] = task[r] /\ status'[r] = status[r] /\ by'[r] = by[r]
          /\ \/ deposit'[r] = deposit[r]
             \/ r \in returning /\ deposit[r] = "held" /\ deposit'[r] = "back"]_vars

\* A started task ends, and the volunteer is not blocked for ever by the
\* one-task rule, unless the handler died between its commit and the queue call
\* that starts the clock of this very task.
TimedTasksEnd ==
    \A r \in Res : task[r] \in ActiveTask ~> task[r] \notin ActiveTask \/ r \in forsaken

\* A hold ends, and a reservation made while the listing was offered is decided
\* once the pickup window is over.  (A deposit paid after the expiry worker ran
\* activates a reservation that no job visits again, as in PaymentHold.)
ReservationsEnd ==
    \A r \in Res :
        /\ status[r] = "payment_pending" ~> status[r] # "payment_pending"
        /\ status[r] = "reserved" /\ listing # "expired"
              ~> status[r] # "reserved" \/ r \in forsaken

\* A deposit that is to go back goes back, unless its handler died between the
\* commit that says so and the queue call: no sweep looks for it, and only
\* another event about the order of a cancelled reservation would ask again.
DepositsReturn ==
    \A r \in Res : status[r] \in {"picked_up", "cancelled"} /\ deposit[r] = "held"
                   ~> deposit[r] = "back" \/ r \in unreturned

\* The work of NGOs and volunteers comes to an end: tasks and reservations do.
NgoWorkEnds == TimedTasksEnd /\ ReservationsEnd

=============================================================================
