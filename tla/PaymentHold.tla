----------------------------- MODULE PaymentHold -----------------------------
(***************************************************************************)
(* The life of paid self-pickup reservations of ONE food listing: the      *)
(* stock hold taken before payment, the payment session opened at the      *)
(* Cashfree gateway, the webhooks, timeouts and sweeps that decide its     *)
(* fate, cancellation, refund, pickup, and the provider's edits of the     *)
(* listing.                                                                *)
(*                                                                         *)
(* A definition whose comment says "as if" is a deliberate mistake: put in *)
(* the place of the definition that follows it, it shows that a property   *)
(* the runs check would notice.                                            *)
(*                                                                         *)
(* One action is one database transaction (or one autocommitted statement, *)
(* or one gateway call): PostgreSQL row locks make each of them atomic,    *)
(* and everything that happens between two of them may interleave.         *)
(* Backend paths in the comments are relative to src/Food_waste_backend.   *)
(***************************************************************************)
EXTENDS Items

CONSTANTS
    Users,       \* customers
    UserOf,      \* UserOf[r]: the customer who asks for reservation r
    Quantities,  \* quantities the provider may give the listing
    Copies,      \* idempotency keys under which one gateway event is notified
    FaultKinds,  \* which of the faults below may happen
    MaxFaults,   \* bound: faults in one behaviour
    MaxEdits,    \* bound: provider edits in one behaviour
    EarlyPay,    \* may an order be paid whose payment row was never committed?
    GatewayFails,\* may a read of an order that exists fail?
    Recovery     \* do the sweeps for lost initializations and attempts run?

Faults == {"session", "crash", "cleanup", "commit", "enqueue"}

ASSUME UserAssumption   == UserOf \in [Res -> Users]
ASSUME StockAssumption  == Quantities \subseteq Nat \ {0}
ASSUME BoundsAssumption == MaxFaults \in Nat /\ MaxEdits \in Nat
ASSUME FaultAssumption  == FaultKinds \subseteq Faults
ASSUME GatewayAssumption ==
    EarlyPay \in BOOLEAN /\ GatewayFails \in BOOLEAN /\ Recovery \in BOOLEAN

VARIABLES
    (* food_listings *)
    quantity,      \* quantity offered by the provider
    remaining,     \* remaining_quantity
    listing,       \* status
    clock,         \* now relative to pickup_end_time: 0, 1 = past the
                   \* cancellation cutoff, 2 = pickup window over
    (* reservations *)
    status,        \* status ("none": the row does not exist)
    payStatus,     \* payment_status
    held,          \* payment_context.stock_reserved
    initializing,  \* payment_context.payment_initializing
    overdue,       \* the hold's deadline has passed
    (* payments, payment_order_attempts *)
    payment,       \* payments.status ("none": no row)
    refundId,      \* payments.refund_id is set
    attempt,       \* payment_order_attempts.status
    session,       \* payment_session_id is set on the attempt
    attemptOld,    \* the attempt's updated_at is over ten minutes old
    (* gateway, processes, queues *)
    order,         \* the order at Cashfree
    notices,       \* webhook deliveries on their way
    creator,       \* the createReservation request of r
    reads,         \* what payment workers have read and not yet applied:
                   \* <<reservation, by which sweep, what it saw>>
    refundJob,     \* BullMQ job refund-<r>
    faults, edits  \* counters for the bounds

listingVars  == <<quantity, remaining, listing, clock>>
stockVars    == <<remaining, listing, held>>
rowVars      == <<status, payStatus, initializing>>
attemptVars  == <<attempt, session, attemptOld>>
boundVars    == <<faults, edits>>
vars == <<quantity, remaining, listing, clock, status, payStatus, held,
          initializing, overdue, payment, refundId, attempt, session,
          attemptOld, order, notices, creator, reads, refundJob, faults, edits>>

ListingStatuses == {"active", "completed", "expired", "deleted"}
Released == {"payment_failed", "expired_payment", "cancelled_before_confirmation"}
Statuses == {"none", "payment_pending", "reserved", "picked_up", "cancelled",
             "expired"} \cup Released
RefundStates == {"refund_pending", "refunded", "refund_failed"}
PayStatuses  == {"none", "pending", "paid", "failed", "expired"} \cup RefundStates
AttemptStatuses == {"none", "creating", "gateway_created", "db_inserted",
    "committed", "recovery_pending", "failed", "abandoned", "recovered"}
OrderStates   == {"absent", "active", "declined", "paid", "expired"}
CreatorStates == {"idle", "held", "calling", "created", "marked", "cleanup", "done"}
Views         == {"paid", "failed", "expired", "pending", "unknown"}
Sweeps        == {"session", "attempt", "restore", "init"}

-----------------------------------------------------------------------------
(* Predicates on rows.                                                      *)

\* pendingPaymentReservationWhere
Pending(r) == status[r] = "payment_pending" /\ payStatus[r] = "pending"

\* blockingReservationWhere, over the statuses a self pickup goes through
Blocking(r) == status[r] \in {"reserved", "picked_up"}

\* ensureListingNotPreviouslyReserved; as if holds did not count
PreviouslyReservedUnpaid(u) == \E s \in Res : UserOf[s] = u /\ Blocking(s)

PreviouslyReserved(u) ==
    \E s \in Res : /\ UserOf[s] = u
                   /\ \/ Blocking(s)
                      \/ Pending(s)
                      \/ /\ status[s] = "cancelled"
                         /\ payStatus[s] \in {"paid"} \cup RefundStates

\* The session transaction holds the reservation's row lock while it calls
\* the gateway.
RowLocked(r) == creator[r] \in {"calling", "created", "marked"}

Fault(kind) == /\ kind \in FaultKinds
               /\ faults < MaxFaults
               /\ faults' = faults + 1
               /\ edits' = edits

-----------------------------------------------------------------------------
(* Stock.                                                                   *)

\* reserveListingStock (the caller has checked remaining_quantity)
TakeStock(r) ==
    /\ remaining' = remaining - Qty[r]
    /\ listing' = IF remaining = Qty[r] THEN "completed" ELSE listing
    /\ held' = [held EXCEPT ![r] = TRUE]

\* restoreReservationStockIfHeld and restoreListingStock; as if the flag of a
\* reservation that gave its stock back were left set
RestoreLeavingFlag(r) ==
    /\ remaining' = IF held[r] THEN remaining + Qty[r] ELSE remaining
    /\ UNCHANGED <<held, listing>>

RestoreIfHeld(r) ==
    /\ held' = [held EXCEPT ![r] = FALSE]
    /\ remaining' = IF held[r] THEN remaining + Qty[r] ELSE remaining
    /\ listing' = IF held[r] /\ listing = "completed" /\ clock < 2
                  THEN "active" ELSE listing

\* releasePendingPaymentReservation, once its guards hold; to is the payment
\* status, into the reservation status.
Release(r, to, into) ==
    /\ RestoreIfHeld(r)
    /\ payment' = [payment EXCEPT ![r] = IF @ = "pending" THEN to ELSE @]
    /\ status' = [status EXCEPT ![r] = into]
    /\ payStatus' = [payStatus EXCEPT ![r] = to]

\* The reservation is failed if it is still pending, its payment row, if there
\* is one, left as it is (cancelPaymentInitializationHold and
\* restoreAttemptReservationsWithoutPaymentRows).
FailRows(r) ==
    /\ RestoreIfHeld(r)
    /\ status' = [status EXCEPT ![r] = "payment_failed"]
    /\ payStatus' = [payStatus EXCEPT ![r] = "failed"]
    /\ initializing' = [initializing EXCEPT ![r] = FALSE]

FailHoldBlindly(r) == FailRows(r)   \* as if the row were not checked again

FailHold(r) ==
    IF Pending(r) THEN FailRows(r) ELSE UNCHANGED <<stockVars, rowVars>>

\* refundQueue.add after the commit: an existing job of the same id, also a
\* finished one still retained, makes it a no-op; its failure is only logged,
\* and a crash before it loses it.
Enqueue(r) ==
    \/ /\ refundJob' = [refundJob EXCEPT ![r] = "queued"]
       /\ UNCHANGED boundVars
    \/ /\ refundJob[r] = "done"
       /\ UNCHANGED <<refundJob, boundVars>>
    \/ /\ Fault("enqueue")
       /\ refundJob' = refundJob

EnqueueIf(cond, r) ==
    IF cond THEN Enqueue(r) ELSE UNCHANGED <<refundJob, boundVars>>

-----------------------------------------------------------------------------
(* createReservation: the hold, then the payment session.                   *)

Available(r) == listing = "active" /\ clock < 2 /\ remaining >= Qty[r]

Reserve(r) ==
    /\ creator[r] = "idle"
    /\ Available(r)
    /\ ~PreviouslyReserved(UserOf[r])
    /\ TakeStock(r)
    /\ status' = [status EXCEPT ![r] = "payment_pending"]
    /\ payStatus' = [payStatus EXCEPT ![r] = "pending"]
    /\ initializing' = [initializing EXCEPT ![r] = TRUE]
    /\ creator' = [creator EXCEPT ![r] = "held"]
    /\ UNCHANGED <<quantity, clock, overdue, payment, refundId, attemptVars,
                   order, notices, reads, refundJob, boundVars>>

\* The session transaction locks the row, checks it is still pending and
\* records the attempt on its own connection.
BeginSession(r) ==
    /\ creator[r] = "held"
    /\ IF Pending(r)
       THEN /\ creator' = [creator EXCEPT ![r] = "calling"]
            /\ attempt' = [attempt EXCEPT ![r] = "creating"]
            /\ attemptOld' = [attemptOld EXCEPT ![r] = FALSE]
       ELSE /\ creator' = [creator EXCEPT ![r] = "cleanup"]
            /\ UNCHANGED <<attempt, attemptOld>>
    /\ UNCHANGED <<listingVars, rowVars, held, overdue, payment, refundId,
                   session, order, notices, reads, refundJob, boundVars>>

\* cashfree.PGCreateOrder takes effect at the gateway
GatewayCreates(r) ==
    /\ creator[r] = "calling"
    /\ order' = [order EXCEPT ![r] = "active"]
    /\ creator' = [creator EXCEPT ![r] = "created"]
    /\ UNCHANGED <<listingVars, rowVars, held, overdue, payment, refundId,
                   attemptVars, notices, reads, refundJob, boundVars>>

\* markPaymentOrderAttemptGatewayCreated
MarkCreated(r) ==
    /\ creator[r] = "created"
    /\ attempt' = [attempt EXCEPT ![r] = "gateway_created"]
    /\ session' = [session EXCEPT ![r] = TRUE]
    /\ attemptOld' = [attemptOld EXCEPT ![r] = FALSE]
    /\ creator' = [creator EXCEPT ![r] = "marked"]
    /\ UNCHANGED <<listingVars, rowVars, held, overdue, payment, refundId,
                   order, notices, reads, refundJob, boundVars>>

\* The payment row, the attempt and the reservation's new deadline commit.
SessionRows(r) ==
    /\ creator[r] = "marked"
    /\ payment' = [payment EXCEPT ![r] = "pending"]
    /\ attempt' = [attempt EXCEPT ![r] =
           IF @ \in {"creating", "gateway_created", "recovery_pending"}
           THEN "db_inserted" ELSE @]
    /\ attemptOld' = [attemptOld EXCEPT ![r] = FALSE]
    /\ initializing' = [initializing EXCEPT ![r] = FALSE]
    /\ overdue' = [overdue EXCEPT ![r] = FALSE]
    /\ UNCHANGED <<listingVars, status, payStatus, held, refundId, session,
                   order, notices, reads, refundJob>>

CommitSession(r) ==
    /\ SessionRows(r)
    /\ creator' = [creator EXCEPT ![r] = "done"]
    /\ UNCHANGED boundVars

\* COMMIT took effect but its answer was lost: the request cleans up.
CommitUnacknowledged(r) ==
    /\ SessionRows(r)
    /\ creator' = [creator EXCEPT ![r] = "cleanup"]
    /\ Fault("commit")

\* createPayment's catch: the gateway refused, its answer was lost, or a
\* statement failed; the attempt, if it was recorded, is marked and the
\* transaction rolls back.
SessionError(r) ==
    /\ creator[r] = "held" \/ RowLocked(r)
    /\ IF creator[r] = "held"
       THEN UNCHANGED <<attempt, attemptOld>>
       ELSE /\ attempt' = [attempt EXCEPT ![r] =
                   IF session[r] THEN "recovery_pending" ELSE "failed"]
            /\ attemptOld' = [attemptOld EXCEPT ![r] = FALSE]
    /\ creator' = [creator EXCEPT ![r] = "cleanup"]
    /\ Fault("session")
    /\ UNCHANGED <<listingVars, rowVars, held, overdue, payment, refundId,
                   session, order, notices, reads, refundJob>>

\* cancelPaymentInitializationHold
CleanupHold(r) ==
    /\ creator[r] = "cleanup"
    /\ creator' = [creator EXCEPT ![r] = "done"]
    /\ FailHold(r)
    /\ UNCHANGED <<quantity, clock, overdue, payment, refundId, attemptVars,
                   order, notices, reads, refundJob, boundVars>>

\* The request stops: the process dies, or the cleanup itself fails ("Payment
\* initialization cleanup failed").  Open transactions roll back.
RequestDies(r) ==
    /\ \/ creator[r] \notin {"idle", "done"} /\ Fault("crash")
       \/ creator[r] = "cleanup" /\ Fault("cleanup")
    /\ creator' = [creator EXCEPT ![r] = "done"]
    /\ UNCHANGED <<listingVars, rowVars, held, overdue, payment, refundId,
                   attemptVars, order, notices, reads, refundJob>>

-----------------------------------------------------------------------------
(* The gateway (external).                                                  *)

Payable(r) == order[r] \in {"active", "declined"}
              /\ (payment[r] # "none" \/ (EarlyPay /\ session[r] /\ ~RowLocked(r)))

Notify(r, kind) == notices' = notices \cup ({r} \X {kind} \X Copies)

CustomerPays(r) ==
    /\ Payable(r)
    /\ order' = [order EXCEPT ![r] = "paid"]
    /\ Notify(r, "paid")
    /\ UNCHANGED <<listingVars, rowVars, held, overdue, payment, refundId,
                   attemptVars, creator, reads, refundJob, boundVars>>

\* A declined try; the order can still be paid by a later one.
CustomerDeclined(r) ==
    /\ Payable(r) /\ order[r] = "active"
    /\ order' = [order EXCEPT ![r] = "declined"]
    /\ Notify(r, "failed")
    /\ UNCHANGED <<listingVars, rowVars, held, overdue, payment, refundId,
                   attemptVars, creator, reads, refundJob, boundVars>>

OrderExpires(r) ==
    /\ order[r] = "active"
    /\ order' = [order EXCEPT ![r] = "expired"]
    /\ UNCHANGED <<listingVars, rowVars, held, overdue, payment, refundId,
                   attemptVars, notices, creator, reads, refundJob, boundVars>>

\* fetchCashfreeOrderState: the read of an order the gateway does not know
\* fails, and so may any other; a failed payments call hides a declined try.
View(r) ==
    (IF order[r] = "absent" \/ GatewayFails THEN {"unknown"} ELSE {})
    \cup CASE order[r] = "absent"   -> {}
           [] order[r] = "active"   -> {"pending"}
           [] order[r] = "declined" -> {"failed", "pending"}
           [] OTHER                 -> {order[r]}

-----------------------------------------------------------------------------
(* processPaidOrder and processFailedOrder.                                 *)

\* What processPaidOrder does with reservation r when the status of its
\* payment row is p ("none": the order has no row).  A pending reservation
\* always holds its stock (StockFollowsReservation), so the branch of
\* activatePendingReservation that takes it anew is left out.
Late(r, p) == \/ status[r] \in Released \cup {"cancelled"}
              \/ "refund_pending" \in {p, payStatus[r]}

Final(r, p) == \/ p = "refunded" \/ payStatus[r] = "refunded"
               \/ p = "paid" /\ payStatus[r] = "paid" /\ ~(status[r] = "payment_pending")

\* As if a payment for a released hold were nobody's
NothingToDoWhenReleased(r, p) ==
    p = "none" \/ Final(r, p) \/ status[r] \in Released

NothingToDo(r, p) == p = "none" \/ Final(r, p)

PaidOutcome(r, p) ==
    IF NothingToDo(r, p) THEN "ignore"
    ELSE IF Late(r, p) THEN "refund"
    ELSE IF (Pending(r) /\ held[r]) \/ status[r] = "reserved" THEN "activate"
    ELSE "fail"

PaidRows(r, p) ==
    LET o == PaidOutcome(r, p) IN
    /\ payment' = [payment EXCEPT ![r] =
           CASE o = "activate" -> "paid"
             [] o \in {"refund", "fail"} -> "refund_pending"
             [] OTHER -> p]
    /\ status' = [status EXCEPT ![r] =
           CASE o = "activate" -> "reserved"
             [] o = "fail" \/ (o = "refund" /\ @ \in Released) -> "cancelled"
             [] OTHER -> @]
    /\ payStatus' = [payStatus EXCEPT ![r] =
           CASE o = "activate" -> "paid"
             [] o = "refund" -> IF @ = "refund_failed" THEN @ ELSE "refund_pending"
             [] o = "fail" -> "refund_pending"
             [] OTHER -> @]
    /\ initializing' = [initializing EXCEPT ![r] = @ /\ o # "activate"]

ProcessPaid(r, p) ==
    /\ PaidRows(r, p)
    /\ EnqueueIf(PaidOutcome(r, p) \in {"refund", "fail"}, r)
    /\ UNCHANGED stockVars

\* releasePendingPaymentReservation with its guards: the reservation is still
\* pending and so is its payment (a decided one is skipped or throws).
ReleaseIfPending(r, to) ==
    IF Pending(r) /\ payment[r] \in {"none", "pending"}
    THEN Release(r, to, IF to = "expired" THEN "expired_payment" ELSE "payment_failed")
    ELSE UNCHANGED <<stockVars, status, payStatus, payment>>

ProcessFailed(r, to) ==
    /\ IF payment[r] = "none"
       THEN UNCHANGED <<stockVars, status, payStatus, payment>>
       ELSE ReleaseIfPending(r, to)
    /\ UNCHANGED <<initializing, refundJob, boundVars>>

\* handleCashfreeWebhook: the event is recorded as processed in the same
\* transaction, so a redelivery under the same key does nothing more.
Deliver(r, kind, copy) ==
    /\ <<r, kind, copy>> \in notices
    /\ IF kind = "paid" THEN ProcessPaid(r, payment[r])
                        ELSE ProcessFailed(r, "failed")
    /\ notices' = notices \ {<<r, kind, copy>>}
    /\ UNCHANGED <<quantity, clock, overdue, refundId, attemptVars, order,
                   creator, reads>>

-----------------------------------------------------------------------------
(* The payment queue's timeout job and sweep: reconcileStalePaymentSessions *)
(* and recoverPaymentOrderAttempts.  The gateway is read first, the answer  *)
(* is applied in a later transaction.                                       *)

\* Bound: one read of each kind per reservation on its way.
Reading(r, by) == \E v \in Views : <<r, by, v>> \in reads

ReadGateway(r, by) ==
    \E v \in View(r) : reads' = reads \cup {<<r, by, v>>}

Applied(r, by, v) == reads' = reads \ {<<r, by, v>>}

\* The claims skip rows that are locked and holds that already failed.
ReadOverdueSession(r) ==
    /\ ~Reading(r, "session") /\ ~RowLocked(r)
    /\ Pending(r)
    /\ \/ payment[r] = "pending" /\ overdue[r]
       \/ payment[r] \in {"failed", "expired"}
    /\ ReadGateway(r, "session")
    /\ UNCHANGED <<listingVars, rowVars, held, overdue, payment, refundId,
                   attemptVars, order, notices, creator, refundJob, boundVars>>

\* As if anything but a failure were a payment
DecideByDefault(r, v) ==
    \/ v \notin {"failed", "expired"} /\ ProcessPaid(r, payment[r])
    \/ v \in {"failed", "expired"} /\ ProcessFailed(r, v)

\* As if an order nobody paid were left to the gateway
DecideByPayment(r, v) ==
    \/ v = "paid" /\ ProcessPaid(r, payment[r])
    \/ v = "failed" /\ ProcessFailed(r, "failed")
    \/ /\ v \notin {"paid", "failed"}
       /\ UNCHANGED <<stockVars, rowVars, payment, refundJob, boundVars>>

\* reconcileOrder after its gateway call: no answer, or an order still open,
\* expires the hold locally.
Decide(r, v) ==
    \/ v = "paid" /\ ProcessPaid(r, payment[r])
    \/ v = "failed" /\ ProcessFailed(r, "failed")
    \/ v \notin {"paid", "failed"} /\ ProcessFailed(r, "expired")

ApplyOverdueSession(r) ==
    \E v \in Views :
        /\ <<r, "session", v>> \in reads
        /\ Decide(r, v)
        /\ Applied(r, "session", v)
        /\ UNCHANGED <<quantity, clock, overdue, refundId, attemptVars, order,
                       notices, creator>>

\* claimRecoverablePaymentOrderAttempts bumps updated_at and returns the bumped
\* row to recoverPaymentOrderAttempt: an attempt with payment rows is closed,
\* one with a session is looked up at the gateway, one without a session is
\* never old enough and is left as it is.
ClaimAttempt(r) ==
    /\ Recovery /\ ~Reading(r, "attempt")
    /\ \/ attempt[r] \in {"db_inserted", "recovery_pending", "failed"}
       \/ attempt[r] \in {"creating", "gateway_created"} /\ attemptOld[r]
    /\ attemptOld' = [attemptOld EXCEPT ![r] = FALSE]
    /\ attempt' = [attempt EXCEPT ![r] =
           IF payment[r] # "none" THEN "committed" ELSE "recovery_pending"]
    /\ IF payment[r] = "none" /\ session[r]
       THEN ReadGateway(r, "attempt") ELSE reads' = reads
    /\ UNCHANGED <<listingVars, rowVars, held, overdue, payment, refundId,
                   session, order, notices, creator, refundJob, boundVars>>

\* claimStalePaymentInitializations and recoverStalePaymentInitialization
\* up to the transaction or gateway call they lead to; the attempt is read
\* as it is, without a claim.
ClaimInitialization(r) ==
    /\ Recovery /\ ~Reading(r, "init") /\ ~Reading(r, "attempt") /\ ~RowLocked(r)
    /\ Pending(r) /\ initializing[r] /\ overdue[r] /\ payment[r] = "none"
    /\ IF attempt[r] = "none"
       THEN reads' = reads \cup {<<r, "init", "unknown">>}
       ELSE (session[r] \/ attemptOld[r]) /\ ReadGateway(r, "attempt")
    /\ UNCHANGED <<listingVars, rowVars, held, overdue, payment, refundId,
                   attemptVars, order, notices, creator, refundJob, boundVars>>

ApplyInitialization(r) ==
    /\ <<r, "init", "unknown">> \in reads /\ ~RowLocked(r)
    /\ ReleaseIfPending(r, "failed")
    /\ initializing' = [initializing EXCEPT ![r] = @ /\ ~Pending(r)]
    /\ Applied(r, "init", "unknown")
    /\ UNCHANGED <<quantity, clock, overdue, refundId, attemptVars, order,
                   notices, creator, refundJob, boundVars>>

\* materializeMissingPaymentsForAttempt: the payment row the crash lost is
\* written and processed as paid in one transaction.
Materialize(r) ==
    /\ <<r, "attempt", "paid">> \in reads /\ ~RowLocked(r)
    /\ IF payment[r] = "none"
       THEN /\ ProcessPaid(r, "pending")
            /\ attempt' = [attempt EXCEPT ![r] = "recovered"]
       ELSE /\ attempt' = [attempt EXCEPT ![r] = "committed"]
            /\ UNCHANGED <<stockVars, rowVars, payment, refundJob, boundVars>>
    /\ attemptOld' = [attemptOld EXCEPT ![r] = FALSE]
    /\ Applied(r, "attempt", "paid")
    /\ UNCHANGED <<quantity, clock, overdue, refundId, session, order, notices,
                   creator>>

CloseAttempt(r) ==
    /\ attempt' = [attempt EXCEPT ![r] = "abandoned"]
    /\ attemptOld' = [attemptOld EXCEPT ![r] = FALSE]

\* restoreAttemptReservationsWithoutPaymentRows looks for payment rows before
\* it waits for the reservation's lock, and not again after it.
CheckAttempt(r) ==
    \E v \in {"failed", "expired"} :
        /\ <<r, "attempt", v>> \in reads
        /\ IF payment[r] = "none"
           THEN /\ reads' = (reads \ {<<r, "attempt", v>>}) \cup {<<r, "restore", v>>}
                /\ UNCHANGED <<attempt, attemptOld>>
           ELSE Applied(r, "attempt", v) /\ CloseAttempt(r)
        /\ UNCHANGED <<listingVars, rowVars, held, overdue, payment, refundId,
                       session, order, notices, creator, refundJob, boundVars>>

AbandonAttempt(r) ==
    \E v \in {"failed", "expired"} :
        /\ <<r, "restore", v>> \in reads /\ ~RowLocked(r)
        /\ FailHold(r)
        /\ CloseAttempt(r)
        /\ Applied(r, "restore", v)
        /\ UNCHANGED <<quantity, clock, overdue, payment, refundId, session,
                       order, notices, creator, refundJob, boundVars>>

\* The order is still open, or the gateway does not know it: only updated_at
\* changes.
KeepAttempt(r) ==
    \E v \in {"pending", "unknown"} :
        /\ <<r, "attempt", v>> \in reads
        /\ attemptOld' = [attemptOld EXCEPT ![r] = FALSE]
        /\ Applied(r, "attempt", v)
        /\ UNCHANGED <<listingVars, rowVars, held, overdue, payment, refundId,
                       attempt, session, order, notices, creator, refundJob,
                       boundVars>>

\* A worker dies between its read and its transaction.
WorkerDies(r) ==
    \E by \in Sweeps, v \in Views :
        /\ <<r, by, v>> \in reads /\ Fault("crash")
        /\ Applied(r, by, v)
        /\ UNCHANGED <<listingVars, rowVars, held, overdue, payment, refundId,
                       attemptVars, order, notices, creator, refundJob>>

-----------------------------------------------------------------------------
(* cancelReservation, markAsPickedUp (self pickup).                         *)

\* A hold without a payment row cannot be cancelled (the release throws); one
\* whose payment row is already paid does not exist (PaymentsAgree), so the
\* cancel_race repair never runs.
CancelHold(r) ==
    /\ Pending(r) /\ payment[r] = "pending" /\ ~RowLocked(r)
    /\ Release(r, "failed", "cancelled_before_confirmation")
    /\ UNCHANGED <<quantity, clock, initializing, overdue, refundId, attemptVars,
                   order, notices, creator, reads, refundJob, boundVars>>

\* As if picked-up, or expired, reservations could still be cancelled
CancellableWhenPickedUp(r) ==
    status[r] \in {"reserved", "picked_up"} /\ payStatus[r] = "paid" /\ clock = 0

CancellableWhenExpired(r) ==
    status[r] \in {"reserved", "expired"} /\ payStatus[r] = "paid" /\ clock = 0

Cancellable(r) == status[r] = "reserved" /\ payStatus[r] = "paid" /\ clock = 0

CancelPaid(r) ==
    /\ Cancellable(r)
    /\ payment' = [payment EXCEPT ![r] =
           IF @ \in {"paid", "refund_pending"} THEN "refund_pending" ELSE @]
    /\ status' = [status EXCEPT ![r] = "cancelled"]
    /\ payStatus' = [payStatus EXCEPT ![r] = "refund_pending"]
    /\ RestoreIfHeld(r)
    /\ Enqueue(r)
    /\ UNCHANGED <<quantity, clock, initializing, overdue, refundId, attemptVars,
                   order, notices, creator, reads>>

PickUp(r) ==
    /\ status[r] = "reserved" /\ payStatus[r] = "paid"
    /\ status' = [status EXCEPT ![r] = "picked_up"]
    /\ UNCHANGED <<listingVars, payStatus, held, initializing, overdue, payment,
                   refundId, attemptVars, order, notices, creator, reads,
                   refundJob, boundVars>>

-----------------------------------------------------------------------------
(* The refund queue, as far as the rows above see it.                       *)

\* refund.worker prepareRefund.  A second job of the same reservation may find
\* its financial operation terminal and do nothing.  RefundDueWhenPaid: as if
\* only a payment still marked paid could be refunded.
RefundDueWhenPaid(r) == status[r] = "cancelled" /\ payment[r] = "paid"

RefundDue(r) == /\ status[r] = "cancelled" /\ payStatus[r] # "refunded"
                /\ payment[r] \in {"paid", "refund_pending", "refund_failed"}

PrepareRefund(r) ==
    /\ refundJob[r] = "queued"
    /\ refundJob' = [refundJob EXCEPT ![r] = "done"]
    /\ \/ /\ RefundDue(r)
          /\ payment' = [payment EXCEPT ![r] = "refund_pending"]
          /\ payStatus' = [payStatus EXCEPT ![r] =
                 IF @ = "refund_failed" THEN @ ELSE "refund_pending"]
          /\ refundId' = [refundId EXCEPT ![r] = TRUE]
       \/ /\ ~RefundDue(r) \/ refundId[r]
          /\ UNCHANGED <<payment, payStatus, refundId>>
    /\ UNCHANGED <<listingVars, status, held, initializing, overdue, attemptVars,
                   order, notices, creator, reads, boundVars>>

\* The gateway's answer to the refund, whoever brings it: the worker
\* (persistRefundStatus), a refund webhook or the refund sweep
\* (processRefundEvent).  MayFailWhenRefunded: as if a late failure were
\* believed after a success.
MayFailWhenRefunded(r) == payment[r] \in {"refund_pending", "refunded"}

MayFail(r) == payment[r] = "refund_pending"

RefundOutcome(r) ==
    /\ refundId[r]
    /\ \/ /\ payment[r] \in {"refund_pending", "refund_failed"}
          /\ payment' = [payment EXCEPT ![r] = "refunded"]
          /\ payStatus' = [payStatus EXCEPT ![r] = "refunded"]
       \/ /\ MayFail(r)
          /\ payment' = [payment EXCEPT ![r] = "refund_failed"]
          /\ payStatus' = [payStatus EXCEPT ![r] =
                 IF @ = "refunded" THEN @ ELSE "refund_failed"]
    /\ UNCHANGED <<listingVars, status, held, initializing, overdue, refundId,
                   attemptVars, order, notices, creator, reads, refundJob,
                   boundVars>>

-----------------------------------------------------------------------------
(* The listing: expiry.worker, updateFood, deleteFood; and time.            *)

\* The worker adds the stock of the reservations it expires back to the
\* listing without touching their stock_reserved flag.
Expiring == {r \in Res : status[r] = "reserved"}

\* As if unpaid holds were given back as well
GivenBackWithHolds == UnitsOf({r \in Res : held[r]})

GivenBack == UnitsOf(Expiring)

ExpireListing ==
    /\ listing \in {"active", "completed"} /\ clock = 2
    /\ listing' = "expired"
    /\ remaining' = remaining + Cardinality(GivenBack)
    /\ status' = [r \in Res |-> IF r \in Expiring THEN "expired" ELSE status[r]]
    /\ UNCHANGED <<quantity, clock, payStatus, held, initializing, overdue,
                   payment, refundId, attemptVars, order, notices, creator,
                   reads, refundJob, boundVars>>

AdjustedTo(q) == q   \* as if what is held did not count

Adjusted(q) == remaining + q - quantity

\* A new quantity and a new end of the pickup window, which must lie ahead;
\* the status stays as it is.
EditListing(q, c) ==
    /\ edits < MaxEdits
    /\ edits' = edits + 1
    /\ faults' = faults
    /\ listing # "deleted"
    /\ Adjusted(q) >= 0
    /\ remaining' = Adjusted(q)
    /\ quantity' = q
    /\ clock' = c
    /\ UNCHANGED <<listing, rowVars, held, overdue, payment, refundId,
                   attemptVars, order, notices, creator, reads, refundJob>>

DeleteListing ==
    /\ edits < MaxEdits
    /\ edits' = edits + 1
    /\ faults' = faults
    /\ \A r \in Res : ~Blocking(r)
    /\ listing' = "deleted"
    /\ UNCHANGED <<quantity, remaining, clock, rowVars, held, overdue, payment,
                   refundId, attemptVars, order, notices, creator, reads,
                   refundJob>>

Tick ==
    /\ clock < 2
    /\ clock' = clock + 1
    /\ UNCHANGED <<quantity, remaining, listing, rowVars, held, overdue, payment,
                   refundId, attemptVars, order, notices, creator, reads,
                   refundJob, boundVars>>

HoldLapses(r) ==
    /\ Pending(r) /\ ~overdue[r]
    /\ overdue' = [overdue EXCEPT ![r] = TRUE]
    /\ UNCHANGED <<listingVars, rowVars, held, payment, refundId, attemptVars,
                   order, notices, creator, reads, refundJob, boundVars>>

\* Ten minutes on an untouched attempt, longer than a hold lasts.
AttemptAges(r) ==
    /\ Recovery /\ ~attemptOld[r] /\ (Pending(r) => overdue[r])
    /\ attempt[r] \in {"creating", "gateway_created", "recovery_pending", "failed"}
    /\ attemptOld' = [attemptOld EXCEPT ![r] = TRUE]
    /\ UNCHANGED <<listingVars, rowVars, held, overdue, payment, refundId,
                   attempt, session, order, notices, creator, reads, refundJob,
                   boundVars>>

-----------------------------------------------------------------------------
Init ==
    /\ quantity \in Quantities /\ remaining = quantity
    /\ listing = "active" /\ clock = 0
    /\ status = [r \in Res |-> "none"] /\ payStatus = [r \in Res |-> "none"]
    /\ held = [r \in Res |-> FALSE] /\ initializing = [r \in Res |-> FALSE]
    /\ overdue = [r \in Res |-> FALSE]
    /\ payment = [r \in Res |-> "none"] /\ refundId = [r \in Res |-> FALSE]
    /\ attempt = [r \in Res |-> "none"] /\ session = [r \in Res |-> FALSE]
    /\ attemptOld = [r \in Res |-> FALSE]
    /\ order = [r \in Res |-> "absent"] /\ notices = {}
    /\ creator = [r \in Res |-> "idle"] /\ reads = {}
    /\ refundJob = [r \in Res |-> "none"]
    /\ faults = 0 /\ edits = 0

CreateStep(r) == \/ Reserve(r) \/ BeginSession(r) \/ GatewayCreates(r)
                 \/ MarkCreated(r) \/ CommitSession(r) \/ CommitUnacknowledged(r)
                 \/ SessionError(r) \/ CleanupHold(r) \/ RequestDies(r)

GatewayStep(r) == CustomerPays(r) \/ CustomerDeclined(r) \/ OrderExpires(r)

DeliverStep(r) == \E kind \in {"paid", "failed"}, copy \in Copies : Deliver(r, kind, copy)

SweepStep(r) == \/ ReadOverdueSession(r) \/ ApplyOverdueSession(r)
                \/ ClaimAttempt(r) \/ ClaimInitialization(r)
                \/ ApplyInitialization(r) \/ Materialize(r) \/ AbandonAttempt(r)
                \/ CheckAttempt(r) \/ KeepAttempt(r) \/ WorkerDies(r)

CustomerStep(r) == CancelHold(r) \/ CancelPaid(r) \/ PickUp(r)

RefundStep(r) == PrepareRefund(r) \/ RefundOutcome(r)

TimeStep(r) == HoldLapses(r) \/ AttemptAges(r)

ListingStep == \/ ExpireListing \/ DeleteListing \/ Tick
               \/ \E q \in Quantities, c \in {0, 1} : EditListing(q, c)

Next == \/ \E r \in Res : \/ CreateStep(r) \/ GatewayStep(r) \/ DeliverStep(r)
                          \/ SweepStep(r) \/ CustomerStep(r) \/ RefundStep(r)
                          \/ TimeStep(r)
        \/ ListingStep

Spec == Init /\ [][Next]_vars

\* What the code's own scheduling justifies: a request that does not die goes
\* on, deadlines pass, the repeatable sweep and the timeout job keep running,
\* BullMQ runs a queued refund job, and the gateway delivers its webhooks,
\* settles the refunds it was asked for and expires orders nobody pays.
\* Customers and providers need not act.
Fairness ==
    \A r \in Res :
        /\ WF_vars(BeginSession(r) \/ GatewayCreates(r) \/ MarkCreated(r)
                    \/ CommitSession(r))
        /\ WF_vars(CleanupHold(r))
        /\ WF_vars(HoldLapses(r)) /\ WF_vars(AttemptAges(r))
        /\ WF_vars(ReadOverdueSession(r)) /\ WF_vars(ApplyOverdueSession(r))
        /\ WF_vars(ClaimAttempt(r)) /\ WF_vars(ClaimInitialization(r))
        /\ WF_vars(ApplyInitialization(r))
        /\ WF_vars(Materialize(r) \/ CheckAttempt(r) \/ KeepAttempt(r))
        /\ WF_vars(AbandonAttempt(r))
        /\ \A kind \in {"paid", "failed"}, copy \in Copies :
              WF_vars(Deliver(r, kind, copy))
        /\ WF_vars(PrepareRefund(r)) /\ WF_vars(RefundOutcome(r))
        /\ WF_vars(OrderExpires(r))

FairSpec == Spec /\ Fairness

-----------------------------------------------------------------------------
(* Invariants.                                                              *)

\* Every variable ranges over the values its column or process can have; in
\* particular remaining_quantity never goes below zero (no overselling).
TypeOK ==
    /\ quantity \in Nat /\ remaining \in Nat
    /\ listing \in ListingStatuses /\ clock \in 0..2
    /\ status \in [Res -> Statuses] /\ payStatus \in [Res -> PayStatuses]
    /\ held \in [Res -> BOOLEAN] /\ initializing \in [Res -> BOOLEAN]
    /\ overdue \in [Res -> BOOLEAN]
    /\ payment \in [Res -> PayStatuses] /\ refundId \in [Res -> BOOLEAN]
    /\ attempt \in [Res -> AttemptStatuses] /\ session \in [Res -> BOOLEAN]
    /\ attemptOld \in [Res -> BOOLEAN]
    /\ order \in [Res -> OrderStates]
    /\ notices \subseteq Res \X {"paid", "failed"} \X Copies
    /\ creator \in [Res -> CreatorStates] /\ reads \subseteq Res \X Sweeps \X Views
    /\ refundJob \in [Res -> {"none", "queued", "done"}]
    /\ faults \in Nat /\ edits \in Nat

\* The reservation row, its payment_status and the payment row always tell the
\* same story: handlers that write only some of them, in whatever order they
\* come, never leave a combination no other handler expects.
Agree(res, pay, row) ==
    \/ res = "none" /\ pay = "none" /\ row = "none"
    \/ res = "payment_pending" /\ pay = "pending" /\ row \in {"none", "pending"}
    \/ res = "payment_failed" /\ pay = "failed" /\ row \in {"none", "pending", "failed"}
    \/ res = "expired_payment" /\ pay = "expired" /\ row = "expired"
    \/ res = "cancelled_before_confirmation" /\ pay = "failed" /\ row = "failed"
    \/ res \in {"reserved", "picked_up", "expired"} /\ pay = "paid" /\ row = "paid"
    \/ res = "cancelled" /\ pay \in RefundStates /\ row = pay
    \/ res = "cancelled" /\ pay = "refund_failed" /\ row = "refund_pending"

PaymentsAgree == \A r \in Res : Agree(status[r], payStatus[r], payment[r])

\* A reservation holds stock exactly while it is pending, reserved or picked
\* up (the flag of one that expired with its listing stays set): no path of
\* failure, timeout, cancellation or refund keeps food nobody can have.
OnTheShelf == {"none", "cancelled"} \cup Released
StockFollowsReservation == \A r \in Res : held[r] <=> status[r] \notin OnTheShelf

\* remaining_quantity plus what is held adds up to what the provider offers:
\* stock is restored once, whichever of the racing handlers gets there.
Outstanding == {r \in Res : held[r] /\ status[r] # "expired"}
StockConserved == remaining + Cardinality(UnitsOf(Outstanding)) = quantity

\* Food is only given, and money only returned, for orders the gateway has
\* really captured, and a refund job only exists for a cancelled reservation.
CapturedOnly ==
    \A r \in Res :
        /\ \/ status[r] \in {"reserved", "picked_up", "expired"}
           \/ payment[r] \in RefundStates
           => order[r] = "paid"
        /\ refundJob[r] # "none" => status[r] = "cancelled"

\* A customer never has two live reservations, paid or waiting for payment, on
\* the listing, whatever arrives late about an earlier one.
OneLiveReservation ==
    \A r, s \in Res : r # s /\ UserOf[r] = UserOf[s]
        => ~((Pending(r) \/ Blocking(r)) /\ (Pending(s) \/ Blocking(s)))

-----------------------------------------------------------------------------
(* Action properties.                                                       *)

\* guard_payment_financial_state_transition: the transitions the database
\* trigger raises an exception on.
IllegalPaymentStep(from, to) ==
    \/ from = "refunded" /\ to # "refunded"
    \/ from = "paid" /\ to \in {"pending", "failed", "expired"}
    \/ from \in {"refund_pending", "refund_failed"}
       /\ to \in {"pending", "paid", "failed", "expired"}
    \/ from \in {"failed", "expired"} /\ to \in {"pending", "paid"}

\* No handler, however late or repeated, ever runs into the trigger, which
\* would abort its whole transaction.
TriggerNeverFires == [][\A r \in Res : ~IllegalPaymentStep(payment[r], payment'[r])]_vars

\* A reservation that was picked up, or that expired with its listing, is
\* closed: no late payment event, sweep or refund reopens it.
ClosedStaysClosed ==
    [][\A r \in Res : status[r] \in {"picked_up", "expired"} =>
          status'[r] = status[r] /\ payment'[r] = payment[r]]_vars

-----------------------------------------------------------------------------
(* Liveness, under FairSpec.                                                *)

\* Every payment hold is decided: the stock it takes does not stay taken by a
\* reservation that waits for payment for ever.
HoldsResolve == \A r \in Res : Pending(r) ~> ~Pending(r)

\* Money the gateway has captured is accounted for: the reservation is paid,
\* or the refund has been decided by the gateway.
CapturedMoneySettles ==
    \A r \in Res : order[r] = "paid"
        ~> payment[r] \in {"paid", "refunded", "refund_failed"}

\* Every refund the rows promise is carried out.
RefundsComplete ==
    \A r \in Res : payment[r] = "refund_pending"
        ~> payment[r] \in {"refunded", "refund_failed"}

-----------------------------------------------------------------------------
(* What the repository says and the code does not do (checked by runs that  *)
(* expect a violation).                                                     *)

\* No reservation is confirmed on a listing that is over.  deleteFood says "Cannot
\* delete listing with active reservations", but a hold is not one, and its
\* payment makes it one.  activatePendingReservation refuses a payment that comes
\* after expiry ("Pickup window ended before payment activation"), but only when
\* the stock is not held, which never is the case.
NoReservationOnEndedListing ==
    listing \in {"expired", "deleted"} => \A r \in Res : status[r] # "reserved"

-----------------------------------------------------------------------------
(* Refinement: whatever the handlers do, the listing's stock is kept as     *)
(* StockLedger promises.                                                    *)

LedgerPhase == [r \in Res |-> IF status[r] = "none" THEN "new"
                              ELSE IF r \in Outstanding THEN "taken" ELSE "closed"]

LedgerTaken == [r \in Res |-> IF status[r] = "none" THEN 0 ELSE Qty[r]]

Ledger == INSTANCE StockLedger WITH offered <- quantity, shelf <- remaining,
                                    taken <- LedgerTaken, phase <- LedgerPhase

\* Payment, failure, timeout, cancellation, refund, expiry and edits together
\* take the items of a reservation once and give them back at most once.
KeepsLedger == Ledger!Spec

-----------------------------------------------------------------------------
(* The inductive invariant behind the safety theorems.                      *)

\* Where the creating request is, and what a worker has read, constrain the
\* rows: nobody else decides a reservation whose row lock is held.
Control ==
    \A r \in Res :
        /\ (creator[r] = "idle") <=> (status[r] = "none")
        /\ creator[r] \in {"idle", "held"} => attempt[r] = "none"
        /\ creator[r] \in {"idle", "held"} => payment[r] = "none"
        /\ RowLocked(r) => Pending(r) /\ payment[r] = "none"
        /\ Reading(r, "session") => payment[r] # "none"
        /\ Reading(r, "attempt") \/ Reading(r, "restore") => attempt[r] # "none"
        /\ refundId[r] => payment[r] \in RefundStates

\* Whoever says an order is paid has it from the gateway.
PaidIsPaid ==
    \A r \in Res :
        /\ creator[r] \in {"idle", "held", "calling"} => order[r] = "absent"
        /\ \A by \in Sweeps : <<r, by, "paid">> \in reads => order[r] = "paid"
        /\ \A copy \in Copies : <<r, "paid", copy>> \in notices => order[r] = "paid"

IInv == /\ TypeOK /\ Control /\ PaidIsPaid /\ PaymentsAgree
        /\ StockFollowsReservation /\ StockConserved /\ CapturedOnly
        /\ OneLiveReservation

=============================================================================
