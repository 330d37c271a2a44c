------------------------------ MODULE Refunds ------------------------------
(***************************************************************************)
(* The money of ONE paid reservation on its way back: the customer cancels, *)
(* picks up (and gets the reliability deposit back), lets the window end    *)
(* (and loses it), or reports the provider and an administrator validates   *)
(* the report.  Three jobs of refund.worker may execute refunds of the same *)
(* payment, next to refund webhooks and the refund sweep.                   *)
(*                                                                         *)
(* A transaction, a gateway call and a single autocommitted statement are   *)
(* one action each; a job is retried after an error or a crash.             *)
(***************************************************************************)
EXTENDS Integers, FiniteSets

CONSTANTS
    MaxIds,      \* bound: refund ids that may be drawn
    Attempts,    \* attempts of a job (5 in the code)
    MaxCrashes,  \* bound: workers that die with a job in hand
    Lose         \* what may happen to a job between commit and queue

ASSUME IdsAssumption == MaxIds \in Nat /\ MaxCrashes \in Nat /\ Lose \subseteq BOOLEAN
ASSUME AttemptsAssumption == Attempts \in Nat \ {0}

VARIABLES
    res, resPay,   \* reservations: status, payment_status
    pay, dep,      \* payments: status (refund_status goes with it) and
                   \* reliability_deposit_status
    rid, did,      \* refund_id, reliability_deposit_refund_id; 0 is NULL
    report,        \* provider_reports.status of a food_not_received report
    op,            \* financial_operations, one per idempotency key
    step, left, says,  \* each job: where it is, attempts left, gateway's answer
    gw, parts,     \* at Cashfree: status and contents of each refund id
    seen,          \* the sweep's answer for a refund id, not applied yet
    crashes

rowVars == <<res, resPay, pay, dep, rid, did, report>>
jobVars == <<step, left, says, crashes>>
gwVars  == <<gw, parts>>
vars == <<res, resPay, pay, dep, rid, did, report, op, step, left, says, gw, parts,
          seen, crashes>>

Jobs    == {"cancel", "fault", "deposit"}
Ops     == {"refund", "deposit", "retention"}
Steps   == {"none", "queued", "calling", "answered", "erring", "known", "marking",
            "done", "dead"}
Running == {"calling", "answered", "erring", "known", "marking"}
Ids     == 1..MaxIds
Answers == {"pending", "success", "failed"}

\* normalizeRefundStatusFromGateway and operationStatusFromRefundStatus
Normal(s) == CASE s = "success" -> "refunded" [] s = "failed" -> "refund_failed"
               [] OTHER -> "refund_pending"
OpStatus(s) == CASE s = "success" -> "succeeded" [] s = "failed" -> "failed"
                 [] OTHER -> "processing"

IdOf(k) == IF k = "deposit" THEN did ELSE rid
OpOf(k) == IF k = "deposit" THEN "deposit" ELSE "refund"

\* crypto.randomUUID, for the first attempt only; as if for each.  New ids are
\* alike, so the least will do.
Unused == LET free == Ids \ ({rid, did} \cup {i \in Ids : gw[i] # "none"})
          IN {i \in free : \A j \in free : i <= j}

FreshId(id) == Unused
RefundId(id) == IF id = 0 THEN Unused ELSE {id}

\* reservations.payment_status of a refund that starts (again)
StartedAgain == IF resPay \in {"refunded", "refund_failed"} THEN resPay
                ELSE "refund_pending"

\* The trigger on payments: a returned or kept deposit stays so.
LegalDeposit(s) == dep \in {"refunded", "retained"} => s = dep

-----------------------------------------------------------------------------
(* What ends the reservation.                                              *)

Enqueue(k, lost) ==
    IF lost THEN UNCHANGED <<step, left>>
    ELSE /\ step' = [step EXCEPT ![k] = "queued"]
         /\ left' = [left EXCEPT ![k] = Attempts]

\* cancelReservation before the cutoff
Cancel(lost) ==
    /\ res = "reserved" /\ resPay = "paid"
    /\ res' = "cancelled" /\ resPay' = "refund_pending"
    /\ pay' = "refund_pending"
    /\ Enqueue("cancel", lost)
    /\ UNCHANGED <<dep, rid, did, report, op, says, crashes, gwVars, seen>>

\* markAsPickedUp; the deposit goes back
PickUp(lost) ==
    /\ res = "reserved" /\ resPay = "paid"
    /\ res' = "picked_up"
    /\ Enqueue("deposit", lost)
    /\ UNCHANGED <<resPay, pay, dep, rid, did, report, op, says, crashes, gwVars, seen>>

\* The expiry worker with retainReliabilityDeposit, which throws, and so rolls
\* the expiry back, when the deposit is on its way to the customer
Expire ==
    /\ res = "reserved"
    /\ dep \in {"none", "held", "refund_failed", "retained"}
    /\ res' = "expired"
    /\ dep' = IF dep = "none" THEN dep ELSE "retained"
    /\ op' = IF dep = "none" THEN op ELSE [op EXCEPT !["retention"] = "retained"]
    /\ UNCHANGED <<resPay, pay, rid, did, report, jobVars, gwVars, seen>>

\* An administrator validates a report on the reservation, in any status.
Validate(lost) ==
    /\ report = "none" /\ report' = "validated"
    /\ Enqueue("fault", lost)
    /\ UNCHANGED <<res, resPay, pay, dep, rid, did, op, says, crashes, gwVars, seen>>

-----------------------------------------------------------------------------
(* The jobs.                                                               *)

\* Whether the transaction that prepares a refund goes on
Due(k) ==
    CASE k = "cancel"  -> /\ res = "cancelled" /\ pay # "refunded" /\ resPay # "refunded"
                          /\ op["refund"] # "succeeded"
      [] k = "fault"   -> /\ report = "validated" /\ pay # "refunded"
                          /\ op["refund"] # "succeeded"
      [] k = "deposit" -> /\ pay = "paid" /\ dep \notin {"none", "refunded", "retained"}
                          /\ op["deposit"] # "succeeded"

Prepare(k) ==
    /\ step[k] = "queued" /\ Due(k)
    /\ IF k = "deposit"
       THEN /\ did' \in RefundId(did) /\ rid' = rid
            /\ dep' = "refund_pending" /\ UNCHANGED <<pay, resPay>>
       ELSE /\ rid' \in RefundId(rid) /\ did' = did
            /\ pay' = "refund_pending" /\ resPay' = StartedAgain /\ dep' = dep
    /\ op' = [op EXCEPT ![OpOf(k)] = "processing"]
    /\ step' = [step EXCEPT ![k] = "calling"]
    /\ UNCHANGED <<res, report, left, says, crashes, gwVars, seen>>

NothingDue(k) ==
    /\ step[k] = "queued" /\ ~Due(k)
    /\ step' = [step EXCEPT ![k] = "done"]
    /\ UNCHANGED <<rowVars, op, left, says, crashes, gwVars, seen>>

\* What a refund contains; as if a validated report returned the food of a
\* deposit job's reservation as well
ContentsWhole(k) == {"food"} \cup (IF dep = "none" THEN {} ELSE {"deposit"})

Contents(k) == (IF k = "deposit" THEN {} ELSE {"food"})
               \cup (IF dep = "none" THEN {} ELSE {"deposit"})

\* Parts of the payment that are returned already, or on their way.  With them
\* the refund would exceed what was paid (the fee paid on top is smaller than
\* either part), and Cashfree refuses it.
Returned(id) ==
    UNION {parts[i] : i \in {j \in Ids \ {id} : gw[j] \in {"pending", "success"}}}

\* PGOrderCreateRefund, which returns the refund of that id if there is one;
\* its answer may be lost.
Call(k) ==
    /\ step[k] = "calling"
    /\ IF gw[IdOf(k)] = "none"
       THEN /\ Contents(k) \cap Returned(IdOf(k)) = {}
            /\ \E s \in {"pending", "success"} : gw' = [gw EXCEPT ![IdOf(k)] = s]
            /\ parts' = [parts EXCEPT ![IdOf(k)] = Contents(k)]
       ELSE UNCHANGED gwVars
    /\ \/ /\ step' = [step EXCEPT ![k] = "answered"]
          /\ says' = [says EXCEPT ![k] = gw'[IdOf(k)]]
       \/ step' = [step EXCEPT ![k] = "erring"] /\ says' = says
    /\ UNCHANGED <<rowVars, op, left, crashes, seen>>

CallRefused(k) ==
    /\ step[k] = "calling"
    /\ step' = [step EXCEPT ![k] = "erring"]
    /\ UNCHANGED <<rowVars, op, left, says, crashes, gwVars, seen>>

\* persistRefundStatus
StorePayment(s) ==
    IF pay = "refunded" THEN UNCHANGED <<pay, resPay, dep>>
    ELSE /\ s = "success" => LegalDeposit("refunded")
         /\ pay' = Normal(s)
         /\ resPay' = CASE s = "success" -> "refunded"
                        [] s = "failed"  -> IF resPay = "refunded" THEN resPay
                                            ELSE "refund_failed"
                        [] OTHER         -> StartedAgain
         /\ dep' = IF s = "success" /\ dep # "none" THEN "refunded" ELSE dep

\* persistDepositRefundStatus
StoreDeposit(s) ==
    /\ LegalDeposit(Normal(s)) \/ dep = "refunded"
    /\ dep' = IF dep = "refunded" THEN dep ELSE Normal(s)
    /\ UNCHANGED <<pay, resPay>>

Store(k, s) == IF k = "deposit" THEN StoreDeposit(s) ELSE StorePayment(s)

Persist(k) ==
    /\ step[k] = "answered"
    /\ Store(k, says[k])
    /\ step' = [step EXCEPT ![k] = "marking"]
    /\ UNCHANGED <<res, rid, did, report, op, left, says, crashes, gwVars, seen>>

\* The database refuses: a refund of a deposit that was kept
PersistRaises(k) ==
    /\ step[k] = "answered" /\ k # "deposit"
    /\ pay # "refunded" /\ says[k] = "success" /\ ~LegalDeposit("refunded")
    /\ step' = [step EXCEPT ![k] = "erring"]
    /\ UNCHANGED <<rowVars, op, left, says, crashes, gwVars, seen>>

\* markFinancialOperationStatus, whatever the operation says by now
MarkOperation(k) ==
    /\ step[k] = "marking"
    /\ op' = [op EXCEPT ![OpOf(k)] = OpStatus(says[k])]
    /\ step' = [step EXCEPT ![k] = "done"]
    /\ UNCHANGED <<rowVars, left, says, crashes, gwVars, seen>>

\* processRefundEvent, from a webhook or (again) from a look at the gateway
ShouldApply(current, s, again) ==
    /\ current # "refunded"
    /\ s = "pending" => again \/ current \notin {"refund_failed", "retained"}

ApplyToDeposit(s, again) ==
    /\ UNCHANGED <<pay, resPay>>
    /\ IF ShouldApply(dep, s, again)
       THEN /\ LegalDeposit(Normal(s))
            /\ dep' = Normal(s) /\ op' = [op EXCEPT !["deposit"] = OpStatus(s)]
       ELSE UNCHANGED <<dep, op>>

ApplyToPayment(s, again) ==
    /\ dep' = dep
    /\ IF ShouldApply(pay, s, again) /\ (s = "pending" => pay # "refund_pending")
       THEN /\ pay' = Normal(s)
            /\ resPay' = CASE s = "success" -> "refunded"
                           [] s = "failed"  -> IF resPay = "refunded" THEN resPay
                                               ELSE "refund_failed"
                           [] OTHER         -> StartedAgain
            /\ op' = [op EXCEPT !["refund"] = OpStatus(s)]
       ELSE UNCHANGED <<pay, resPay, op>>

Apply(i, s, again) ==
    /\ IF i = did THEN ApplyToDeposit(s, again)
       ELSE IF i = rid THEN ApplyToPayment(s, again)
       ELSE UNCHANGED <<pay, resPay, dep, op>>
    /\ UNCHANGED <<res, rid, did, report>>

\* reconcileRefundErrorWithGateway of a job whose call or transaction failed
LookUp(k) ==
    /\ step[k] = "erring" /\ gw[IdOf(k)] # "none"
    /\ step' = [step EXCEPT ![k] = "known"]
    /\ says' = [says EXCEPT ![k] = gw[IdOf(k)]]
    /\ UNCHANGED <<rowVars, op, left, crashes, gwVars, seen>>

ApplyLookUp(k) ==
    /\ step[k] = "known"
    /\ Apply(IdOf(k), says[k], TRUE)
    /\ step' = [step EXCEPT ![k] = "marking"]
    /\ UNCHANGED <<left, says, crashes, gwVars, seen>>

\* The operation of a job that gives up; as if an unknown outcome were a failure
GivenUpFailed(k) == [op EXCEPT ![OpOf(k)] = "failed"]
GivenUp(k) == IF k = "fault" THEN op ELSE [op EXCEPT ![OpOf(k)] = "processing"]

\* Nothing is known of the refund: the attempt has failed.
AttemptFails(k) ==
    /\ step[k] = "erring"
    /\ left' = [left EXCEPT ![k] = @ - 1]
    /\ IF left[k] = 1
       THEN step' = [step EXCEPT ![k] = "dead"] /\ op' = GivenUp(k)
       ELSE step' = [step EXCEPT ![k] = "queued"] /\ op' = op
    /\ UNCHANGED <<rowVars, says, crashes, gwVars, seen>>

\* A worker dies; BullMQ hands its stalled job to another.
Crash(k) ==
    /\ crashes < MaxCrashes /\ crashes' = crashes + 1
    /\ step[k] \in Running
    /\ step' = [step EXCEPT ![k] = "queued"]
    /\ UNCHANGED <<rowVars, op, left, says, gwVars, seen>>

-----------------------------------------------------------------------------
(* The gateway, its webhooks, and the sweep.                               *)

Settle(i) ==
    /\ gw[i] = "pending"
    /\ \E s \in {"success", "failed"} : gw' = [gw EXCEPT ![i] = s]
    /\ UNCHANGED <<rowVars, op, jobVars, parts, seen>>

\* A webhook about any status the refund has had, early, late or again
Told(i) == IF gw[i] = "none" THEN {} ELSE {"pending", gw[i]}

Webhook(i) ==
    /\ \E s \in Told(i) : Apply(i, s, FALSE)
    /\ UNCHANGED <<jobVars, gwVars, seen>>

\* claimPendingRefunds; as if refunds that are pending were left to webhooks
ClaimedWhenFailed ==
    \/ rid # 0 /\ pay = "refund_failed"
    \/ did # 0 /\ dep = "refund_failed"

Claimed ==
    \/ rid # 0 /\ pay \in {"refund_pending", "refund_failed"}
    \/ did # 0 /\ dep \in {"refund_pending", "refund_failed"}

SweepReads(i) ==
    /\ Claimed /\ i \in {rid, did} /\ seen[i] = "none" /\ gw[i] # "none"
    /\ seen' = [seen EXCEPT ![i] = gw[i]]
    /\ UNCHANGED <<rowVars, op, jobVars, gwVars>>

SweepApplies(i) ==
    /\ seen[i] # "none"
    /\ Apply(i, seen[i], TRUE)
    /\ seen' = [seen EXCEPT ![i] = "none"]
    /\ UNCHANGED <<jobVars, gwVars>>

-----------------------------------------------------------------------------
Init ==
    /\ res = "reserved" /\ resPay = "paid" /\ pay = "paid" /\ dep \in {"none", "held"}
    /\ rid = 0 /\ did = 0 /\ report = "none"
    /\ op = [o \in Ops |-> "none"]
    /\ step = [k \in Jobs |-> "none"] /\ left = [k \in Jobs |-> 0]
    /\ says = [k \in Jobs |-> "pending"]
    /\ gw = [i \in Ids |-> "none"] /\ parts = [i \in Ids |-> {}]
    /\ seen = [i \in Ids |-> "none"] /\ crashes = 0

EndStep == \/ Expire
           \/ \E lost \in Lose : Cancel(lost) \/ PickUp(lost) \/ Validate(lost)

JobStep(k) == \/ Prepare(k) \/ NothingDue(k) \/ Call(k) \/ CallRefused(k)
              \/ Persist(k) \/ PersistRaises(k) \/ MarkOperation(k)
              \/ LookUp(k) \/ ApplyLookUp(k) \/ AttemptFails(k) \/ Crash(k)

GatewayStep(i) == Settle(i) \/ Webhook(i) \/ SweepReads(i) \/ SweepApplies(i)

Next == EndStep \/ (\E k \in Jobs : JobStep(k)) \/ (\E i \in Ids : GatewayStep(i))

Spec == Init /\ [][Next]_vars

\* The repeated sweep reads the gateway and applies what it says.  Nothing is
\* assumed of webhooks, nor of the jobs.
Fairness == \A i \in Ids : WF_vars(SweepReads(i)) /\ WF_vars(SweepApplies(i))

FairSpec == Spec /\ Fairness

-----------------------------------------------------------------------------
(* Properties.                                                             *)

RefundStatuses == {"refund_pending", "refund_failed", "refunded"}

TypeOK ==
    /\ res \in {"reserved", "cancelled", "picked_up", "expired"}
    /\ resPay \in {"paid"} \cup RefundStatuses
    /\ pay \in {"paid"} \cup RefundStatuses
    /\ dep \in {"none", "held", "retained"} \cup RefundStatuses
    /\ rid \in Ids \cup {0} /\ did \in Ids \cup {0}
    /\ report \in {"none", "validated"}
    /\ op \in [Ops -> {"none", "processing", "succeeded", "failed", "retained"}]
    /\ step \in [Jobs -> Steps] /\ left \in [Jobs -> Nat] /\ says \in [Jobs -> Answers]
    /\ gw \in [Ids -> {"none"} \cup Answers] /\ parts \in [Ids -> SUBSET {"food", "deposit"}]
    /\ seen \in [Ids -> {"none"} \cup Answers] /\ crashes \in Nat

\* However often jobs are retried after errors and crashes, the gateway holds
\* at most one refund of the payment and one of the deposit alone, and they
\* are the ones the payment row knows.
OneRefund ==
    \A i \in Ids : gw[i] # "none" => (i = rid) # (i = did)

\* The rows never claim more than the gateway did: a payment or a deposit that
\* says refunded was refunded there, a refund the reservation or the operation
\* calls a success or a failure is one, and reservation and payment agree.
SaysTruth ==
    /\ pay = "refunded" <=> resPay = "refunded"
    /\ pay = "refunded" => rid # 0 /\ gw[rid] = "success"
    /\ pay = "refund_failed" => rid # 0 /\ gw[rid] = "failed"
    /\ dep = "refunded" => \E i \in Ids : gw[i] = "success" /\ "deposit" \in parts[i]
    /\ op["refund"] = "succeeded" => rid # 0 /\ gw[rid] = "success"
    /\ op["refund"] = "failed" => rid # 0 /\ gw[rid] = "failed"
    /\ op["deposit"] = "succeeded" => did # 0 /\ gw[did] = "success"
    /\ op["deposit"] = "failed" => did # 0 /\ gw[did] = "failed"

\* Money leaves the platform for a cause only: the food's price for a
\* cancellation or a validated report, the deposit alone for a pickup.
RefundHasCause ==
    \A i \in Ids : gw[i] # "none" =>
        IF "food" \in parts[i] THEN res = "cancelled" \/ report = "validated"
        ELSE res = "picked_up"

\* A refund that succeeded at the gateway is booked, even if every webhook is
\* lost and the job that asked for it died.
RefundReported ==
    \A i \in Ids : gw[i] = "success" ~>
        \/ i = rid /\ pay = "refunded"
        \/ i = did /\ dep = "refunded"

\* No job asks the gateway for a part of the payment that another refund has
\* returned already.
AskedOnce ==
    \A k \in Jobs : step[k] = "calling" /\ gw[IdOf(k)] = "none"
                    => Contents(k) \cap Returned(IdOf(k)) = {}

=============================================================================
