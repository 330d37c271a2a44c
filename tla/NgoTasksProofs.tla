--------------------------- MODULE NgoTasksProofs ---------------------------
(***************************************************************************)
(* Theorems about NgoTasks, checked by TLAPS: types, the one task of a     *)
(* volunteer, deposits and requests that follow the reservation they       *)
(* belong to, items that are all accounted for, and decisions that stand.  *)
(***************************************************************************)
EXTENDS NgoTasks, FiniteSetTheorems, TLAPS

USE ResAssumption, NoneAssumption, OfferAssumption

\* The actions about one reservation row, and the others
RowStep(r)  == ReserveStep(r) \/ MoneyStep(r) \/ TaskStep(r) \/ TimeoutStep(r)
QuietStep   == \/ RequestStep \/ Tick \/ \E v \in Vols : StartChecked(v) \/ StartRefused(v)
               \/ \E r \in Res : ReturnStep(r)

LEMMA NextSplit ==
    ASSUME Next
    PROVE  \/ QuietStep \/ ExpireListing
           \/ \E v \in Vols, r \in Res : StartTask(v, r)
           \/ \E r \in Res : RowStep(r)
BY DEF Next, VolunteerStep, QuietStep, RowStep

-----------------------------------------------------------------------------
(* Items as sets.                                                           *)

UnitsIn(S, f) == {u \in Res \X (1..Offered) : u[1] \in S /\ u[2] <= f[u[1]]}

LEMMA UnitsFinite ==
    ASSUME NEW S, NEW f PROVE IsFiniteSet(UnitsIn(S, f)) /\ Cardinality(UnitsIn(S, f)) \in Nat
<1>1. IsFiniteSet(1..Offered) BY FS_Interval
<1>2. IsFiniteSet(Res \X (1..Offered)) BY <1>1, FS_Product
<1>3. UnitsIn(S, f) \subseteq Res \X (1..Offered) BY DEF UnitsIn
<1> QED BY <1>2, <1>3, FS_Subset, FS_CardinalityType

LEMMA UnitsOfOne ==
    ASSUME NEW r \in Res, NEW f, f[r] \in 0..Offered
    PROVE  Cardinality(UnitsIn({r}, f)) = f[r]
<1>1. UnitsIn({r}, f) = {r} \X (1..f[r])
  <2>1. ASSUME NEW u \in UnitsIn({r}, f) PROVE u \in {r} \X (1..f[r])
    BY <2>1 DEF UnitsIn
  <2>2. ASSUME NEW u \in {r} \X (1..f[r]) PROVE u \in UnitsIn({r}, f)
    BY <2>2 DEF UnitsIn
  <2> QED BY <2>1, <2>2
<1>2. IsFiniteSet(1..f[r]) /\ Cardinality(1..f[r]) = f[r]
  <2>1. f[r] \in Nat /\ f[r] \in Int /\ 1 \in Int BY OfferAssumption
  <2>2. IsFiniteSet(1..f[r]) /\ Cardinality(1..f[r]) = IF 1 > f[r] THEN 0 ELSE f[r] - 1 + 1
    BY <2>1, FS_Interval
  <2>3. (IF 1 > f[r] THEN 0 ELSE f[r] - 1 + 1) = f[r] BY ONLY <2>1
  <2> QED BY <2>2, <2>3
<1>3. IsFiniteSet({r}) /\ Cardinality({r}) = 1 BY FS_Singleton
<1>4. Cardinality({r} \X (1..f[r])) = 1 * f[r]
  <2>1. Cardinality({r} \X (1..f[r])) = Cardinality({r}) * Cardinality(1..f[r])
    BY <1>2, <1>3, FS_Product
  <2> QED BY <1>2, <1>3, <2>1
<1>5. f[r] \in Nat BY OfferAssumption
<1>6. 1 * f[r] = f[r] BY ONLY <1>5
<1> QED BY <1>1, <1>4, <1>6

LEMMA UnitsOfBoth ==
    ASSUME NEW S, NEW T, NEW f, S \cap T = {}
    PROVE  Cardinality(UnitsIn(S \cup T, f)) =
               Cardinality(UnitsIn(S, f)) + Cardinality(UnitsIn(T, f))
<1>1. UnitsIn(S \cup T, f) = UnitsIn(S, f) \cup UnitsIn(T, f) BY DEF UnitsIn
<1>2. UnitsIn(S, f) \cap UnitsIn(T, f) = {} BY DEF UnitsIn
<1>3. Cardinality(UnitsIn(S, f) \cap UnitsIn(T, f)) = 0 BY <1>2, FS_EmptySet
<1>4. Cardinality(UnitsIn(S, f) \cup UnitsIn(T, f)) = Cardinality(UnitsIn(S, f))
          + Cardinality(UnitsIn(T, f)) - Cardinality(UnitsIn(S, f) \cap UnitsIn(T, f))
  BY UnitsFinite, FS_Union
<1> DEFINE s == Cardinality(UnitsIn(S, f))
           t == Cardinality(UnitsIn(T, f))
<1>5. s \in Nat /\ t \in Nat BY UnitsFinite
<1>6. s + t - 0 = s + t BY ONLY <1>5
<1> QED BY <1>1, <1>3, <1>4, <1>6

LEMMA UnitsSame ==
    ASSUME NEW S, NEW f, NEW g, \A r \in S \cap Res : f[r] = g[r]
    PROVE  UnitsIn(S, f) = UnitsIn(S, g)
BY DEF UnitsIn

-----------------------------------------------------------------------------
(* Types.                                                                   *)

LEMMA UnitsNow == ASSUME NEW S PROVE UnitsOf(S) = UnitsIn(S, qty)
BY DEF UnitsOf, UnitsIn

LEMMA TypeInsert ==
    ASSUME TypeOK, left <= Offered, NEW r \in Res, NEW k \in Int, NEW q \in Reqs \cup {None},
           NEW dep \in BOOLEAN, Insert(r, k, q, dep), req' \in [Reqs -> ReqStates]
    PROVE  TypeOK'
<1>1. k \in 1..left /\ k \in 0..Offered /\ left - k \in Nat BY DEF Insert, Admits, TypeOK
<1> QED BY <1>1 DEF Insert, Admits, TypeOK, queueVars, jobVars, refundVars, statVars, Statuses,
       TaskStates, None

LEMMA TypeRestore ==
    ASSUME TypeOK, NEW r \in Res, RestoreIfHeld(r)
    PROVE  /\ left' \in Nat /\ listing' \in {"active", "completed", "expired"}
           /\ held' \in [Res -> BOOLEAN]
BY DEF TypeOK, RestoreIfHeld

LEMMA TypeAccepted == ASSUME TypeOK, NEW q \in Reqs PROVE Accepted(q) \in [Reqs -> ReqStates]
BY DEF TypeOK, Accepted, ReqStates

LEMMA TypeReserve ==
    ASSUME TypeOK, left <= Offered, NEW r \in Res, ReserveStep(r) PROVE TypeOK'
<1>1. ASSUME NEW dep \in Deposits, NEW k \in 1..Offered, BulkReserve(r, k, dep) PROVE TypeOK'
  <2>1. req' \in [Reqs -> ReqStates] BY <1>1 DEF BulkReserve, TypeOK
  <2> QED BY <1>1, <2>1, TypeInsert DEF BulkReserve
<1>2. ASSUME NEW dep \in Deposits, NEW q \in Reqs, AcceptRequest(q, r, dep) PROVE TypeOK'
  <2>1. req' \in [Reqs -> ReqStates] BY <1>2, TypeAccepted DEF AcceptRequest, TypeOK
  <2>2. left \in Int BY DEF TypeOK
  <2> QED BY <1>2, <2>1, <2>2, TypeInsert DEF AcceptRequest
<1> QED BY <1>1, <1>2 DEF ReserveStep

LEMMA TypeMoney == ASSUME TypeOK, NEW r \in Res, MoneyStep(r) PROVE TypeOK'
<1> USE DEF TypeOK, listingVars, rowVars, moneyVars, queueVars, jobVars, refundVars, statVars,
           Statuses
<1>1. CASE DepositPaid(r) BY <1>1 DEF DepositPaid
<1>2. CASE ReleaseHold(r) BY <1>2, TypeRestore DEF ReleaseHold
<1>3. CASE ProcessPaid(r)
  <2>1. req' \in [Reqs -> ReqStates]
    BY <1>3, TypeAccepted DEF ProcessPaid, Activate, ActivationFails
  <2> QED BY <1>3, <2>1 DEF ProcessPaid, Activate, ActivationFails
<1>4. CASE CancelNgo(r) BY <1>4, TypeRestore DEF CancelNgo
<1> QED BY <1>1, <1>2, <1>3, <1>4 DEF MoneyStep

LEMMA CountType ==
    ASSUME NEW f \in [Vols -> Nat], NEW v
    PROVE  [f EXCEPT ![v] = @ + 1] \in [Vols -> Nat]
<1>1. CASE v \in Vols BY <1>1
<1>2. CASE v \notin Vols BY <1>2
<1> QED BY <1>1, <1>2

LEMMA TypeTask == ASSUME TypeOK, NEW r \in Res, TaskStep(r) PROVE TypeOK'
<1> USE DEF TypeOK, listingVars, rowVars, moneyVars, queueVars, jobVars, refundVars, statVars,
           Statuses, TaskStates
<1>1. CASE SchedulePickup(r) BY <1>1 DEF SchedulePickup
<1>2. CASE ConfirmPickup(r) BY <1>2 DEF ConfirmPickup
<1>3. CASE ScheduleDelivery(r) BY <1>3 DEF ScheduleDelivery
<1>4. CASE HandlerDies(r) BY <1>4 DEF HandlerDies
<1>5. CASE CompleteTask(r)
  <2>1. completed' \in [Vols -> Nat] BY <1>5, CountType DEF CompleteTask
  <2> QED BY <1>5, <2>1 DEF CompleteTask
<1> QED BY <1>1, <1>2, <1>3, <1>4, <1>5 DEF TaskStep

LEMMA TypeTimeout == ASSUME TypeOK, NEW r \in Res, TimeoutStep(r) PROVE TypeOK'
<1> USE DEF TypeOK, listingVars, rowVars, moneyVars, queueVars, jobVars, refundVars, statVars,
           Statuses, TaskStates
<1>0. ASSUME Fail(r) PROVE timeouts' \in [Vols -> Nat] BY <1>0, CountType DEF Fail
<1>1. CASE PickupTimeout(r)
  BY <1>0, <1>1, TypeRestore DEF PickupTimeout, OverduePickup, Fail
<1>2. CASE DeliveryTimeout(r) BY <1>0, <1>2 DEF DeliveryTimeout, OverdueDelivery, Fail
<1>3. CASE StaleTimeout(r) BY <1>3 DEF StaleTimeout
<1> QED BY <1>1, <1>2, <1>3 DEF TimeoutStep

LEMMA TypeExpire == ASSUME TypeOK, ExpireListing PROVE TypeOK'
<1>1. left' \in Nat BY UnitsNow, UnitsFinite DEF ExpireListing, TypeOK
<1> QED BY <1>1 DEF ExpireListing, TypeOK, queueVars, jobVars, refundVars, statVars, Statuses,
       TaskStates, ReqStates

LEMMA TypeQuiet == ASSUME TypeOK, QuietStep PROVE TypeOK'
BY DEF QuietStep, RequestStep, RequestChecked, RequestInserted, RejectRequest, Tick,
       StartChecked, StartRefused, ReturnStep, PaidAgain,
       QueueRefund, RefundUnqueued, TypeOK, listingVars, rowVars, moneyVars, queueVars,
       jobVars, refundVars, statVars, ReqStates

LEMMA TypeStart == ASSUME TypeOK, NEW v \in Vols, NEW r \in Res, StartTask(v, r) PROVE TypeOK'
BY DEF StartTask, TypeOK, listingVars, moneyVars, refundVars, statVars, TaskStates

LEMMA TypeStep == TypeOK /\ left <= Offered /\ [Next]_vars => TypeOK'
<1> SUFFICES ASSUME TypeOK, left <= Offered, [Next]_vars PROVE TypeOK' OBVIOUS
<1>1. CASE UNCHANGED vars BY <1>1 DEF vars, TypeOK
<1>2. CASE Next
  BY <1>2, NextSplit, TypeQuiet, TypeExpire, TypeStart, TypeReserve, TypeMoney, TypeTask,
     TypeTimeout DEF RowStep
<1> QED BY <1>1, <1>2

-----------------------------------------------------------------------------
(* One task each, deposits and requests.                                    *)

LEMMA OneTaskStep == TypeOK /\ OneTaskEach /\ [Next]_vars => OneTaskEach'
<1> SUFFICES ASSUME TypeOK, OneTaskEach, [Next]_vars PROVE OneTaskEach' OBVIOUS
<1> USE DEF OneTaskEach, ActiveTask
<1>0. ASSUME by' = by, \A r \in Res : task'[r] \in ActiveTask => task[r] \in ActiveTask
      PROVE  OneTaskEach'
  BY <1>0
<1>1. CASE UNCHANGED vars BY <1>1 DEF vars
<1>2. CASE QuietStep
  BY <1>2 DEF QuietStep, RequestStep, RequestChecked, RequestInserted, RejectRequest, Tick,
              StartChecked, StartRefused, ReturnStep, PaidAgain,
              QueueRefund, RefundUnqueued, rowVars
<1>3. CASE ExpireListing BY <1>0, <1>3 DEF ExpireListing
<1>4. ASSUME NEW v \in Vols, NEW r \in Res, StartTask(v, r) PROVE OneTaskEach'
  BY <1>4 DEF StartTask, IndexAdmits, TypeOK
<1>5. ASSUME NEW r \in Res, RowStep(r) PROVE OneTaskEach'
  <2> USE DEF TypeOK, rowVars
  <2>1. CASE ReserveStep(r)
    BY <1>0, <2>1 DEF ReserveStep, BulkReserve, AcceptRequest, Insert
  <2>2. CASE MoneyStep(r)
    BY <1>0, <2>2 DEF MoneyStep, DepositPaid, ReleaseHold, ProcessPaid, CancelNgo
  <2>3. CASE TaskStep(r)
    BY <1>0, <2>3 DEF TaskStep, SchedulePickup, ConfirmPickup, ScheduleDelivery, HandlerDies,
                      CompleteTask
  <2>4. CASE TimeoutStep(r)
    BY <1>0, <2>4 DEF TimeoutStep, PickupTimeout, DeliveryTimeout, StaleTimeout, Fail
  <2> QED BY <1>5, <2>1, <2>2, <2>3, <2>4 DEF RowStep
<1> QED BY <1>1, <1>2, <1>3, <1>4, <1>5, NextSplit

-----------------------------------------------------------------------------
(* Rows: what the columns of one reservation say about each other, and of   *)
(* the handler that has to send its deposit back.                           *)

RowAgrees(r) ==
    /\ status[r] = "none" => pay[r] = "none" /\ task[r] = "none"
    /\ status[r] = "payment_pending" => pay[r] = "pending"
    /\ status[r] = "released" => pay[r] = "failed" /\ ~held[r]
    /\ status[r] \in {"payment_pending", "reserved", "picked_up"} => held[r]
    /\ task[r] \in Over => status[r] \in {"picked_up", "expired"}
    /\ r \in returning => status[r] \in {"picked_up", "cancelled"}
    /\ status[r] = "reserved" /\ deposit[r] = "held" => pay[r] = "paid"

Rows == \A r \in Res : RowAgrees(r)

LEMMA RowsStep == TypeOK /\ Rows /\ [Next]_vars => Rows'
<1> SUFFICES ASSUME TypeOK, Rows, [Next]_vars PROVE Rows' OBVIOUS
<1> USE DEF Rows, RowAgrees, TypeOK, Over, moneyVars, queueVars, refundVars
<1>1. CASE UNCHANGED vars BY <1>1 DEF vars
<1>2. CASE QuietStep
  BY <1>2 DEF QuietStep, RequestStep, RequestChecked, RequestInserted, RejectRequest, Tick,
              StartChecked, StartRefused, ReturnStep, PaidAgain,
              QueueRefund, RefundUnqueued, rowVars
<1>3. CASE ExpireListing BY <1>3 DEF ExpireListing, Expiring
<1>4. ASSUME NEW v \in Vols, NEW r \in Res, StartTask(v, r) PROVE Rows'
  BY <1>4 DEF StartTask
<1>5. ASSUME NEW r \in Res, RowStep(r) PROVE Rows'
  <2> USE DEF rowVars, RestoreIfHeld
  <2>1. CASE ReserveStep(r)
    BY <2>1 DEF ReserveStep, BulkReserve, AcceptRequest, Insert
  <2>2. CASE DepositPaid(r) BY <2>2 DEF DepositPaid
  <2>3. CASE ReleaseHold(r) BY <2>3 DEF ReleaseHold
  <2>4. CASE ProcessPaid(r) BY <2>4 DEF ProcessPaid, Activate, ActivationFails
  <2>5. CASE CancelNgo(r) BY <2>5 DEF CancelNgo
  <2>6. CASE TaskStep(r)
    BY <2>6 DEF TaskStep, SchedulePickup, ConfirmPickup, ScheduleDelivery, HandlerDies,
                CompleteTask
  <2>7. CASE TimeoutStep(r)
    BY <2>7 DEF TimeoutStep, PickupTimeout, OverduePickup, DeliveryTimeout, OverdueDelivery,
                StaleTimeout, Fail
  <2> QED BY <1>5, <2>1, <2>2, <2>3, <2>4, <2>5, <2>6, <2>7 DEF RowStep, MoneyStep
<1> QED BY <1>1, <1>2, <1>3, <1>4, <1>5, NextSplit

LEMMA DepositStep == TypeOK /\ Rows /\ DepositFollowsTask /\ [Next]_vars => DepositFollowsTask'
<1> SUFFICES ASSUME TypeOK, Rows, DepositFollowsTask, [Next]_vars PROVE DepositFollowsTask' OBVIOUS
<1> USE DEF DepositFollowsTask, TypeOK, Rows, RowAgrees, queueVars, refundVars
<1>1. CASE UNCHANGED vars BY <1>1 DEF vars
<1>2. CASE QuietStep
  BY <1>2 DEF QuietStep, RequestStep, RequestChecked, RequestInserted, RejectRequest, Tick,
              StartChecked, StartRefused, ReturnStep, PaidAgain,
              QueueRefund, RefundUnqueued, rowVars, moneyVars
<1>3. CASE ExpireListing BY <1>3 DEF ExpireListing, Expiring
<1>4. ASSUME NEW v \in Vols, NEW r \in Res, StartTask(v, r) PROVE DepositFollowsTask'
  BY <1>4 DEF StartTask, moneyVars
<1>5. ASSUME NEW r \in Res, RowStep(r) PROVE DepositFollowsTask'
  <2> USE DEF rowVars, moneyVars
  <2>1. CASE ReserveStep(r)
    BY <2>1 DEF ReserveStep, BulkReserve, AcceptRequest, Insert
  <2>2. CASE DepositPaid(r) BY <2>2 DEF DepositPaid
  <2>3. CASE ReleaseHold(r) BY <2>3 DEF ReleaseHold
  <2>4. CASE ProcessPaid(r) BY <2>4 DEF ProcessPaid, Activate, ActivationFails
  <2>5. CASE CancelNgo(r) BY <2>5 DEF CancelNgo
  <2>6. CASE TaskStep(r)
    BY <2>6 DEF TaskStep, SchedulePickup, ConfirmPickup, ScheduleDelivery, HandlerDies,
                CompleteTask
  <2>7. CASE TimeoutStep(r)
    BY <2>7 DEF TimeoutStep, PickupTimeout, OverduePickup, DeliveryTimeout, OverdueDelivery,
                StaleTimeout, Fail
  <2> QED BY <1>5, <2>1, <2>2, <2>3, <2>4, <2>5, <2>6, <2>7 DEF RowStep, MoneyStep
<1> QED BY <1>1, <1>2, <1>3, <1>4, <1>5, NextSplit

\* An accepted request stays accepted.
LEMMA AcceptedStays ==
    ASSUME TypeOK, Next, NEW q \in Reqs, req[q] = "accepted" PROVE req'[q] = "accepted"
<1> USE DEF TypeOK, Accepted
<1>1. CASE QuietStep
  BY <1>1 DEF QuietStep, RequestStep, RequestChecked, RequestInserted, RejectRequest, Tick,
              StartChecked, StartRefused, ReturnStep, PaidAgain,
              QueueRefund, RefundUnqueued
<1>2. CASE ExpireListing BY <1>2 DEF ExpireListing
<1>3. ASSUME NEW v \in Vols, NEW r \in Res, StartTask(v, r) PROVE req' = req
  BY <1>3 DEF StartTask
<1>4. ASSUME NEW r \in Res, RowStep(r) PROVE req'[q] = "accepted"
  <2>1. CASE ReserveStep(r) BY <2>1 DEF ReserveStep, BulkReserve, AcceptRequest
  <2>2. CASE MoneyStep(r)
    BY <2>2 DEF MoneyStep, DepositPaid, ReleaseHold, ProcessPaid, Activate, ActivationFails,
                CancelNgo
  <2>3. CASE TaskStep(r)
    BY <2>3 DEF TaskStep, SchedulePickup, ConfirmPickup, ScheduleDelivery, HandlerDies,
                CompleteTask
  <2>4. CASE TimeoutStep(r)
    BY <2>4 DEF TimeoutStep, PickupTimeout, DeliveryTimeout, StaleTimeout, Fail
  <2> QED BY <1>4, <2>1, <2>2, <2>3, <2>4 DEF RowStep
<1> QED BY <1>1, <1>2, <1>3, <1>4, NextSplit

Backed(r) == status[r] \in {"reserved", "picked_up", "expired"} /\ request[r] # None
                => req[request[r]] = "accepted"
Settled(r) == pay[r] \in {"paid", "not_required", "refund_pending"}

\* What a step does to a row, as far as requests are concerned
LEMMA RequestMove ==
    ASSUME TypeOK, Rows, Next, NEW r \in Res
    PROVE  /\ status'[r] \in {"reserved", "picked_up", "expired"} /\ request'[r] # None =>
                \/ /\ status[r] \in {"reserved", "picked_up", "expired"}
                   /\ request'[r] = request[r]
                \/ request'[r] \in Reqs /\ req'[request'[r]] = "accepted"
           /\ Settled(r) => request'[r] = request[r] /\ Settled(r)'
           /\ \A q \in Reqs : req'[q] = "accepted" /\ req[q] # "accepted" =>
                \E s \in Res : request'[s] = q /\ Settled(s)'
<1> USE DEF TypeOK, Accepted, Settled, None, Rows, RowAgrees, ReqStates
<1>1. CASE QuietStep
  BY <1>1 DEF QuietStep, RequestStep, RequestChecked, RequestInserted, RejectRequest, Tick,
              StartChecked, StartRefused, ReturnStep, PaidAgain,
              QueueRefund, RefundUnqueued, rowVars
<1>2. CASE ExpireListing BY <1>2 DEF ExpireListing, Expiring
<1>3. ASSUME NEW v \in Vols, NEW t \in Res, StartTask(v, t)
      PROVE status' = status /\ request' = request /\ req' = req /\ pay' = pay
  BY <1>3 DEF StartTask
<1>4. CASE \E t \in Res : RowStep(t)
  <2> PICK t \in Res : RowStep(t) BY <1>4
  <2> USE DEF rowVars, RestoreIfHeld
  <2>1. CASE ReserveStep(t)
    <3>1. ASSUME NEW dep \in Deposits, NEW k \in 1..Offered, BulkReserve(t, k, dep)
          PROVE req' = req /\ status[t] = "none" /\ request' = [request EXCEPT ![t] = None]
                /\ \A s \in Res \ {t} : status'[s] = status[s] /\ pay'[s] = pay[s]
      BY <3>1 DEF BulkReserve, Insert
    <3>2. ASSUME NEW dep \in Deposits, NEW q \in Reqs, AcceptRequest(q, t, dep)
          PROVE /\ status[t] = "none" /\ request' = [request EXCEPT ![t] = q]
                /\ \A s \in Res \ {t} : status'[s] = status[s] /\ pay'[s] = pay[s]
                /\ \/ dep /\ req' = req /\ status'[t] = "payment_pending"
                   \/ ~dep /\ req' = Accepted(q) /\ pay'[t] = "not_required"
      BY <3>2 DEF AcceptRequest, Insert
    <3>3. CASE \E dep \in Deposits, k \in 1..Offered : BulkReserve(t, k, dep)
      BY <3>1, <3>3
    <3>4. CASE \E dep \in Deposits, q \in Reqs : AcceptRequest(q, t, dep)
      BY <3>2, <3>4
    <3> QED BY <2>1, <3>3, <3>4 DEF ReserveStep
  <2>2. CASE DepositPaid(t) BY <2>2 DEF DepositPaid
  <2>3. CASE ReleaseHold(t) BY <2>3 DEF ReleaseHold
  <2>4. CASE ProcessPaid(t) BY <2>4 DEF ProcessPaid, Activate, ActivationFails
  <2>5. CASE CancelNgo(t) BY <2>5 DEF CancelNgo
  <2>6. CASE TaskStep(t)
    BY <2>6 DEF TaskStep, SchedulePickup, ConfirmPickup, ScheduleDelivery, HandlerDies,
                CompleteTask
  <2>7. CASE TimeoutStep(t)
    BY <2>7 DEF TimeoutStep, PickupTimeout, OverduePickup, DeliveryTimeout, OverdueDelivery,
                StaleTimeout, Fail
  <2> QED BY <2>1, <2>2, <2>3, <2>4, <2>5, <2>6, <2>7 DEF RowStep, MoneyStep
<1> QED BY <1>1, <1>2, <1>3, <1>4, NextSplit

LEMMA RequestsStep == TypeOK /\ Rows /\ RequestsAgree /\ [Next]_vars => RequestsAgree'
<1> SUFFICES ASSUME TypeOK, Rows, RequestsAgree, [Next]_vars PROVE RequestsAgree' OBVIOUS
<1>1. CASE UNCHANGED vars BY <1>1 DEF vars, RequestsAgree
<1>2. CASE Next
  <2>1. ASSUME NEW r \in Res PROVE Backed(r)'
    <3>1. request[r] \in Reqs \cup {None} BY DEF TypeOK
    <3> QED BY <1>2, <3>1, RequestMove, AcceptedStays DEF Backed, RequestsAgree
  <2>2. ASSUME NEW q \in Reqs, req'[q] = "accepted"
        PROVE \E r \in Res : request'[r] = q /\ Settled(r)'
    <3>1. CASE req[q] = "accepted"
      BY <1>2, <3>1, RequestMove DEF RequestsAgree, Settled
    <3>2. CASE req[q] # "accepted"
      <4>1. Res # {}
        BY <1>2, <2>2, <3>2, NextSplit
        DEF QuietStep, RequestStep, RequestChecked, RequestInserted, RejectRequest, Tick,
            StartChecked, StartRefused, ReturnStep, PaidAgain,
            QueueRefund, RefundUnqueued, ExpireListing, TypeOK
      <4> QED BY <1>2, <2>2, <3>2, <4>1, RequestMove
    <3> QED BY <3>1, <3>2
  <2> QED BY <2>1, <2>2 DEF RequestsAgree, Backed, Settled
<1> QED BY <1>1, <1>2

-----------------------------------------------------------------------------
(* Items.                                                                   *)

Counted == Away \cup Stranded

\* What a step about row r does to the items
ItemMove(r) ==
    /\ \A s \in Res \ {r} : s \in Counted' <=> s \in Counted
    /\ \A s \in Res \ {r} : qty'[s] = qty[s]
    /\ \/ left' = left /\ qty'[r] = qty[r] /\ (r \in Counted' <=> r \in Counted)
       \/ left' = left - qty'[r] /\ r \notin Counted /\ r \in Counted'
       \/ left' = left + qty[r] /\ qty'[r] = qty[r] /\ r \in Counted /\ r \notin Counted'

LEMMA ItemMoves == ASSUME TypeOK, Rows, NEW r \in Res, RowStep(r) PROVE ItemMove(r)
<1> USE DEF TypeOK, Rows, RowAgrees, ItemMove, Counted, Away, IsAway, Stranded, IsStranded,
           rowVars, listingVars
<1>1. CASE ReserveStep(r) BY <1>1 DEF ReserveStep, BulkReserve, AcceptRequest, Insert
<1>2. CASE DepositPaid(r) BY <1>2 DEF DepositPaid
<1>3. CASE ReleaseHold(r) BY <1>3 DEF ReleaseHold, RestoreIfHeld
<1>4. CASE ProcessPaid(r) BY <1>4 DEF ProcessPaid, Activate, ActivationFails
<1>5. CASE CancelNgo(r) BY <1>5 DEF CancelNgo, RestoreIfHeld
<1>6. CASE TaskStep(r)
  BY <1>6 DEF TaskStep, SchedulePickup, ConfirmPickup, ScheduleDelivery, HandlerDies,
              CompleteTask
<1>7. CASE PickupTimeout(r)
  BY <1>7 DEF PickupTimeout, OverduePickup, Fail, RestoreIfHeld
<1>8. CASE DeliveryTimeout(r) BY <1>8 DEF DeliveryTimeout, OverdueDelivery, Fail
<1>9. CASE StaleTimeout(r) BY <1>9 DEF StaleTimeout
<1> QED BY <1>1, <1>2, <1>3, <1>4, <1>5, <1>6, <1>7, <1>8, <1>9
        DEF RowStep, MoneyStep, TimeoutStep

ItemsFit == left + Cardinality(UnitsIn(Counted, qty)) = Offered

LEMMA ItemMoveFits ==
    ASSUME TypeOK, TypeOK', ItemsFit, NEW r \in Res, ItemMove(r) PROVE ItemsFit'
<1> DEFINE C == Counted \ {r}
           c == Cardinality(UnitsIn(C, qty))
           D == Counted'
<1>1. c \in Nat /\ left \in Nat /\ left' \in Nat /\ Offered \in Nat
      /\ qty[r] \in 0..Offered /\ qty'[r] \in 0..Offered
      /\ qty[r] \in Nat /\ qty'[r] \in Nat
  BY UnitsFinite, OfferAssumption DEF TypeOK
<1>2. UnitsIn(C, qty') = UnitsIn(C, qty) BY UnitsSame DEF ItemMove
<1>3. Counted \subseteq Res /\ D \subseteq Res BY DEF Counted, Away, IsAway, Stranded, IsStranded
<1>4. D \ {r} = C BY <1>3 DEF ItemMove
<1>5. C \cap {r} = {} OBVIOUS
<1>6. Cardinality(UnitsIn(C \cup {r}, qty)) = c + qty[r]
  <2>1. Cardinality(UnitsIn({r}, qty)) = qty[r] BY <1>1, UnitsOfOne
  <2>2. Cardinality(UnitsIn(C \cup {r}, qty)) = c + Cardinality(UnitsIn({r}, qty))
    BY <1>5, UnitsOfBoth
  <2> QED BY <2>1, <2>2
<1>7. Cardinality(UnitsIn(C \cup {r}, qty')) = c + qty'[r]
  <2>1. Cardinality(UnitsIn({r}, qty')) = qty'[r] BY <1>1, UnitsOfOne
  <2>2. Cardinality(UnitsIn(C \cup {r}, qty'))
          = Cardinality(UnitsIn(C, qty')) + Cardinality(UnitsIn({r}, qty'))
    BY <1>5, UnitsOfBoth
  <2> QED BY <1>2, <2>1, <2>2
<1>8. Cardinality(UnitsIn(Counted, qty)) = IF r \in Counted THEN c + qty[r] ELSE c
  <2>1. CASE r \in Counted
    <3>1. Counted = C \cup {r} BY <2>1
    <3> QED BY <1>6, <2>1, <3>1
  <2>2. CASE r \notin Counted
    <3>1. Counted = C BY <2>2
    <3> QED BY <2>2, <3>1
  <2> QED BY <2>1, <2>2
<1>9. Cardinality(UnitsIn(D, qty')) = IF r \in D THEN c + qty'[r] ELSE c
  <2>1. CASE r \in D
    <3>1. D = C \cup {r} BY <1>4, <2>1
    <3> QED BY <1>7, <2>1, <3>1
  <2>2. CASE r \notin D
    <3>1. D = C BY <1>4, <2>2
    <3> QED BY <1>2, <2>2, <3>1
  <2> QED BY <2>1, <2>2
<1> DEFINE m == Cardinality(UnitsIn(Counted, qty))
           n == Cardinality(UnitsIn(D, qty'))
<1>10. left + m = Offered BY DEF ItemsFit
<1>11. \/ left' = left /\ n = m
       \/ left' = left - qty'[r] /\ m = c /\ n = c + qty'[r]
       \/ left' = left + qty[r] /\ m = c + qty[r] /\ n = c
  BY <1>8, <1>9 DEF ItemMove
<1>12. m \in Nat /\ n \in Nat /\ c \in Nat BY UnitsFinite
<1> DEFINE x == qty'[r]
           y == qty[r]
           k == left'
<1>13. /\ x \in Nat /\ y \in Nat /\ k \in Nat
       /\ \/ k = left /\ n = m
          \/ k = left - x /\ m = c /\ n = c + x
          \/ k = left + y /\ m = c + y /\ n = c
  BY <1>1, <1>11
<1>14. k + n = Offered
  <2> HIDE DEF m, n, c, x, y, k
  <2>1. CASE k = left /\ n = m BY <1>10, <2>1
  <2>2. CASE k = left - x /\ m = c /\ n = c + x BY <1>1, <1>10, <1>12, <1>13, <2>2
  <2>3. CASE k = left + y /\ m = c + y /\ n = c BY <1>1, <1>10, <1>12, <1>13, <2>3
  <2> QED BY <1>13, <2>1, <2>2, <2>3
<1> QED BY <1>14 DEF ItemsFit

LEMMA ExpireFits == ASSUME TypeOK, TypeOK', Rows, ItemsFit, ExpireListing PROVE ItemsFit'
<1>1. qty' = qty BY DEF ExpireListing
<1>2. Counted = Counted' \cup Expiring /\ Counted' \cap Expiring = {}
  BY DEF Counted, Away, IsAway, Stranded, IsStranded, Expiring, ExpireListing, TypeOK
<1> DEFINE m == Cardinality(UnitsIn(Counted, qty))
           n == Cardinality(UnitsIn(Counted', qty))
           e == Cardinality(UnitsIn(Expiring, qty))
<1>3. Cardinality(UnitsIn(Counted' \cup Expiring, qty)) = n + e BY <1>2, UnitsOfBoth
<1>4. m = n + e BY <1>2, <1>3
<1>5. m \in Nat /\ n \in Nat /\ e \in Nat BY UnitsFinite
<1>6. left' = left + e BY UnitsNow DEF ExpireListing
<1>7. left \in Nat /\ left + m = Offered BY DEF TypeOK, ItemsFit
<1>8. left' + n = Offered
  <2> HIDE DEF m, n, e
  <2> QED BY ONLY <1>4, <1>5, <1>6, <1>7
<1> QED BY <1>1, <1>8 DEF ItemsFit

LEMMA FitsStep == TypeOK /\ TypeOK' /\ Rows /\ ItemsFit /\ [Next]_vars => ItemsFit'
<1> SUFFICES ASSUME TypeOK, TypeOK', Rows, ItemsFit, [Next]_vars PROVE ItemsFit' OBVIOUS
<1>0. ASSUME left' = left, qty' = qty, Counted' = Counted PROVE ItemsFit'
  BY <1>0 DEF ItemsFit
<1>1. CASE UNCHANGED vars BY <1>0, <1>1 DEF vars, Counted, Away, IsAway, Stranded, IsStranded
<1>2. CASE QuietStep
  BY <1>0, <1>2 DEF QuietStep, RequestStep, RequestChecked, RequestInserted, RejectRequest,
                    Tick, StartChecked, StartRefused, ReturnStep, PaidAgain,
                    QueueRefund, RefundUnqueued, rowVars, listingVars,
                    Counted, Away, IsAway, Stranded, IsStranded
<1>3. ASSUME NEW v \in Vols, NEW r \in Res, StartTask(v, r) PROVE ItemsFit'
  <2>1. Counted' = Counted BY <1>3 DEF StartTask, Counted, Away, IsAway, Stranded, IsStranded, TypeOK
  <2> QED BY <1>0, <1>3, <2>1 DEF StartTask, listingVars
<1> QED BY <1>1, <1>2, <1>3, ExpireFits, ItemMoves, ItemMoveFits, NextSplit

-----------------------------------------------------------------------------
(* Statistics.                                                              *)

Delivered(v) == {r \in Res : by[r] = v /\ task[r] = "delivered"}
Failed(v)    == {r \in Res : by[r] = v /\ task[r] = "failed"}

LEMMA CountAdds ==
    ASSUME NEW S \in SUBSET Res, NEW r, r \notin S
    PROVE  Cardinality(S \cup {r}) = Cardinality(S) + 1
<1>1. IsFiniteSet(S) BY ResAssumption, FS_Subset
<1> QED BY <1>1, FS_AddElement

LEMMA DeliveryCounted ==
    ASSUME TypeOK, StatisticsAgree, NEW r \in Res, CompleteTask(r) PROVE StatisticsAgree'
<1> USE DEF StatisticsAgree, TypeOK
<1>1. ASSUME NEW v \in Vols
      PROVE  /\ completed'[v] = Cardinality(Delivered(v)')
             /\ timeouts'[v] = Cardinality(Failed(v)')
  <2>1. Failed(v)' = Failed(v) BY DEF CompleteTask, Failed
  <2>2. timeouts'[v] = Cardinality(Failed(v)') BY <2>1 DEF CompleteTask, Failed
  <2>3. CASE by[r] = v
    <3>1. Delivered(v)' = Delivered(v) \cup {r} /\ r \notin Delivered(v)
      BY <2>3 DEF CompleteTask, Delivered
    <3>0. Delivered(v) \in SUBSET Res BY DEF Delivered
    <3>2. Cardinality(Delivered(v)') = Cardinality(Delivered(v)) + 1
      <4>1. Cardinality(Delivered(v) \cup {r}) = Cardinality(Delivered(v)) + 1
        BY <3>0, <3>1, CountAdds
      <4> QED BY <3>1, <4>1
    <3>3. completed'[v] = completed[v] + 1 BY <2>3 DEF CompleteTask
    <3>4. completed[v] = Cardinality(Delivered(v)) BY DEF Delivered
    <3> QED BY <2>2, <3>2, <3>3, <3>4
  <2>4. CASE by[r] # v
    <3>1. Delivered(v)' = Delivered(v) BY <2>4 DEF CompleteTask, Delivered
    <3> QED BY <2>2, <2>4, <3>1 DEF CompleteTask, Delivered
  <2> QED BY <2>3, <2>4
<1> QED BY <1>1 DEF Delivered, Failed

LEMMA FailureCounted ==
    ASSUME TypeOK, StatisticsAgree, NEW r \in Res, Fail(r), status[r] = "reserved",
           task[r] \in ActiveTask
    PROVE  StatisticsAgree'
<1> USE DEF StatisticsAgree, TypeOK, ActiveTask
<1>1. ASSUME NEW v \in Vols
      PROVE  /\ completed'[v] = Cardinality(Delivered(v)')
             /\ timeouts'[v] = Cardinality(Failed(v)')
  <2>1. Delivered(v)' = Delivered(v) BY DEF Fail, Delivered
  <2>2. completed'[v] = Cardinality(Delivered(v)') BY <2>1 DEF Fail, Delivered
  <2>3. CASE by[r] = v
    <3>1. Failed(v)' = Failed(v) \cup {r} /\ r \notin Failed(v)
      BY <2>3 DEF Fail, Failed
    <3>0. Failed(v) \in SUBSET Res BY DEF Failed
    <3>2. Cardinality(Failed(v)') = Cardinality(Failed(v)) + 1
      <4>1. Cardinality(Failed(v) \cup {r}) = Cardinality(Failed(v)) + 1
        BY <3>0, <3>1, CountAdds
      <4> QED BY <3>1, <4>1
    <3>3. timeouts'[v] = timeouts[v] + 1 BY <2>3 DEF Fail
    <3>4. timeouts[v] = Cardinality(Failed(v)) BY DEF Failed
    <3> QED BY <2>2, <3>2, <3>3, <3>4
  <2>4. CASE by[r] # v
    <3>1. Failed(v)' = Failed(v) BY <2>4 DEF Fail, Failed
    <3> QED BY <2>2, <2>4, <3>1 DEF Fail, Failed
  <2> QED BY <2>3, <2>4
<1> QED BY <1>1 DEF Delivered, Failed

LEMMA StatisticsStep == TypeOK /\ Rows /\ StatisticsAgree /\ [Next]_vars => StatisticsAgree'
<1> SUFFICES ASSUME TypeOK, Rows, StatisticsAgree, [Next]_vars PROVE StatisticsAgree' OBVIOUS
<1>0. ASSUME completed' = completed, timeouts' = timeouts,
             \A v \in Vols : Delivered(v)' = Delivered(v) /\ Failed(v)' = Failed(v)
      PROVE  StatisticsAgree'
  BY <1>0 DEF StatisticsAgree, Delivered, Failed
<1> USE DEF Delivered, Failed, TypeOK
<1>1. CASE UNCHANGED vars BY <1>0, <1>1 DEF vars
<1>2. CASE QuietStep
  BY <1>0, <1>2 DEF QuietStep, RequestStep, RequestChecked, RequestInserted, RejectRequest,
                    Tick, StartChecked, StartRefused, ReturnStep, PaidAgain,
                    QueueRefund, RefundUnqueued, rowVars, statVars
<1>3. CASE ExpireListing BY <1>0, <1>3 DEF ExpireListing, Expiring, statVars
<1>4. ASSUME NEW v \in Vols, NEW r \in Res, StartTask(v, r) PROVE StatisticsAgree'
  BY <1>0, <1>4 DEF StartTask, statVars
<1>5. ASSUME NEW r \in Res, RowStep(r) PROVE StatisticsAgree'
  <2> USE DEF rowVars, statVars
  <2>1. CASE ReserveStep(r)
    BY <1>0, <2>1 DEF ReserveStep, BulkReserve, AcceptRequest, Insert, Rows, RowAgrees
  <2>2. CASE MoneyStep(r)
    BY <1>0, <2>2 DEF MoneyStep, DepositPaid, ReleaseHold, ProcessPaid, CancelNgo
  <2>3. CASE SchedulePickup(r) \/ ConfirmPickup(r) \/ ScheduleDelivery(r) \/ HandlerDies(r)
    BY <1>0, <2>3 DEF SchedulePickup, ConfirmPickup, ScheduleDelivery, HandlerDies
  <2>4. CASE StaleTimeout(r) BY <1>0, <2>4 DEF StaleTimeout
  <2>5. CASE PickupTimeout(r)
    BY <2>5, FailureCounted DEF PickupTimeout, OverduePickup, ActiveTask
  <2>6. CASE DeliveryTimeout(r)
    BY <2>6, FailureCounted DEF DeliveryTimeout, OverdueDelivery, ActiveTask
  <2>7. CASE CompleteTask(r) BY <2>7, DeliveryCounted
  <2> QED BY <1>5, <2>1, <2>2, <2>3, <2>4, <2>5, <2>6, <2>7 DEF RowStep, TaskStep, TimeoutStep
<1> QED BY <1>1, <1>2, <1>3, <1>4, <1>5, NextSplit

-----------------------------------------------------------------------------
(* The inductive invariant and the theorems.                                *)

Inductive == /\ TypeOK /\ Rows /\ ItemsFit
             /\ OneTaskEach /\ StatisticsAgree /\ DepositFollowsTask /\ RequestsAgree

LEMMA InductiveInit == Init => Inductive
<1> SUFFICES ASSUME Init PROVE Inductive OBVIOUS
<1> USE DEF Init, None
<1>1. TypeOK BY OfferAssumption DEF TypeOK, ReqStates, Statuses, TaskStates
<1>2. Rows BY DEF Rows, RowAgrees, Over
<1>3. ItemsFit
  <2>1. UnitsIn(Counted, qty) = {} BY DEF UnitsIn, Counted, Away, IsAway, Stranded, IsStranded
  <2>2. Cardinality(UnitsIn(Counted, qty)) = 0 BY <2>1, FS_EmptySet
  <2> QED BY <2>2, OfferAssumption DEF ItemsFit
<1>4. OneTaskEach BY DEF OneTaskEach, ActiveTask
<1>5. StatisticsAgree
  <2>1. \A v \in Vols : Delivered(v) = {} /\ Failed(v) = {} BY DEF Delivered, Failed
  <2> QED BY <2>1, FS_EmptySet DEF StatisticsAgree, Delivered, Failed
<1>6. DepositFollowsTask /\ RequestsAgree BY DEF DepositFollowsTask, RequestsAgree
<1> QED BY <1>1, <1>2, <1>3, <1>4, <1>5, <1>6 DEF Inductive

LEMMA LeftBounded == ASSUME TypeOK, ItemsFit PROVE left <= Offered
<1> DEFINE m == Cardinality(UnitsIn(Counted, qty))
<1>1. m \in Nat /\ left \in Nat /\ left + m = Offered BY UnitsFinite DEF TypeOK, ItemsFit
<1> QED BY ONLY <1>1

LEMMA InductiveAlways == Spec => []Inductive
<1>1. Inductive /\ [Next]_vars => Inductive'
  <2> SUFFICES ASSUME Inductive, [Next]_vars PROVE Inductive' OBVIOUS
  <2>1. TypeOK' BY LeftBounded, TypeStep DEF Inductive
  <2> QED BY <2>1, RowsStep, FitsStep, OneTaskStep, StatisticsStep, DepositStep, RequestsStep
          DEF Inductive
<1> QED BY <1>1, InductiveInit, PTL DEF Spec

\* Types: the remaining quantity never goes below zero.
THEOREM NgoTypes == Spec => []TypeOK
BY InductiveAlways, PTL DEF Inductive

\* One task each: however many startTask requests pass the unlocked check,
\* the partial unique index keeps a volunteer to one task.
THEOREM AlwaysOneTask == Spec => []OneTaskEach
BY InductiveAlways, PTL DEF Inductive

\* Confirmation, delivery and the two timeout workers count each task once.
THEOREM AlwaysStatistics == Spec => []StatisticsAgree
BY InductiveAlways, PTL DEF Inductive

\* The deposit of an NGO is kept exactly for a reservation that failed; that of
\* one served or cancelled is not sent back only while its handler has yet to
\* queue the refund, or died before it did.
THEOREM AlwaysDeposit == Spec => []DepositFollowsTask
BY InductiveAlways, PTL DEF Inductive

\* A request is accepted exactly when a reservation made from it is
\* confirmed, although its deposit is paid long after.
THEOREM AlwaysRequests == Spec => []RequestsAgree
BY InductiveAlways, PTL DEF Inductive

\* No item is lost but those of a paid reservation that failed to activate.
THEOREM AlwaysAccounted == Spec => []ItemsAccounted
<1>1. Inductive => ItemsAccounted
  BY UnitsNow DEF Inductive, ItemsFit, ItemsAccounted, Counted
<1> QED BY <1>1, InductiveAlways, PTL

\* A task that is delivered, failed or expired is left alone by everything
\* that comes late, but for its deposit on the way back.
THEOREM AlwaysDecidedOnce == Spec => DecidedOnce
<1> DEFINE Stands(r) == task[r] \in Over =>
               /\ task'[r] = task[r] /\ status'[r] = status[r] /\ by'[r] = by[r]
               /\ \/ deposit'[r] = deposit[r]
                  \/ r \in returning /\ deposit[r] = "held" /\ deposit'[r] = "back"
           Standing == \A r \in Res : Stands(r)
<1>1. ASSUME Inductive, [Next]_vars PROVE Standing
  <2> SUFFICES ASSUME NEW r \in Res PROVE Stands(r) OBVIOUS
  <2> USE <1>1 DEF Inductive, TypeOK, Rows, RowAgrees, Over
  <2>1. CASE UNCHANGED vars BY <2>1 DEF vars
  <2>2. CASE QuietStep
    BY <2>2 DEF QuietStep, RequestStep, RequestChecked, RequestInserted, RejectRequest, Tick,
                StartChecked, StartRefused, ReturnStep, PaidAgain,
                QueueRefund, RefundUnqueued, rowVars, moneyVars
  <2>3. CASE ExpireListing BY <2>3 DEF ExpireListing, Expiring
  <2>4. ASSUME NEW v \in Vols, NEW t \in Res, StartTask(v, t) PROVE Stands(r)
    BY <2>4 DEF StartTask, moneyVars
  <2>5. ASSUME NEW t \in Res, RowStep(t) PROVE Stands(r)
    <3> USE DEF rowVars, moneyVars
    <3>1. CASE ReserveStep(t)
      BY <3>1 DEF ReserveStep, BulkReserve, AcceptRequest, Insert
    <3>2. CASE MoneyStep(t)
      BY <3>2 DEF MoneyStep, DepositPaid, ReleaseHold, ProcessPaid, Activate,
                  ActivationFails, CancelNgo
    <3>3. CASE TaskStep(t)
      BY <3>3 DEF TaskStep, SchedulePickup, ConfirmPickup, ScheduleDelivery, HandlerDies,
                  CompleteTask
    <3>4. CASE TimeoutStep(t)
      BY <3>4 DEF TimeoutStep, PickupTimeout, OverduePickup, DeliveryTimeout,
                  OverdueDelivery, StaleTimeout, Fail
    <3> QED BY <2>5, <3>1, <3>2, <3>3, <3>4 DEF RowStep
  <2> QED BY <1>1, <2>1, <2>2, <2>3, <2>4, <2>5, NextSplit
<1>2. Inductive /\ [Next]_vars => [Standing]_vars BY <1>1
<1> QED BY <1>2, InductiveAlways, PTL DEF Spec, DecidedOnce

-----------------------------------------------------------------------------
(* Refinement of StockLedger.                                               *)

\* The phases, by what the proofs count.
LEMMA PhaseOf ==
    /\ LedgerPhase = [r \in Res |-> IF status[r] = "none" THEN "new"
                                   ELSE IF r \in Counted THEN "taken" ELSE "closed"]
    /\ LedgerPhase' = [r \in Res |-> IF status'[r] = "none" THEN "new"
                                    ELSE IF r \in Counted' THEN "taken" ELSE "closed"]
BY DEF LedgerPhase, Counted, Away, IsAway, Stranded, IsStranded

LEMMA CountedStarted == Counted \subseteq {r \in Res : status[r] # "none"}
BY DEF Counted, Away, IsAway, Stranded, IsStranded

\* The ledger counts the items of S as NgoTasks does.
LEMMA SameItems ==
    ASSUME TypeOK, NEW S \in SUBSET Res
    PROVE  Ledger!Cardinality(Ledger!TakenBy(S)) = Cardinality(UnitsIn(S, qty))
<1>1. Ledger!TakenBy(S) = UNION {{s} \X (1..qty[s]) : s \in S} BY DEF Ledger!TakenBy
<1>2. \A s \in S : qty[s] \in 0..Offered BY DEF TypeOK
<1>3. ASSUME NEW u \in UNION {{s} \X (1..qty[s]) : s \in S} PROVE u \in UnitsIn(S, qty)
  <2>1. PICK s \in S : u \in {s} \X (1..qty[s]) BY <1>3
  <2>2. u[2] \in 1..Offered /\ u[2] <= qty[s] BY <1>2, <2>1
  <2> QED BY <2>1, <2>2 DEF UnitsIn
<1>4. ASSUME NEW u \in UnitsIn(S, qty) PROVE u \in UNION {{s} \X (1..qty[s]) : s \in S}
  <2>1. u \in {u[1]} \X (1..qty[u[1]]) /\ u[1] \in S BY <1>2 DEF UnitsIn
  <2> QED BY <2>1
<1>5. Ledger!TakenBy(S) = UnitsIn(S, qty) BY <1>1, <1>3, <1>4
<1>6. Ledger!Cardinality(UnitsIn(S, qty)) = Cardinality(UnitsIn(S, qty))
  BY DEF Cardinality, Ledger!Cardinality
<1> QED BY <1>5, <1>6

\* What a step about row r is to the ledger: nothing, taking, or giving back.
LedgerRow(r) ==
    /\ \A s \in Res \ {r} : /\ s \in Counted' <=> s \in Counted
                            /\ qty'[s] = qty[s] /\ status'[s] = status[s]
    /\ \/ /\ left' = left /\ qty'[r] = qty[r] /\ (r \in Counted' <=> r \in Counted)
          /\ (status'[r] = "none") <=> (status[r] = "none")
       \/ /\ qty'[r] \in 1..left /\ left' = left - qty'[r]
          /\ status[r] = "none" /\ status'[r] # "none" /\ r \in Counted'
       \/ /\ left' = left + qty[r] /\ qty'[r] = qty[r] /\ status'[r] # "none"
          /\ r \in Counted /\ r \notin Counted'

LEMMA RowLedger ==
    ASSUME TypeOK, Rows, NEW r \in Res, RowStep(r) PROVE LedgerRow(r)
<1>0. ItemMove(r) BY ItemMoves
<1>1. CASE ReserveStep(r)
  <2>1. /\ status[r] = "none" /\ status'[r] \in {"payment_pending", "reserved"}
        /\ qty'[r] \in 1..left /\ left' = left - qty'[r]
        /\ \A s \in Res \ {r} : status'[s] = status[s]
    BY <1>1 DEF ReserveStep, BulkReserve, AcceptRequest, Insert, Admits, TypeOK
  <2>2. r \in Counted' BY <2>1 DEF Counted, Away, IsAway
  <2> QED BY <1>0, <2>1, <2>2 DEF LedgerRow, ItemMove
<1>2. CASE ~ReserveStep(r)
  <2> USE DEF TypeOK, Rows, RowAgrees, rowVars, listingVars
  <2>1. /\ (status'[r] = "none") <=> (status[r] = "none")
        /\ \A s \in Res \ {r} : status'[s] = status[s]
    <3>1. CASE MoneyStep(r)
      BY <3>1 DEF MoneyStep, DepositPaid, ReleaseHold, ProcessPaid, Activate,
                  ActivationFails, CancelNgo
    <3>2. CASE TaskStep(r)
      BY <3>2 DEF TaskStep, SchedulePickup, ConfirmPickup, ScheduleDelivery, HandlerDies,
                  CompleteTask
    <3>3. CASE TimeoutStep(r)
      BY <3>3 DEF TimeoutStep, PickupTimeout, OverduePickup, DeliveryTimeout,
                  OverdueDelivery, StaleTimeout, Fail
    <3> QED BY <1>2, <3>1, <3>2, <3>3 DEF RowStep
  <2>2. r \in Counted' => r \in Counted
    <3> USE DEF Counted, Away, IsAway, Stranded, IsStranded, RestoreIfHeld
    <3>1. CASE MoneyStep(r)
      BY <3>1 DEF MoneyStep, DepositPaid, ReleaseHold, ProcessPaid, Activate,
                  ActivationFails, CancelNgo
    <3>2. CASE TaskStep(r)
      BY <3>2 DEF TaskStep, SchedulePickup, ConfirmPickup, ScheduleDelivery, HandlerDies,
                  CompleteTask
    <3>3. CASE TimeoutStep(r)
      BY <3>3 DEF TimeoutStep, PickupTimeout, OverduePickup, DeliveryTimeout,
                  OverdueDelivery, StaleTimeout, Fail
    <3> QED BY <1>2, <3>1, <3>2, <3>3 DEF RowStep
  <2>3. r \in Counted => status'[r] # "none" BY <2>1, CountedStarted
  <2> QED BY <1>0, <2>1, <2>2, <2>3 DEF LedgerRow, ItemMove
<1> QED BY <1>1, <1>2

\* Such a step is a step of the ledger.
LEMMA LedgerMove ==
    ASSUME TypeOK, TypeOK', NEW r \in Res, LedgerRow(r)
    PROVE  [Ledger!Next]_Ledger!ledgerVars
<1> DEFINE P(s) == IF status[s] = "none" THEN "new"
                   ELSE IF s \in Counted THEN "taken" ELSE "closed"
           Q(s) == IF status'[s] = "none" THEN "new"
                   ELSE IF s \in Counted' THEN "taken" ELSE "closed"
<1>1. LedgerPhase = [s \in Res |-> P(s)] /\ LedgerPhase' = [s \in Res |-> Q(s)]
  BY PhaseOf
<1>2. \A s \in Res \ {r} : Q(s) = P(s) /\ qty'[s] = qty[s] BY DEF LedgerRow
<1>3. qty \in [Res -> 0..Offered] /\ qty' \in [Res -> 0..Offered] BY DEF TypeOK
<1>4. CASE /\ left' = left /\ qty'[r] = qty[r] /\ (r \in Counted' <=> r \in Counted)
           /\ (status'[r] = "none") <=> (status[r] = "none")
  <2>1. Q(r) = P(r) BY <1>4
  <2>2. LedgerPhase' = LedgerPhase BY <1>1, <1>2, <2>1
  <2>3. qty' = qty BY <1>2, <1>3, <1>4
  <2> QED BY <1>4, <2>2, <2>3 DEF Ledger!ledgerVars
<1>5. CASE /\ qty'[r] \in 1..left /\ left' = left - qty'[r]
           /\ status[r] = "none" /\ status'[r] # "none" /\ r \in Counted'
  <2>1. P(r) = "new" /\ Q(r) = "taken" BY <1>5
  <2> HIDE DEF P, Q
  <2>2. LedgerPhase' = [LedgerPhase EXCEPT ![r] = "taken"] BY <1>1, <1>2, <2>1
  <2>3. qty' = [qty EXCEPT ![r] = qty'[r]] BY <1>2, <1>3
  <2>4. Ledger!Take(r) BY <1>1, <1>5, <2>1, <2>2, <2>3 DEF Ledger!Take
  <2> QED BY <2>4 DEF Ledger!Next
<1>6. CASE /\ left' = left + qty[r] /\ qty'[r] = qty[r] /\ status'[r] # "none"
           /\ r \in Counted /\ r \notin Counted'
  <2>1. P(r) = "taken" /\ Q(r) = "closed" BY <1>6, CountedStarted
  <2>2. Ledger!Cardinality(Ledger!TakenBy({r})) = qty[r]
    BY <1>3, SameItems, UnitsOfOne
  <2> HIDE DEF P, Q
  <2>3. LedgerPhase' = [s \in Res |-> IF s \in {r} THEN "closed" ELSE LedgerPhase[s]]
    BY <1>1, <1>2, <2>1
  <2>4. qty' = qty BY <1>2, <1>3, <1>6
  <2>5. Ledger!GiveBack({r}) BY <1>1, <1>6, <2>1, <2>2, <2>3, <2>4 DEF Ledger!GiveBack
  <2> QED BY <2>5 DEF Ledger!Next
<1> QED BY <1>4, <1>5, <1>6 DEF LedgerRow

\* The expiry worker gives back what no volunteer has started.
LEMMA LedgerExpires ==
    ASSUME TypeOK, TypeOK', Rows, ExpireListing PROVE Ledger!GiveBack(Expiring)
<1>1. qty' = qty /\ left' = left + Cardinality(UnitsIn(Expiring, qty))
  BY UnitsNow DEF ExpireListing
<1>2. Counted = Counted' \cup Expiring /\ Counted' \cap Expiring = {}
  BY DEF Counted, Away, IsAway, Stranded, IsStranded, Expiring, ExpireListing, TypeOK
<1>3. \A s \in Res : /\ (status'[s] = "none") <=> (status[s] = "none")
                     /\ s \in Expiring => status[s] # "none"
  BY DEF ExpireListing, Expiring, TypeOK
<1>4. \A s \in Expiring : LedgerPhase[s] = "taken" BY <1>2, <1>3, PhaseOf DEF Expiring
<1>5. LedgerPhase' = [s \in Res |-> IF s \in Expiring THEN "closed" ELSE LedgerPhase[s]]
  BY <1>2, <1>3, PhaseOf
<1>6. Ledger!Cardinality(Ledger!TakenBy(Expiring)) = Cardinality(UnitsIn(Expiring, qty))
  BY SameItems DEF Expiring
<1> QED BY <1>1, <1>4, <1>5, <1>6 DEF Ledger!GiveBack

LEMMA LedgerStep ==
    ASSUME TypeOK, TypeOK', Rows, [Next]_vars PROVE [Ledger!Next]_Ledger!ledgerVars
<1>0. ASSUME left' = left, qty' = qty, Counted' = Counted,
             \A s \in Res : (status'[s] = "none") <=> (status[s] = "none")
      PROVE  UNCHANGED Ledger!ledgerVars
  <2>1. LedgerPhase' = LedgerPhase BY <1>0, PhaseOf
  <2> QED BY <1>0, <2>1 DEF Ledger!ledgerVars
<1>1. CASE UNCHANGED vars BY <1>0, <1>1 DEF vars, Counted, Away, IsAway, Stranded, IsStranded
<1>2. CASE QuietStep
  BY <1>0, <1>2 DEF QuietStep, RequestStep, RequestChecked, RequestInserted, RejectRequest,
                    Tick, StartChecked, StartRefused, ReturnStep, PaidAgain,
                    QueueRefund, RefundUnqueued, rowVars, listingVars,
                    Counted, Away, IsAway, Stranded, IsStranded
<1>3. ASSUME NEW v \in Vols, NEW r \in Res, StartTask(v, r)
      PROVE  UNCHANGED Ledger!ledgerVars
  <2>1. Counted' = Counted BY <1>3 DEF StartTask, Counted, Away, IsAway, Stranded, IsStranded, TypeOK
  <2> QED BY <1>0, <1>3, <2>1 DEF StartTask, listingVars
<1>4. CASE ExpireListing
  <2>1. Expiring \in SUBSET Res BY DEF Expiring
  <2> QED BY <1>4, <2>1, LedgerExpires DEF Ledger!Next
<1>5. ASSUME NEW r \in Res, RowStep(r) PROVE [Ledger!Next]_Ledger!ledgerVars
  BY <1>5, RowLedger, LedgerMove
<1> QED BY <1>1, <1>2, <1>3, <1>4, <1>5, NextSplit

\* Through whichever of failed deposit, cancellation, pickup timeout and expiry
\* a reservation of an NGO ends, its food was taken once and goes back at most
\* once: NgoTasks implements the ledger of the listing's stock, as PaymentHold
\* does.
THEOREM ImplementsLedger == Spec => KeepsLedger
<1>1. Init => Ledger!Init
  BY DEF Init, Ledger!Init, LedgerPhase, None
<1>2. Inductive /\ Inductive' /\ [Next]_vars => [Ledger!Next]_Ledger!ledgerVars
  BY LedgerStep DEF Inductive
<1> QED BY <1>1, <1>2, InductiveAlways, PTL DEF Spec, KeepsLedger, Ledger!Spec

=============================================================================
