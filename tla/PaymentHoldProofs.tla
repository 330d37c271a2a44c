-------------------------- MODULE PaymentHoldProofs --------------------------
(***************************************************************************)
(* Proofs about PaymentHold, for every set of reservations and customers,  *)
(* every quantity and every bound on faults and edits.                     *)
(*                                                                         *)
(* TypeOK is inductive by itself.  RowInv says of one reservation how its  *)
(* row, its payment row, its attempt, its order, the request that creates  *)
(* it and the reads and notices about it fit together; an action changes   *)
(* it for one reservation only, and there it follows from RowInv before    *)
(* the step: each of those lemmas has a case for the reservation the       *)
(* action is about and one for the others.                                 *)
(*                                                                         *)
(* From the rows follows what they imply together: a customer's one live   *)
(* reservation, the conservation of stock, the steps that never happen,    *)
(* and the refinement of StockLedger.  StockMove sums up what an action    *)
(* about one reservation does to stock: it keeps what is held, takes the   *)
(* items of r, or returns them.                                            *)
(***************************************************************************)
EXTENDS PaymentHold, FiniteSetTheorems, TLAPS

-----------------------------------------------------------------------------
(* Items.                                                                   *)

LEMMA UnitsFinite == ASSUME NEW S PROVE IsFiniteSet(UnitsOf(S))
<1>1. IsFiniteSet({1} \cup {2}) BY FS_Singleton, FS_AddElement
<1>2. IsFiniteSet({1, 2})
  <2>1. {1, 2} = {1} \cup {2} OBVIOUS
  <2> QED BY <1>1, <2>1
<1>3. IsFiniteSet(Res \X {1, 2}) BY <1>2, ResAssumption, FS_Product
<1>4. UnitsOf(S) \subseteq Res \X {1, 2} BY DEF UnitsOf
<1> QED BY <1>3, <1>4, FS_Subset

LEMMA UnitsNat == ASSUME NEW S PROVE Cardinality(UnitsOf(S)) \in Nat
BY UnitsFinite, FS_CardinalityType

\* One reservation asks for as many items as it says.
LEMMA UnitsOfOne == ASSUME NEW r \in Res PROVE Cardinality(UnitsOf({r})) = Qty[r]
<1>1. Qty[r] \in {1, 2} BY QtyAssumption
<1>2. CASE Qty[r] = 1
  <2>1. UnitsOf({r}) = {<<r, 1>>} BY <1>2 DEF UnitsOf
  <2> QED BY <1>2, <2>1, FS_Singleton
<1>3. CASE Qty[r] = 2
  <2>1. UnitsOf({r}) = {<<r, 1>>} \cup {<<r, 2>>} BY <1>3 DEF UnitsOf
  <2>2. <<r, 2>> \notin {<<r, 1>>} OBVIOUS
  <2>3. IsFiniteSet({<<r, 1>>}) /\ Cardinality({<<r, 1>>}) = 1 BY FS_Singleton
  <2>4. Cardinality({<<r, 1>>} \cup {<<r, 2>>}) = Cardinality({<<r, 1>>}) + 1
    BY <2>2, <2>3, FS_AddElement
  <2> QED BY <1>3, <2>1, <2>3, <2>4
<1> QED BY <1>1, <1>2, <1>3

\* The items of two disjoint sets of reservations add up.
LEMMA UnitsOfBoth ==
    ASSUME NEW S, NEW T, S \cap T = {}
    PROVE  Cardinality(UnitsOf(S \cup T))
               = Cardinality(UnitsOf(S)) + Cardinality(UnitsOf(T))
<1>1. UnitsOf(S \cup T) = UnitsOf(S) \cup UnitsOf(T) BY DEF UnitsOf
<1>2. UnitsOf(S) \cap UnitsOf(T) = {} BY DEF UnitsOf
<1>3. Cardinality(UnitsOf(S) \cap UnitsOf(T)) = 0 BY <1>2, FS_EmptySet
<1>4. Cardinality(UnitsOf(S) \cup UnitsOf(T))
         = Cardinality(UnitsOf(S)) + Cardinality(UnitsOf(T))
             - Cardinality(UnitsOf(S) \cap UnitsOf(T))
  BY UnitsFinite, FS_Union
<1>5. Cardinality(UnitsOf(S)) \in Nat /\ Cardinality(UnitsOf(T)) \in Nat
  BY UnitsNat
<1>6. Cardinality(UnitsOf(S)) + Cardinality(UnitsOf(T)) - 0
         = Cardinality(UnitsOf(S)) + Cardinality(UnitsOf(T))
  BY <1>5
<1>7. Cardinality(UnitsOf(S \cup T)) = Cardinality(UnitsOf(S) \cup UnitsOf(T))
  BY <1>1
<1> QED BY ONLY <1>3, <1>4, <1>6, <1>7, Zenon

LEMMA QtyPositive == ASSUME NEW r \in Res PROVE Qty[r] \in Nat /\ Qty[r] > 0
BY QtyAssumption

-----------------------------------------------------------------------------
(* Type correctness.                                                        *)

StockType == /\ remaining \in Nat /\ listing \in ListingStatuses
             /\ held \in [Res -> BOOLEAN]
RowType   == /\ status \in [Res -> Statuses] /\ payStatus \in [Res -> PayStatuses]
             /\ initializing \in [Res -> BOOLEAN]
PaymentType == payment \in [Res -> PayStatuses]
JobType   == /\ refundJob \in [Res -> {"none", "queued", "done"}]
             /\ faults \in Nat /\ edits \in Nat
ReadType  == reads \subseteq Res \X Sweeps \X Views

LEMMA RestoreTyped ==
    ASSUME TypeOK, NEW r \in Res, RestoreIfHeld(r) PROVE StockType'
BY QtyPositive DEF TypeOK, StockType, RestoreIfHeld, ListingStatuses

LEMMA FailTyped ==
    ASSUME TypeOK, NEW r \in Res, FailHold(r) PROVE StockType' /\ RowType'
<1>1. CASE Pending(r)
  <2>1. StockType' BY <1>1, RestoreTyped DEF FailHold, FailRows
  <2>2. RowType' BY <1>1 DEF TypeOK, RowType, FailHold, FailRows, Statuses,
                            Released, PayStatuses
  <2> QED BY <2>1, <2>2
<1>2. CASE ~Pending(r)
  BY <1>2 DEF TypeOK, StockType, RowType, FailHold, stockVars, rowVars
<1> QED BY <1>1, <1>2

LEMMA ReleaseTyped ==
    ASSUME TypeOK, NEW r \in Res, NEW to \in {"failed", "expired"},
           NEW into \in Released, Release(r, to, into)
    PROVE  /\ StockType' /\ PaymentType'
           /\ status' \in [Res -> Statuses] /\ payStatus' \in [Res -> PayStatuses]
<1>1. StockType' BY RestoreTyped DEF Release
<1>2. PaymentType' BY DEF TypeOK, PaymentType, Release, PayStatuses
<1>3. status' \in [Res -> Statuses] BY DEF TypeOK, Release, Statuses
<1>4. payStatus' \in [Res -> PayStatuses] BY DEF TypeOK, Release, PayStatuses
<1> QED BY <1>1, <1>2, <1>3, <1>4

LEMMA ReleaseIfPendingTyped ==
    ASSUME TypeOK, NEW r \in Res, NEW to \in {"failed", "expired"},
           ReleaseIfPending(r, to)
    PROVE  /\ StockType' /\ PaymentType'
           /\ status' \in [Res -> Statuses] /\ payStatus' \in [Res -> PayStatuses]
<1>1. CASE \E into \in Released : Release(r, to, into) BY <1>1, ReleaseTyped
<1>2. CASE UNCHANGED <<stockVars, status, payStatus, payment>>
  BY <1>2 DEF TypeOK, StockType, PaymentType, stockVars
<1>3. {"expired_payment", "payment_failed"} \subseteq Released BY DEF Released
<1> QED BY <1>1, <1>2, <1>3 DEF ReleaseIfPending

LEMMA ProcessFailedTyped ==
    ASSUME TypeOK, NEW r \in Res, NEW to \in {"failed", "expired"},
           ProcessFailed(r, to)
    PROVE  StockType' /\ RowType' /\ PaymentType' /\ JobType'
<1>1. /\ StockType' /\ PaymentType'
      /\ status' \in [Res -> Statuses] /\ payStatus' \in [Res -> PayStatuses]
  BY ReleaseIfPendingTyped DEF ProcessFailed, TypeOK, StockType, PaymentType, stockVars
<1>2. initializing' = initializing /\ JobType'
  BY DEF ProcessFailed, TypeOK, JobType, boundVars
<1> QED BY <1>1, <1>2 DEF TypeOK, RowType

LEMMA ProcessPaidTyped ==
    ASSUME TypeOK, NEW r \in Res, NEW p \in PayStatuses, ProcessPaid(r, p)
    PROVE  StockType' /\ RowType' /\ PaymentType' /\ JobType'
<1>1. StockType' BY DEF ProcessPaid, TypeOK, StockType, stockVars
<1>2. PaymentType' BY DEF ProcessPaid, PaidRows, TypeOK, PaymentType, PayStatuses,
                         RefundStates
<1>3. RowType' BY DEF ProcessPaid, PaidRows, TypeOK, RowType, PayStatuses,
                     RefundStates, Statuses
<1>4. JobType' BY DEF ProcessPaid, EnqueueIf, Enqueue, Fault, TypeOK, JobType, boundVars
<1> QED BY <1>1, <1>2, <1>3, <1>4

\* What a worker reads is one of the views, and it sees an order as paid only
\* if it is.
LEMMA SeesPaid ==
    ASSUME TypeOK, NEW r \in Res, NEW v \in View(r)
    PROVE  v \in Views /\ (v = "paid" => order[r] = "paid")
<1>1. order[r] \in OrderStates BY DEF TypeOK
<1>2. CASE order[r] = "absent" BY <1>2 DEF View, Views
<1>3. CASE order[r] = "active" BY <1>3 DEF View, Views
<1>4. CASE order[r] = "declined" BY <1>4 DEF View, Views
<1>5. CASE order[r] \in {"paid", "expired"} BY <1>5 DEF View, Views
<1> QED BY <1>1, <1>2, <1>3, <1>4, <1>5 DEF OrderStates

LEMMA ReadTyped ==
    ASSUME TypeOK, NEW r \in Res, NEW by \in Sweeps, ReadGateway(r, by)
    PROVE  ReadType'
BY SeesPaid DEF TypeOK, ReadType, ReadGateway

LEMMA AppliedTyped ==
    ASSUME TypeOK, NEW r, NEW by, NEW v, Applied(r, by, v) PROVE ReadType'
BY DEF TypeOK, ReadType, Applied

LEMMA CreateTyped == ASSUME TypeOK, NEW r \in Res, CreateStep(r) PROVE TypeOK'
<1> USE DEF listingVars, rowVars, attemptVars, boundVars
<1>1. CASE Reserve(r)
  BY <1>1, QtyPositive DEF TypeOK, Reserve, Available, TakeStock, ListingStatuses,
     Statuses, PayStatuses, CreatorStates
<1>2. CASE BeginSession(r)
  <2>1. /\ attempt' \in [Res -> AttemptStatuses] /\ attemptOld' \in [Res -> BOOLEAN]
        /\ creator' \in [Res -> CreatorStates]
    BY <1>2 DEF TypeOK, BeginSession, AttemptStatuses, CreatorStates
  <2> QED BY <1>2, <2>1 DEF TypeOK, BeginSession
<1>3. CASE GatewayCreates(r)
  BY <1>3 DEF TypeOK, GatewayCreates, OrderStates, CreatorStates
<1>4. CASE MarkCreated(r)
  BY <1>4 DEF TypeOK, MarkCreated, AttemptStatuses, CreatorStates
<1>5. CASE CommitSession(r)
  BY <1>5 DEF TypeOK, CommitSession, SessionRows, PayStatuses, AttemptStatuses,
     CreatorStates
<1>6. CASE CommitUnacknowledged(r)
  BY <1>6 DEF TypeOK, CommitUnacknowledged, SessionRows, Fault, PayStatuses,
     AttemptStatuses, CreatorStates
<1>7. CASE SessionError(r)
  <2>1. /\ attempt' \in [Res -> AttemptStatuses] /\ attemptOld' \in [Res -> BOOLEAN]
        /\ creator' \in [Res -> CreatorStates]
    BY <1>7 DEF TypeOK, SessionError, AttemptStatuses, CreatorStates
  <2> QED BY <1>7, <2>1 DEF TypeOK, SessionError, Fault
<1>8. CASE CleanupHold(r)
  <2>1. StockType' /\ RowType' BY <1>8, FailTyped DEF CleanupHold
  <2>2. creator' \in [Res -> CreatorStates]
    BY <1>8 DEF TypeOK, CleanupHold, CreatorStates
  <2> QED BY <1>8, <2>1, <2>2 DEF TypeOK, CleanupHold, StockType, RowType
<1>9. CASE RequestDies(r)
  BY <1>9 DEF TypeOK, RequestDies, Fault, CreatorStates
<1> QED BY <1>1, <1>2, <1>3, <1>4, <1>5, <1>6, <1>7, <1>8, <1>9 DEF CreateStep

LEMMA GatewayTyped == ASSUME TypeOK, NEW r \in Res, GatewayStep(r) PROVE TypeOK'
<1> USE DEF listingVars, rowVars, attemptVars, boundVars
<1>1. CASE CustomerPays(r)
  BY <1>1 DEF TypeOK, CustomerPays, Notify, OrderStates
<1>2. CASE CustomerDeclined(r)
  BY <1>2 DEF TypeOK, CustomerDeclined, Notify, OrderStates
<1>3. CASE OrderExpires(r)
  BY <1>3 DEF TypeOK, OrderExpires, OrderStates
<1> QED BY <1>1, <1>2, <1>3 DEF GatewayStep

LEMMA DeliverTyped == ASSUME TypeOK, NEW r \in Res, DeliverStep(r) PROVE TypeOK'
<1>1. PICK kind \in {"paid", "failed"}, copy \in Copies : Deliver(r, kind, copy)
  BY DEF DeliverStep
<1>2. payment[r] \in PayStatuses BY DEF TypeOK
<1>3. StockType' /\ RowType' /\ PaymentType' /\ JobType'
  BY <1>1, <1>2, ProcessPaidTyped, ProcessFailedTyped DEF Deliver
<1> QED BY <1>1, <1>3 DEF TypeOK, Deliver, StockType, RowType, PaymentType, JobType,
                          attemptVars

LEMMA SweepTyped == ASSUME TypeOK, NEW r \in Res, SweepStep(r) PROVE TypeOK'
<1> USE DEF listingVars, rowVars, attemptVars, boundVars
<1>0. payment[r] \in PayStatuses /\ "pending" \in PayStatuses
  BY DEF TypeOK, PayStatuses
<1>1. CASE ReadOverdueSession(r)
  <2>1. ReadType' BY <1>1, ReadTyped DEF ReadOverdueSession, Sweeps
  <2> QED BY <1>1, <2>1 DEF TypeOK, ReadOverdueSession, ReadType
<1>2. CASE ApplyOverdueSession(r)
  <2>1. PICK v \in Views : /\ Decide(r, v) /\ Applied(r, "session", v)
                           /\ UNCHANGED <<quantity, clock, overdue, refundId,
                                attemptVars, order, notices, creator>>
    BY <1>2 DEF ApplyOverdueSession
  <2>2. StockType' /\ RowType' /\ PaymentType' /\ JobType'
    BY <1>0, <2>1, ProcessPaidTyped, ProcessFailedTyped DEF Decide
  <2>3. ReadType' BY <2>1, AppliedTyped
  <2> QED BY <2>1, <2>2, <2>3 DEF TypeOK, StockType, RowType, PaymentType, JobType,
                                  ReadType
<1>3. CASE ClaimAttempt(r)
  <2>1. ReadType'
    BY <1>3, ReadTyped DEF ClaimAttempt, Sweeps, TypeOK, ReadType
  <2>2. attempt' \in [Res -> AttemptStatuses] /\ attemptOld' \in [Res -> BOOLEAN]
    BY <1>3 DEF TypeOK, ClaimAttempt, AttemptStatuses
  <2> QED BY <1>3, <2>1, <2>2 DEF TypeOK, ClaimAttempt, ReadType
<1>4. CASE ClaimInitialization(r)
  <2>1. ReadType'
    BY <1>4, ReadTyped DEF ClaimInitialization, Sweeps, Views, TypeOK, ReadType
  <2> QED BY <1>4, <2>1 DEF TypeOK, ClaimInitialization, ReadType
<1>5. CASE ApplyInitialization(r)
  <2>1. /\ StockType' /\ PaymentType'
        /\ status' \in [Res -> Statuses] /\ payStatus' \in [Res -> PayStatuses]
    BY <1>5, ReleaseIfPendingTyped DEF ApplyInitialization
  <2>2. ReadType' BY <1>5, AppliedTyped DEF ApplyInitialization
  <2>3. initializing' \in [Res -> BOOLEAN]
    BY <1>5 DEF TypeOK, ApplyInitialization
  <2> QED BY <1>5, <2>1, <2>2, <2>3 DEF TypeOK, ApplyInitialization, StockType,
                                        PaymentType, ReadType
<1>6. CASE Materialize(r)
  <2>1. StockType' /\ RowType' /\ PaymentType' /\ JobType'
    <3>1. CASE payment[r] = "none"
      BY <1>0, <1>6, <3>1, ProcessPaidTyped DEF Materialize
    <3>2. CASE payment[r] # "none"
      BY <1>6, <3>2 DEF Materialize, TypeOK, StockType, RowType, PaymentType, JobType,
                        stockVars
    <3> QED BY <3>1, <3>2
  <2>2. ReadType' BY <1>6, AppliedTyped DEF Materialize
  <2>3. attempt' \in [Res -> AttemptStatuses] /\ attemptOld' \in [Res -> BOOLEAN]
    BY <1>6 DEF TypeOK, Materialize, AttemptStatuses
  <2> QED BY <1>6, <2>1, <2>2, <2>3 DEF TypeOK, Materialize, StockType, RowType,
                                        PaymentType, JobType, ReadType
<1>7. CASE CheckAttempt(r)
  <2>1. ReadType'
    BY <1>7 DEF CheckAttempt, Applied, TypeOK, ReadType, Sweeps, Views
  <2>2. attempt' \in [Res -> AttemptStatuses] /\ attemptOld' \in [Res -> BOOLEAN]
    BY <1>7 DEF TypeOK, CheckAttempt, CloseAttempt, AttemptStatuses
  <2> QED BY <1>7, <2>1, <2>2 DEF TypeOK, CheckAttempt, ReadType
<1>8. CASE AbandonAttempt(r)
  <2>1. PICK v \in {"failed", "expired"} :
           /\ FailHold(r) /\ CloseAttempt(r) /\ Applied(r, "restore", v)
           /\ UNCHANGED <<quantity, clock, overdue, payment, refundId, session,
                          order, notices, creator, refundJob, boundVars>>
    BY <1>8 DEF AbandonAttempt
  <2>2. StockType' /\ RowType' BY <2>1, FailTyped
  <2>3. ReadType' BY <2>1, AppliedTyped
  <2>4. attempt' \in [Res -> AttemptStatuses] /\ attemptOld' \in [Res -> BOOLEAN]
    BY <2>1 DEF TypeOK, CloseAttempt, AttemptStatuses
  <2> QED BY <2>1, <2>2, <2>3, <2>4 DEF TypeOK, StockType, RowType, ReadType
<1>9. CASE KeepAttempt(r)
  BY <1>9 DEF TypeOK, KeepAttempt, Applied
<1>10. CASE WorkerDies(r)
  BY <1>10 DEF TypeOK, WorkerDies, Applied, Fault
<1> QED BY <1>1, <1>2, <1>3, <1>4, <1>5, <1>6, <1>7, <1>8, <1>9, <1>10 DEF SweepStep

LEMMA CustomerTyped == ASSUME TypeOK, NEW r \in Res, CustomerStep(r) PROVE TypeOK'
<1> USE DEF listingVars, rowVars, attemptVars, boundVars
<1>1. CASE CancelHold(r)
  <2>1. /\ StockType' /\ PaymentType'
        /\ status' \in [Res -> Statuses] /\ payStatus' \in [Res -> PayStatuses]
    BY <1>1, ReleaseTyped DEF CancelHold, Released
  <2> QED BY <1>1, <2>1 DEF TypeOK, CancelHold, StockType, PaymentType
<1>2. CASE CancelPaid(r)
  <2>1. StockType' BY <1>2, RestoreTyped DEF CancelPaid
  <2>2. /\ status' \in [Res -> Statuses] /\ payStatus' \in [Res -> PayStatuses]
        /\ payment' \in [Res -> PayStatuses]
    BY <1>2 DEF TypeOK, CancelPaid, Statuses, PayStatuses, RefundStates
  <2>3. JobType' BY <1>2 DEF TypeOK, CancelPaid, Enqueue, Fault, JobType
  <2> QED BY <1>2, <2>1, <2>2, <2>3 DEF TypeOK, CancelPaid, StockType, JobType
<1>3. CASE PickUp(r) BY <1>3 DEF TypeOK, PickUp, Statuses
<1> QED BY <1>1, <1>2, <1>3 DEF CustomerStep

LEMMA RefundTyped == ASSUME TypeOK, NEW r \in Res, RefundStep(r) PROVE TypeOK'
<1> USE DEF listingVars, rowVars, attemptVars, boundVars
<1>1. CASE PrepareRefund(r)
  <2>1. refundJob' \in [Res -> {"none", "queued", "done"}]
    BY <1>1 DEF TypeOK, PrepareRefund
  <2>2. /\ payment' \in [Res -> PayStatuses] /\ payStatus' \in [Res -> PayStatuses]
        /\ refundId' \in [Res -> BOOLEAN]
    <3>1. CASE UNCHANGED <<payment, payStatus, refundId>> BY <3>1 DEF TypeOK
    <3>2. CASE /\ payment' = [payment EXCEPT ![r] = "refund_pending"]
               /\ payStatus' = [payStatus EXCEPT ![r] =
                      IF @ = "refund_failed" THEN @ ELSE "refund_pending"]
               /\ refundId' = [refundId EXCEPT ![r] = TRUE]
      <4>1. payment' \in [Res -> PayStatuses]
        BY <3>2 DEF TypeOK, PayStatuses, RefundStates
      <4>2. payStatus' \in [Res -> PayStatuses]
        BY <3>2 DEF TypeOK, PayStatuses, RefundStates
      <4>3. refundId' \in [Res -> BOOLEAN] BY <3>2 DEF TypeOK
      <4> QED BY <4>1, <4>2, <4>3
    <3> QED BY <1>1, <3>1, <3>2 DEF PrepareRefund
  <2> QED BY <1>1, <2>1, <2>2 DEF TypeOK, PrepareRefund
<1>2. CASE RefundOutcome(r)
  BY <1>2 DEF TypeOK, RefundOutcome, PayStatuses, RefundStates
<1> QED BY <1>1, <1>2 DEF RefundStep

LEMMA TimeTyped == ASSUME TypeOK, NEW r \in Res, TimeStep(r) PROVE TypeOK'
BY DEF TypeOK, TimeStep, HoldLapses, AttemptAges, listingVars, rowVars, attemptVars,
       boundVars

LEMMA ListingTyped == ASSUME TypeOK, ListingStep PROVE TypeOK'
<1> USE DEF listingVars, rowVars, attemptVars, boundVars
<1>1. CASE ExpireListing
  <2>1. Cardinality(GivenBack) \in Nat BY UnitsNat DEF GivenBack
  <2> QED BY <1>1, <2>1 DEF TypeOK, ExpireListing, ListingStatuses, Statuses
<1>2. CASE DeleteListing
  BY <1>2 DEF TypeOK, DeleteListing, ListingStatuses
<1>3. CASE Tick BY <1>3 DEF TypeOK, Tick
<1>4. ASSUME NEW q \in Quantities, NEW c \in {0, 1}, EditListing(q, c) PROVE TypeOK'
  BY <1>4, StockAssumption DEF TypeOK, EditListing, Adjusted
<1> QED BY <1>1, <1>2, <1>3, <1>4 DEF ListingStep

LEMMA TypeInit == Init => TypeOK
BY StockAssumption DEF Init, TypeOK, ListingStatuses, Statuses, PayStatuses,
   AttemptStatuses, OrderStates, CreatorStates

LEMMA TypeStep == TypeOK /\ [Next]_vars => TypeOK'
<1> SUFFICES ASSUME TypeOK, [Next]_vars PROVE TypeOK'
  OBVIOUS
<1>1. CASE UNCHANGED vars BY <1>1 DEF TypeOK, vars
<1>2. CASE Next
  BY <1>2, CreateTyped, GatewayTyped, DeliverTyped, SweepTyped, CustomerTyped,
     RefundTyped, TimeTyped, ListingTyped DEF Next
<1> QED BY <1>1, <1>2

\* remaining_quantity never goes below zero, and every row and process is always
\* in a state the code knows.
THEOREM TypeCorrect == Spec => []TypeOK
BY TypeInit, TypeStep, PTL DEF Spec

-----------------------------------------------------------------------------
(* One reservation.                                                         *)

\* How the row, the payment row, the attempt, the order, the creating request
\* and the reads and notices about one reservation fit together.
RowInv(r) ==
    /\ (creator[r] = "idle") <=> (status[r] = "none")
    /\ creator[r] \in {"idle", "held"} => attempt[r] = "none" /\ payment[r] = "none"
    /\ creator[r] \in {"calling", "created", "marked"}
          => status[r] = "payment_pending" /\ payStatus[r] = "pending" /\ payment[r] = "none"
    /\ refundId[r] => payment[r] \in RefundStates
    /\ creator[r] \in {"idle", "held", "calling"} => order[r] = "absent"
    /\ Agree(status[r], payStatus[r], payment[r])
    /\ held[r] <=> status[r] \notin OnTheShelf
    /\ \/ status[r] \in {"reserved", "picked_up", "expired"}
       \/ payment[r] \in RefundStates
       => order[r] = "paid"
    /\ refundJob[r] # "none" => status[r] = "cancelled"
    /\ \A v \in Views : <<r, "session", v>> \in reads => payment[r] # "none"
    /\ \A v \in Views : <<r, "attempt", v>> \in reads \/ <<r, "restore", v>> \in reads
                          => attempt[r] # "none"
    /\ \A by \in Sweeps : <<r, by, "paid">> \in reads => order[r] = "paid"
    /\ \A copy \in Copies : <<r, "paid", copy>> \in notices => order[r] = "paid"

Rows == \A s \in Res : RowInv(s)

LEMMA ReserveRow ==
    ASSUME TypeOK, Rows, NEW r \in Res, Reserve(r), NEW s \in Res PROVE RowInv(s)'
<1> USE DEF TypeOK, Rows, RowInv, listingVars, rowVars, boundVars,
          attemptVars, stockVars, Reserve, TakeStock, Agree, OnTheShelf,
          Released, RefundStates
<1>1. CASE s # r BY <1>1
<1>2. CASE s = r BY <1>2
<1> QED BY <1>1, <1>2

LEMMA BeginSessionRow ==
    ASSUME TypeOK, Rows, NEW r \in Res, BeginSession(r), NEW s \in Res PROVE RowInv(s)'
<1> USE DEF TypeOK, Rows, RowInv, listingVars, rowVars, boundVars,
          attemptVars, stockVars, BeginSession, Pending
<1>1. CASE s # r BY <1>1
<1>2. CASE s = r BY <1>2
<1> QED BY <1>1, <1>2

LEMMA GatewayCreatesRow ==
    ASSUME TypeOK, Rows, NEW r \in Res, GatewayCreates(r), NEW s \in Res PROVE RowInv(s)'
<1> USE DEF TypeOK, Rows, RowInv, listingVars, rowVars, boundVars,
          attemptVars, stockVars, GatewayCreates
<1>1. CASE s # r BY <1>1
<1>2. CASE s = r BY <1>2
<1> QED BY <1>1, <1>2

LEMMA MarkCreatedRow ==
    ASSUME TypeOK, Rows, NEW r \in Res, MarkCreated(r), NEW s \in Res PROVE RowInv(s)'
<1> USE DEF TypeOK, Rows, RowInv, listingVars, rowVars, boundVars,
          attemptVars, stockVars, MarkCreated
<1>1. CASE s # r BY <1>1
<1>2. CASE s = r BY <1>2
<1> QED BY <1>1, <1>2

LEMMA CommitSessionRow ==
    ASSUME TypeOK, Rows, NEW r \in Res, CommitSession(r), NEW s \in Res PROVE RowInv(s)'
<1> USE DEF TypeOK, Rows, RowInv, listingVars, rowVars, boundVars,
          attemptVars, stockVars, CommitSession, SessionRows, Agree,
          OnTheShelf, Released, RefundStates
<1>1. CASE s # r BY <1>1
<1>2. CASE s = r BY <1>2
<1> QED BY <1>1, <1>2

LEMMA CommitUnacknowledgedRow ==
    ASSUME TypeOK, Rows, NEW r \in Res, CommitUnacknowledged(r), NEW s \in Res PROVE RowInv(s)'
<1> USE DEF TypeOK, Rows, RowInv, listingVars, rowVars, boundVars,
          attemptVars, stockVars, CommitUnacknowledged, SessionRows, Fault,
          Agree, OnTheShelf, Released, RefundStates
<1>1. CASE s # r BY <1>1
<1>2. CASE s = r BY <1>2
<1> QED BY <1>1, <1>2

LEMMA SessionErrorRow ==
    ASSUME TypeOK, Rows, NEW r \in Res, SessionError(r), NEW s \in Res PROVE RowInv(s)'
<1> USE DEF TypeOK, Rows, RowInv, listingVars, rowVars, boundVars,
          attemptVars, stockVars, SessionError, RowLocked, Fault
<1>1. CASE s # r BY <1>1
<1>2. CASE s = r BY <1>2
<1> QED BY <1>1, <1>2

LEMMA CleanupHoldRow ==
    ASSUME TypeOK, Rows, NEW r \in Res, CleanupHold(r), NEW s \in Res PROVE RowInv(s)'
<1> USE DEF TypeOK, Rows, RowInv, listingVars, rowVars, boundVars,
          attemptVars, stockVars, CleanupHold, FailHold, FailRows,
          RestoreIfHeld, Pending, Agree, OnTheShelf, Released, RefundStates
<1>1. CASE s # r BY <1>1
<1>2. CASE s = r BY <1>2
<1> QED BY <1>1, <1>2

LEMMA RequestDiesRow ==
    ASSUME TypeOK, Rows, NEW r \in Res, RequestDies(r), NEW s \in Res PROVE RowInv(s)'
<1> USE DEF TypeOK, Rows, RowInv, listingVars, rowVars, boundVars,
          attemptVars, stockVars, RequestDies, Fault
<1>1. CASE s # r BY <1>1
<1>2. CASE s = r BY <1>2
<1> QED BY <1>1, <1>2

LEMMA CustomerPaysRow ==
    ASSUME TypeOK, Rows, NEW r \in Res, CustomerPays(r), NEW s \in Res PROVE RowInv(s)'
<1> USE DEF TypeOK, Rows, RowInv, listingVars, rowVars, boundVars,
          attemptVars, stockVars, CustomerPays, Payable, Notify, RowLocked
<1>1. CASE s # r BY <1>1
<1>2. CASE s = r BY <1>2
<1> QED BY <1>1, <1>2

LEMMA CustomerDeclinedRow ==
    ASSUME TypeOK, Rows, NEW r \in Res, CustomerDeclined(r), NEW s \in Res PROVE RowInv(s)'
<1> USE DEF TypeOK, Rows, RowInv, listingVars, rowVars, boundVars,
          attemptVars, stockVars, CustomerDeclined, Payable, Notify, RowLocked
<1>1. CASE s # r BY <1>1
<1>2. CASE s = r BY <1>2
<1> QED BY <1>1, <1>2

LEMMA OrderExpiresRow ==
    ASSUME TypeOK, Rows, NEW r \in Res, OrderExpires(r), NEW s \in Res PROVE RowInv(s)'
<1> USE DEF TypeOK, Rows, RowInv, listingVars, rowVars, boundVars,
          attemptVars, stockVars, OrderExpires
<1>1. CASE s # r BY <1>1
<1>2. CASE s = r BY <1>2
<1> QED BY <1>1, <1>2

LEMMA DeliverStepRow ==
    ASSUME TypeOK, Rows, NEW r \in Res, DeliverStep(r), NEW s \in Res PROVE RowInv(s)'
<1> USE DEF TypeOK, Rows, RowInv, listingVars, rowVars, boundVars,
          attemptVars, stockVars, DeliverStep, Deliver, ProcessPaid,
          ProcessFailed, ReleaseIfPending, Release, RestoreIfHeld, PaidRows,
          PaidOutcome, NothingToDo, Final, Late, EnqueueIf, Enqueue, Fault,
          Pending, Agree, OnTheShelf, Released, RefundStates
<1>1. CASE s # r BY <1>1
<1>2. CASE s = r BY <1>2
<1> QED BY <1>1, <1>2

LEMMA ApplyInitializationRow ==
    ASSUME TypeOK, Rows, NEW r \in Res, ApplyInitialization(r), NEW s \in Res PROVE RowInv(s)'
<1> USE DEF TypeOK, Rows, RowInv, listingVars, rowVars, boundVars,
          attemptVars, stockVars, ApplyInitialization, Applied,
          ReleaseIfPending, Release, RestoreIfHeld, Pending, RowLocked, Agree,
          OnTheShelf, Released, RefundStates
<1>1. CASE s # r BY <1>1
<1>2. CASE s = r BY <1>2
<1> QED BY <1>1, <1>2

LEMMA KeepAttemptRow ==
    ASSUME TypeOK, Rows, NEW r \in Res, KeepAttempt(r), NEW s \in Res PROVE RowInv(s)'
<1> USE DEF TypeOK, Rows, RowInv, listingVars, rowVars, boundVars,
          attemptVars, stockVars, KeepAttempt, Applied
<1>1. CASE s # r BY <1>1
<1>2. CASE s = r BY <1>2
<1> QED BY <1>1, <1>2

LEMMA WorkerDiesRow ==
    ASSUME TypeOK, Rows, NEW r \in Res, WorkerDies(r), NEW s \in Res PROVE RowInv(s)'
<1> USE DEF TypeOK, Rows, RowInv, listingVars, rowVars, boundVars,
          attemptVars, stockVars, WorkerDies, Applied, Fault
<1>1. CASE s # r BY <1>1
<1>2. CASE s = r BY <1>2
<1> QED BY <1>1, <1>2

LEMMA CancelHoldRow ==
    ASSUME TypeOK, Rows, NEW r \in Res, CancelHold(r), NEW s \in Res PROVE RowInv(s)'
<1> USE DEF TypeOK, Rows, RowInv, listingVars, rowVars, boundVars,
          attemptVars, stockVars, CancelHold, Release, RestoreIfHeld, Pending,
          RowLocked, Agree, OnTheShelf, Released, RefundStates
<1>1. CASE s # r BY <1>1
<1>2. CASE s = r BY <1>2
<1> QED BY <1>1, <1>2

LEMMA CancelPaidRow ==
    ASSUME TypeOK, Rows, NEW r \in Res, CancelPaid(r), NEW s \in Res PROVE RowInv(s)'
<1> USE DEF TypeOK, Rows, RowInv, listingVars, rowVars, boundVars,
          attemptVars, stockVars, CancelPaid, Cancellable, RestoreIfHeld,
          Enqueue, Fault, RowLocked, Agree, OnTheShelf, Released, RefundStates
<1>1. CASE s # r BY <1>1
<1>2. CASE s = r BY <1>2
<1> QED BY <1>1, <1>2

LEMMA PickUpRow ==
    ASSUME TypeOK, Rows, NEW r \in Res, PickUp(r), NEW s \in Res PROVE RowInv(s)'
<1> USE DEF TypeOK, Rows, RowInv, listingVars, rowVars, boundVars,
          attemptVars, stockVars, PickUp, Agree, OnTheShelf, Released
<1>1. CASE s # r BY <1>1
<1>2. CASE s = r BY <1>2
<1> QED BY <1>1, <1>2

LEMMA PrepareRefundRow ==
    ASSUME TypeOK, Rows, NEW r \in Res, PrepareRefund(r), NEW s \in Res PROVE RowInv(s)'
<1> USE DEF TypeOK, Rows, RowInv, listingVars, rowVars, boundVars,
          attemptVars, stockVars, PrepareRefund, RefundDue, Agree,
          RefundStates
<1>1. CASE s # r BY <1>1
<1>2. CASE s = r BY <1>2
<1> QED BY <1>1, <1>2

LEMMA RefundOutcomeRow ==
    ASSUME TypeOK, Rows, NEW r \in Res, RefundOutcome(r), NEW s \in Res PROVE RowInv(s)'
<1> USE DEF TypeOK, Rows, RowInv, listingVars, rowVars, boundVars,
          attemptVars, stockVars, RefundOutcome, MayFail, Agree, RefundStates
<1>1. CASE s # r BY <1>1
<1>2. CASE s = r BY <1>2
<1> QED BY <1>1, <1>2

LEMMA HoldLapsesRow ==
    ASSUME TypeOK, Rows, NEW r \in Res, HoldLapses(r), NEW s \in Res PROVE RowInv(s)'
<1> USE DEF TypeOK, Rows, RowInv, listingVars, rowVars, boundVars,
          attemptVars, stockVars, HoldLapses
<1>1. CASE s # r BY <1>1
<1>2. CASE s = r BY <1>2
<1> QED BY <1>1, <1>2

LEMMA AttemptAgesRow ==
    ASSUME TypeOK, Rows, NEW r \in Res, AttemptAges(r), NEW s \in Res PROVE RowInv(s)'
<1> USE DEF TypeOK, Rows, RowInv, listingVars, rowVars, boundVars,
          attemptVars, stockVars, AttemptAges
<1>1. CASE s # r BY <1>1
<1>2. CASE s = r BY <1>2
<1> QED BY <1>1, <1>2

LEMMA ReadOverdueSessionRow ==
    ASSUME TypeOK, Rows, NEW r \in Res, ReadOverdueSession(r), NEW s \in Res
    PROVE  RowInv(s)'
<1>1. PICK v \in View(r) : reads' = reads \cup {<<r, "session", v>>}
  BY DEF ReadOverdueSession, ReadGateway
<1>2. v \in Views /\ (v = "paid" => order[r] = "paid") BY SeesPaid
<1> USE DEF TypeOK, Rows, RowInv, listingVars, rowVars, boundVars, attemptVars,
            ReadOverdueSession
<1>3. CASE s # r BY <1>1, <1>3
<1>4. CASE s = r BY <1>1, <1>2, <1>4
<1> QED BY <1>3, <1>4

LEMMA ClaimAttemptRow ==
    ASSUME TypeOK, Rows, NEW r \in Res, ClaimAttempt(r), NEW s \in Res
    PROVE  RowInv(s)'
<1>1. \/ reads' = reads
      \/ \E v \in View(r) : reads' = reads \cup {<<r, "attempt", v>>}
  BY DEF ClaimAttempt, ReadGateway
<1>2. \A v \in View(r) : v \in Views /\ (v = "paid" => order[r] = "paid") BY SeesPaid
<1>3. attempt[r] # "none" /\ attempt'[r] # "none" BY DEF TypeOK, ClaimAttempt
<1> USE DEF TypeOK, Rows, RowInv, listingVars, rowVars, boundVars
<1>4. CASE s # r BY <1>1, <1>4 DEF ClaimAttempt
<1>5. CASE s = r
  <2>1. creator[r] \notin {"idle", "held"} BY <1>3
  <2>2. CASE reads' = reads BY <1>3, <1>5, <2>1, <2>2 DEF ClaimAttempt
  <2>3. ASSUME NEW v \in View(r), reads' = reads \cup {<<r, "attempt", v>>}
        PROVE  RowInv(s)'
    BY <1>2, <1>3, <1>5, <2>1, <2>3 DEF ClaimAttempt
  <2> QED BY <1>1, <2>2, <2>3
<1> QED BY <1>4, <1>5

LEMMA ClaimInitializationRow ==
    ASSUME TypeOK, Rows, NEW r \in Res, ClaimInitialization(r), NEW s \in Res
    PROVE  RowInv(s)'
<1>1. \/ reads' = reads \cup {<<r, "init", "unknown">>}
      \/ /\ attempt[r] # "none"
         /\ \E v \in View(r) : reads' = reads \cup {<<r, "attempt", v>>}
  BY DEF ClaimInitialization, ReadGateway
<1>2. \A v \in View(r) : v \in Views /\ (v = "paid" => order[r] = "paid") BY SeesPaid
<1> USE DEF TypeOK, Rows, RowInv, listingVars, rowVars, boundVars, attemptVars,
            ClaimInitialization
<1>3. CASE reads' = reads \cup {<<r, "init", "unknown">>} BY <1>3
<1>4. ASSUME attempt[r] # "none", NEW v \in View(r),
             reads' = reads \cup {<<r, "attempt", v>>}
      PROVE  RowInv(s)'
  BY <1>2, <1>4
<1> QED BY <1>1, <1>3, <1>4

LEMMA CheckAttemptRow ==
    ASSUME TypeOK, Rows, NEW r \in Res, CheckAttempt(r), NEW s \in Res
    PROVE  RowInv(s)'
<1>1. PICK v \in {"failed", "expired"} :
         /\ <<r, "attempt", v>> \in reads
         /\ \/ /\ reads' = (reads \ {<<r, "attempt", v>>}) \cup {<<r, "restore", v>>}
               /\ UNCHANGED <<attempt, attemptOld>>
            \/ reads' = reads \ {<<r, "attempt", v>>} /\ CloseAttempt(r)
         /\ UNCHANGED <<listingVars, rowVars, held, overdue, payment, refundId,
                        session, order, notices, creator, refundJob, boundVars>>
  BY DEF CheckAttempt, Applied
<1>2. attempt[r] # "none" BY <1>1 DEF Rows, RowInv, Views
<1>3. attempt'[r] # "none" BY <1>1, <1>2 DEF CloseAttempt, TypeOK
<1>4. creator[r] \notin {"idle", "held"} BY <1>2 DEF Rows, RowInv
<1> USE DEF TypeOK, Rows, RowInv, listingVars, rowVars, boundVars
<1>5. CASE s # r BY <1>1, <1>5 DEF CloseAttempt
<1>6. CASE s = r BY <1>1, <1>3, <1>4, <1>6
<1> QED BY <1>5, <1>6

LEMMA AbandonAttemptRow ==
    ASSUME TypeOK, Rows, NEW r \in Res, AbandonAttempt(r), NEW s \in Res
    PROVE  RowInv(s)'
<1>1. PICK v \in {"failed", "expired"} :
         /\ <<r, "restore", v>> \in reads /\ ~RowLocked(r)
         /\ FailHold(r) /\ CloseAttempt(r) /\ reads' = reads \ {<<r, "restore", v>>}
         /\ UNCHANGED <<quantity, clock, overdue, payment, refundId, session,
                        order, notices, creator, refundJob, boundVars>>
  BY DEF AbandonAttempt, Applied
<1>2. attempt[r] # "none" BY <1>1 DEF Rows, RowInv, Views
<1>3. attempt'[r] # "none" /\ (s # r => attempt'[s] = attempt[s])
  BY <1>1 DEF CloseAttempt, TypeOK
<1>4. creator[r] \notin {"idle", "held", "calling", "created", "marked"}
  BY <1>1, <1>2 DEF Rows, RowInv, RowLocked
<1>5. /\ s # r => /\ status'[s] = status[s] /\ payStatus'[s] = payStatus[s]
                  /\ held'[s] = held[s]
      /\ \/ /\ status'[r] = status[r] /\ payStatus'[r] = payStatus[r]
            /\ held'[r] = held[r]
         \/ /\ Pending(r) /\ status'[r] = "payment_failed"
            /\ payStatus'[r] = "failed" /\ held'[r] = FALSE
  BY <1>1 DEF FailHold, FailRows, RestoreIfHeld, stockVars, rowVars, TypeOK
<1> USE DEF TypeOK, Rows, RowInv, boundVars
<1>6. CASE s # r BY <1>1, <1>3, <1>5, <1>6
<1>7. CASE s = r
  BY <1>1, <1>3, <1>4, <1>5, <1>7 DEF Pending, Agree, OnTheShelf, Released, RefundStates
<1> QED BY <1>6, <1>7

\* What processPaidOrder decides: a hold that is still pending becomes a
\* reservation, a payment that comes too late is refunded, and the branch that
\* fails a payment it cannot place is never taken.
LEMMA Outcome ==
    ASSUME TypeOK, Rows, NEW r \in Res, NEW p,
           p = payment[r] \/ (p = "pending" /\ payment[r] = "none" /\ attempt[r] # "none")
    PROVE  \/ PaidOutcome(r, p) = "ignore" /\ p = payment[r]
           \/ /\ PaidOutcome(r, p) = "activate"
              /\ Pending(r) /\ held[r] /\ p = "pending"
           \/ /\ PaidOutcome(r, p) = "refund"
              /\ status[r] \in Released \cup {"cancelled"} /\ p # "none"
              /\ payStatus[r] # "refunded"
BY DEF TypeOK, Rows, RowInv, Agree, OnTheShelf, Released, RefundStates, PaidOutcome,
       NothingToDo, Final, Late, Pending, Statuses, PayStatuses

\* How it leaves the rows.
LEMMA PaidRow ==
    ASSUME TypeOK, Rows, NEW r \in Res, NEW p, ProcessPaid(r, p),
           p = payment[r] \/ (p = "pending" /\ payment[r] = "none" /\ attempt[r] # "none"),
           order[r] = "paid", NEW s \in Res
    PROVE  /\ held'[s] = held[s]
           /\ s # r => /\ status'[s] = status[s] /\ payStatus'[s] = payStatus[s]
                       /\ payment'[s] = payment[s] /\ refundJob'[s] = refundJob[s]
           /\ Agree(status'[r], payStatus'[r], payment'[r])
           /\ held[r] <=> status'[r] \notin OnTheShelf
           /\ status'[r] # "none"
           /\ p # "none" => payment'[r] # "none"
           /\ payment[r] \in RefundStates => payment'[r] \in RefundStates
           /\ refundJob'[r] # "none" => status'[r] = "cancelled"
<1>1. held' = held BY DEF ProcessPaid, stockVars
<1>2. CASE PaidOutcome(r, p) = "ignore" /\ p = payment[r]
  BY <1>1, <1>2 DEF ProcessPaid, PaidRows, EnqueueIf, TypeOK, Rows, RowInv
<1>3. CASE PaidOutcome(r, p) = "activate" /\ Pending(r) /\ held[r] /\ p = "pending"
  BY <1>1, <1>3 DEF ProcessPaid, PaidRows, EnqueueIf, TypeOK, Rows, RowInv, Pending,
     Agree, OnTheShelf, Released, RefundStates
<1>4. CASE /\ PaidOutcome(r, p) = "refund"
           /\ status[r] \in Released \cup {"cancelled"} /\ p # "none"
           /\ payStatus[r] # "refunded"
  BY <1>1, <1>4 DEF ProcessPaid, PaidRows, EnqueueIf, Enqueue, TypeOK, Rows, RowInv,
     Agree, OnTheShelf, Released, RefundStates
<1> QED BY <1>2, <1>3, <1>4, Outcome

LEMMA ApplyOverdueSessionRow ==
    ASSUME TypeOK, Rows, NEW r \in Res, ApplyOverdueSession(r), NEW s \in Res
    PROVE  RowInv(s)'
<1>1. PICK v \in Views :
         /\ <<r, "session", v>> \in reads
         /\ Decide(r, v)
         /\ reads' = reads \ {<<r, "session", v>>}
         /\ UNCHANGED <<quantity, clock, overdue, refundId, attemptVars, order,
                        notices, creator>>
  BY DEF ApplyOverdueSession, Applied
<1>2. payment[r] # "none" /\ creator[r] \notin {"idle", "held", "calling", "created", "marked"}
  BY <1>1 DEF Rows, RowInv, TypeOK, CreatorStates
<1>3. CASE v = "paid" /\ ProcessPaid(r, payment[r])
  <2>1. order[r] = "paid" BY <1>1, <1>3 DEF Rows, RowInv, Sweeps
  <2>2. /\ held'[s] = held[s]
        /\ s # r => /\ status'[s] = status[s] /\ payStatus'[s] = payStatus[s]
                    /\ payment'[s] = payment[s] /\ refundJob'[s] = refundJob[s]
        /\ Agree(status'[r], payStatus'[r], payment'[r])
        /\ held[r] <=> status'[r] \notin OnTheShelf
        /\ status'[r] # "none" /\ payment'[r] # "none"
        /\ payment[r] \in RefundStates => payment'[r] \in RefundStates
        /\ refundJob'[r] # "none" => status'[r] = "cancelled"
    BY <1>2, <1>3, <2>1, PaidRow
  <2>3. CASE s # r BY <1>1, <2>2, <2>3 DEF Rows, RowInv, attemptVars
  <2>4. CASE s = r BY <1>1, <1>2, <2>1, <2>2, <2>4 DEF Rows, RowInv, attemptVars
  <2> QED BY <2>3, <2>4
<1>4. ASSUME NEW to \in {"failed", "expired"}, ProcessFailed(r, to) PROVE RowInv(s)'
  <2> USE DEF ProcessFailed, ReleaseIfPending, Release, RestoreIfHeld, Pending,
              TypeOK, Rows, RowInv, attemptVars, stockVars, boundVars, Agree,
              OnTheShelf, Released, RefundStates
  <2>1. CASE s # r BY <1>1, <1>4, <2>1
  <2>2. CASE s = r BY <1>1, <1>2, <1>4, <2>2
  <2> QED BY <2>1, <2>2
<1> QED BY <1>1, <1>3, <1>4 DEF Decide

LEMMA MaterializeRow ==
    ASSUME TypeOK, Rows, NEW r \in Res, Materialize(r), NEW s \in Res
    PROVE  RowInv(s)'
<1>1. /\ order[r] = "paid" /\ attempt[r] # "none"
      /\ creator[r] \notin {"idle", "held", "calling", "created", "marked"}
  BY DEF Materialize, Rows, RowInv, RowLocked, Sweeps, Views
<1>2. /\ attempt'[r] # "none" /\ (s # r => attempt'[s] = attempt[s])
      /\ reads' = reads \ {<<r, "attempt", "paid">>}
      /\ UNCHANGED <<refundId, order, notices, creator>>
  BY DEF Materialize, Applied, TypeOK
<1>3. CASE payment[r] = "none"
  <2>1. ProcessPaid(r, "pending") BY <1>3 DEF Materialize
  <2>2. /\ held'[s] = held[s]
        /\ s # r => /\ status'[s] = status[s] /\ payStatus'[s] = payStatus[s]
                    /\ payment'[s] = payment[s] /\ refundJob'[s] = refundJob[s]
        /\ Agree(status'[r], payStatus'[r], payment'[r])
        /\ held[r] <=> status'[r] \notin OnTheShelf
        /\ status'[r] # "none" /\ payment'[r] # "none"
        /\ payment[r] \in RefundStates => payment'[r] \in RefundStates
        /\ refundJob'[r] # "none" => status'[r] = "cancelled"
    BY <1>1, <1>3, <2>1, PaidRow
  <2>3. CASE s # r BY <1>2, <2>2, <2>3 DEF Rows, RowInv
  <2>4. CASE s = r BY <1>1, <1>2, <2>2, <2>4 DEF Rows, RowInv
  <2> QED BY <2>3, <2>4
<1>4. CASE payment[r] # "none"
  <2>1. UNCHANGED <<stockVars, rowVars, payment, refundJob, boundVars>>
    BY <1>4 DEF Materialize
  <2>2. CASE s # r BY <1>2, <2>1, <2>2 DEF Rows, RowInv, stockVars, rowVars
  <2>3. CASE s = r BY <1>1, <1>2, <2>1, <2>3 DEF Rows, RowInv, stockVars, rowVars
  <2> QED BY <2>2, <2>3
<1> QED BY <1>3, <1>4

LEMMA ListingRow ==
    ASSUME TypeOK, Rows, ListingStep, NEW s \in Res PROVE RowInv(s)'
<1> USE DEF Rows, RowInv, rowVars, attemptVars, boundVars
<1>1. CASE ExpireListing
  BY <1>1 DEF ExpireListing, Expiring, TypeOK, Agree, OnTheShelf, Released, RefundStates
<1>2. CASE DeleteListing BY <1>2 DEF DeleteListing
<1>3. CASE Tick BY <1>3 DEF Tick
<1>4. CASE \E q \in Quantities, c \in {0, 1} : EditListing(q, c)
  BY <1>4 DEF EditListing
<1> QED BY <1>1, <1>2, <1>3, <1>4 DEF ListingStep

LEMMA RowsInit == Init => Rows
BY DEF Init, Rows, RowInv, Agree, OnTheShelf, Released, RefundStates

LEMMA RowsStep == TypeOK /\ Rows /\ [Next]_vars => Rows'
<1> SUFFICES ASSUME TypeOK, Rows, [Next]_vars, NEW s \in Res PROVE RowInv(s)'
  BY DEF Rows
<1>1. CASE UNCHANGED vars BY <1>1 DEF Rows, RowInv, vars
<1>2. ASSUME NEW r \in Res, CreateStep(r) PROVE RowInv(s)'
  BY <1>2, ReserveRow, BeginSessionRow, GatewayCreatesRow, MarkCreatedRow,
     CommitSessionRow, CommitUnacknowledgedRow, SessionErrorRow, CleanupHoldRow,
     RequestDiesRow DEF CreateStep
<1>3. ASSUME NEW r \in Res, GatewayStep(r) PROVE RowInv(s)'
  BY <1>3, CustomerPaysRow, CustomerDeclinedRow, OrderExpiresRow DEF GatewayStep
<1>4. ASSUME NEW r \in Res, SweepStep(r) PROVE RowInv(s)'
  BY <1>4, ReadOverdueSessionRow, ApplyOverdueSessionRow, ClaimAttemptRow,
     ClaimInitializationRow, ApplyInitializationRow, MaterializeRow,
     AbandonAttemptRow, CheckAttemptRow, KeepAttemptRow, WorkerDiesRow
     DEF SweepStep
<1>5. ASSUME NEW r \in Res, CustomerStep(r) PROVE RowInv(s)'
  BY <1>5, CancelHoldRow, CancelPaidRow, PickUpRow DEF CustomerStep
<1>6. ASSUME NEW r \in Res, RefundStep(r) \/ TimeStep(r) PROVE RowInv(s)'
  BY <1>6, PrepareRefundRow, RefundOutcomeRow, HoldLapsesRow, AttemptAgesRow
     DEF RefundStep, TimeStep
<1>7. CASE ListingStep BY <1>7, ListingRow
<1> QED BY <1>1, <1>2, <1>3, <1>4, <1>5, <1>6, <1>7, DeliverStepRow DEF Next

LEMMA RowsCorrect == Spec => [](TypeOK /\ Rows)
BY TypeInit, RowsInit, TypeStep, RowsStep, PTL DEF Spec

\* The reservation row, its payment_status and its payment row agree: no order
\* of webhooks, sweeps, timeouts, cancellations and cleanups leaves them apart.
THEOREM PaymentsAlwaysAgree == Spec => []PaymentsAgree
<1>1. Rows => PaymentsAgree BY DEF Rows, RowInv, PaymentsAgree
<1> QED BY <1>1, RowsCorrect, PTL

\* Stock is held exactly by the reservations that still have a claim to it.
THEOREM StockAlwaysFollows == Spec => []StockFollowsReservation
<1>1. Rows => StockFollowsReservation BY DEF Rows, RowInv, StockFollowsReservation
<1> QED BY <1>1, RowsCorrect, PTL

\* Reservations and refunds exist only for orders the gateway has captured.
THEOREM OnlyCaptured == Spec => []CapturedOnly
<1>1. Rows => CapturedOnly BY DEF Rows, RowInv, CapturedOnly
<1> QED BY <1>1, RowsCorrect, PTL

-----------------------------------------------------------------------------
(* Stock, and the customer's one live reservation: what an action about r   *)
(* does to the reservations that hold stock.                                *)

Holding == {"payment_pending", "reserved", "picked_up"}
Holders == {r \in Res : status[r] \in Holding}

Keeps(r) == /\ remaining' = remaining
            /\ (status'[r] = "none") <=> (status[r] = "none")
            /\ (status'[r] \in Holding) <=> (status[r] \in Holding)

Takes(r) == /\ remaining >= Qty[r] /\ remaining' = remaining - Qty[r]
            /\ status[r] = "none" /\ status'[r] \in Holding
            /\ \A s \in Res : UserOf[s] = UserOf[r] => status[s] \notin Holding

Returns(r) == /\ remaining' = remaining + Qty[r]
              /\ status[r] \in Holding
              /\ status'[r] \notin Holding /\ status'[r] # "none"

StockMove(r) == /\ quantity' = quantity
                /\ \A s \in Res \ {r} : status'[s] = status[s]
                /\ Keeps(r) \/ Takes(r) \/ Returns(r)

LEMMA HoldersOutstanding == ASSUME TypeOK, Rows PROVE Outstanding = Holders
BY DEF TypeOK, Rows, RowInv, Agree, Outstanding, Holders, Holding, OnTheShelf, Statuses,
       Released

LEMMA SameMove ==
    ASSUME NEW r \in Res, quantity' = quantity, remaining' = remaining, status' = status
    PROVE  StockMove(r)
BY DEF StockMove, Keeps

LEMMA FailMove ==
    ASSUME TypeOK, Rows, NEW r \in Res, FailHold(r), quantity' = quantity
    PROVE  StockMove(r)
<1>1. CASE Pending(r)
  <2>1. held[r] BY <1>1 DEF Pending, Rows, RowInv, OnTheShelf, Released
  <2>2. Returns(r)
    BY <1>1, <2>1 DEF Pending, FailHold, FailRows, RestoreIfHeld, Returns, Holding, TypeOK
  <2> QED BY <1>1, <2>2 DEF StockMove, FailHold, FailRows, TypeOK
<1>2. CASE ~Pending(r) BY <1>2, SameMove DEF FailHold, stockVars, rowVars
<1> QED BY <1>1, <1>2

LEMMA ReleaseMove ==
    ASSUME TypeOK, Rows, NEW r \in Res, NEW to, NEW into \in Released,
           Pending(r), Release(r, to, into), quantity' = quantity
    PROVE  StockMove(r)
<1>1. held[r] BY DEF Pending, Rows, RowInv, OnTheShelf, Released
<1>2. Returns(r)
  BY <1>1 DEF Pending, Release, RestoreIfHeld, Returns, Holding, TypeOK, Released
<1> QED BY <1>2 DEF StockMove, Release, TypeOK

LEMMA ReleaseIfPendingMove ==
    ASSUME TypeOK, Rows, NEW r \in Res, NEW to, ReleaseIfPending(r, to),
           quantity' = quantity
    PROVE  StockMove(r)
<1>1. {"expired_payment", "payment_failed"} \subseteq Released BY DEF Released
<1>2. CASE Pending(r) /\ payment[r] \in {"none", "pending"}
  BY <1>1, <1>2, ReleaseMove DEF ReleaseIfPending
<1>3. CASE ~(Pending(r) /\ payment[r] \in {"none", "pending"})
  BY <1>3, SameMove DEF ReleaseIfPending, stockVars
<1> QED BY <1>2, <1>3

LEMMA ProcessFailedMove ==
    ASSUME TypeOK, Rows, NEW r \in Res, NEW to, ProcessFailed(r, to),
           quantity' = quantity
    PROVE  StockMove(r)
BY SameMove, ReleaseIfPendingMove DEF ProcessFailed, stockVars

LEMMA ProcessPaidMove ==
    ASSUME TypeOK, Rows, NEW r \in Res, NEW p, ProcessPaid(r, p), quantity' = quantity,
           p = payment[r] \/ (p = "pending" /\ payment[r] = "none" /\ attempt[r] # "none")
    PROVE  StockMove(r)
<1>1. remaining' = remaining BY DEF ProcessPaid, stockVars
<1>2. \A s \in Res \ {r} : status'[s] = status[s] BY DEF ProcessPaid, PaidRows, TypeOK
<1>3. Keeps(r)
  BY <1>1, Outcome DEF ProcessPaid, PaidRows, Keeps, Holding, Pending, Released, TypeOK
<1> QED BY <1>2, <1>3 DEF StockMove

LEMMA CreateMove == ASSUME TypeOK, Rows, NEW r \in Res, CreateStep(r) PROVE StockMove(r)
<1> USE DEF listingVars, rowVars
<1>1. CASE Reserve(r)
  <2>1. status[r] = "none" BY <1>1 DEF Reserve, Rows, RowInv
  <2>2. \A s \in Res : UserOf[s] = UserOf[r] => status[s] \notin Holding
    BY <1>1 DEF Reserve, PreviouslyReserved, Blocking, Pending, Holding, Rows, RowInv, Agree
  <2>3. Takes(r)
    BY <1>1, <2>1, <2>2 DEF Reserve, Available, TakeStock, Takes, Holding, TypeOK
  <2> QED BY <1>1, <2>3 DEF StockMove, Reserve, TypeOK
<1>2. CASE CleanupHold(r) BY <1>2, FailMove DEF CleanupHold
<1>3. CASE \/ BeginSession(r) \/ GatewayCreates(r) \/ MarkCreated(r)
           \/ CommitSession(r) \/ CommitUnacknowledged(r) \/ SessionError(r)
           \/ RequestDies(r)
  BY <1>3, SameMove DEF BeginSession, GatewayCreates, MarkCreated, CommitSession,
     CommitUnacknowledged, SessionRows, SessionError, RequestDies
<1> QED BY <1>1, <1>2, <1>3 DEF CreateStep

LEMMA DeliverMove == ASSUME TypeOK, Rows, NEW r \in Res, DeliverStep(r) PROVE StockMove(r)
<1>1. PICK kind \in {"paid", "failed"}, copy \in Copies : Deliver(r, kind, copy)
  BY DEF DeliverStep
<1> QED BY <1>1, ProcessPaidMove, ProcessFailedMove DEF Deliver

LEMMA SweepMove == ASSUME TypeOK, Rows, NEW r \in Res, SweepStep(r) PROVE StockMove(r)
<1> USE DEF listingVars, rowVars
<1>1. CASE ApplyOverdueSession(r)
  BY <1>1, ProcessPaidMove, ProcessFailedMove DEF ApplyOverdueSession, Decide
<1>2. CASE ApplyInitialization(r)
  BY <1>2, ReleaseIfPendingMove DEF ApplyInitialization
<1>3. CASE Materialize(r)
  <2>1. attempt[r] # "none" BY <1>3 DEF Materialize, Rows, RowInv, Views
  <2>2. CASE payment[r] = "none" BY <1>3, <2>1, <2>2, ProcessPaidMove DEF Materialize
  <2>3. CASE payment[r] # "none" BY <1>3, <2>3, SameMove DEF Materialize, stockVars
  <2> QED BY <2>2, <2>3
<1>4. CASE AbandonAttempt(r) BY <1>4, FailMove DEF AbandonAttempt
<1>5. CASE \/ ReadOverdueSession(r) \/ ClaimAttempt(r) \/ ClaimInitialization(r)
           \/ CheckAttempt(r) \/ KeepAttempt(r) \/ WorkerDies(r)
  BY <1>5, SameMove DEF ReadOverdueSession, ClaimAttempt, ClaimInitialization,
     CheckAttempt, KeepAttempt, WorkerDies
<1> QED BY <1>1, <1>2, <1>3, <1>4, <1>5 DEF SweepStep

LEMMA CustomerMove == ASSUME TypeOK, Rows, NEW r \in Res, CustomerStep(r) PROVE StockMove(r)
<1>1. CASE CancelHold(r)
  <2>1. "cancelled_before_confirmation" \in Released BY DEF Released
  <2> QED BY <1>1, <2>1, ReleaseMove DEF CancelHold
<1>2. CASE CancelPaid(r)
  <2>1. held[r]
    BY <1>2 DEF CancelPaid, Cancellable, Rows, RowInv, OnTheShelf, Released
  <2>2. Returns(r)
    BY <1>2, <2>1 DEF CancelPaid, Cancellable, RestoreIfHeld, Returns, Holding, TypeOK
  <2> QED BY <1>2, <2>2 DEF CancelPaid, StockMove, TypeOK
<1>3. CASE PickUp(r)
  BY <1>3 DEF PickUp, StockMove, Keeps, Holding, listingVars, TypeOK
<1> QED BY <1>1, <1>2, <1>3 DEF CustomerStep

LEMMA RowMove ==
    ASSUME TypeOK, Rows, NEW r \in Res,
           \/ CreateStep(r) \/ GatewayStep(r) \/ DeliverStep(r) \/ SweepStep(r)
           \/ CustomerStep(r) \/ RefundStep(r) \/ TimeStep(r)
    PROVE  StockMove(r)
<1>1. CASE GatewayStep(r) \/ RefundStep(r) \/ TimeStep(r)
  BY <1>1, SameMove DEF GatewayStep, CustomerPays, CustomerDeclined, OrderExpires,
     RefundStep, PrepareRefund, RefundOutcome, TimeStep, HoldLapses, AttemptAges,
     listingVars, rowVars
<1> QED BY <1>1, CreateMove, DeliverMove, SweepMove, CustomerMove

-----------------------------------------------------------------------------
(* One live reservation per customer.                                       *)

OneHolder == \A r, s \in Res : r # s /\ UserOf[r] = UserOf[s]
                 => ~(status[r] \in Holding /\ status[s] \in Holding)

LEMMA OneHolderStep == TypeOK /\ Rows /\ OneHolder /\ [Next]_vars => OneHolder'
<1> SUFFICES ASSUME TypeOK, Rows, OneHolder, [Next]_vars PROVE OneHolder'
  OBVIOUS
<1>1. CASE UNCHANGED vars BY <1>1 DEF vars, OneHolder
<1>2. ASSUME NEW r \in Res, StockMove(r) PROVE OneHolder'
  BY <1>2 DEF StockMove, Keeps, Takes, Returns, OneHolder
<1>3. CASE ExpireListing
  <2>1. \A r \in Res : status'[r] \in Holding => status[r] \in Holding
    BY <1>3 DEF ExpireListing, Holding, TypeOK
  <2> QED BY <2>1 DEF OneHolder
<1>4. CASE status' = status BY <1>4 DEF OneHolder
<1>5. ListingStep => ExpireListing \/ status' = status
  BY DEF ListingStep, DeleteListing, Tick, EditListing, rowVars
<1> QED BY <1>1, <1>2, <1>3, <1>4, <1>5, RowMove DEF Next

-----------------------------------------------------------------------------
(* Conservation of stock.                                                   *)

Conserved == remaining + Cardinality(UnitsOf(Holders)) = quantity

LEMMA ConservedMove ==
    ASSUME TypeOK, Conserved, NEW r \in Res, StockMove(r) PROVE Conserved'
<1> DEFINE H == Cardinality(UnitsOf(Holders))
           G == Cardinality(UnitsOf(Holders'))
<1>1. H \in Nat /\ G \in Nat BY UnitsNat
<1>2. Qty[r] \in Nat /\ Cardinality(UnitsOf({r})) = Qty[r] BY QtyPositive, UnitsOfOne
<1>3. remaining \in Nat /\ quantity \in Nat /\ quantity' = quantity
  BY DEF TypeOK, StockMove
<1>4. remaining + H = quantity BY DEF Conserved
<1>5. CASE Keeps(r)
  <2>1. Holders' = Holders BY <1>5 DEF Holders, Keeps, StockMove
  <2>2. G = H BY <2>1
  <2> QED BY <1>1, <1>3, <1>4, <1>5, <2>2 DEF Keeps, Conserved
<1>6. CASE Takes(r)
  <2>1. Holders' = Holders \cup {r} /\ Holders \cap {r} = {}
    BY <1>6 DEF Holders, Takes, StockMove, Holding
  <2>2. G = H + Cardinality(UnitsOf({r})) BY <2>1, UnitsOfBoth
  <2>3. remaining' = remaining - Qty[r] BY <1>6 DEF Takes
  <2>4. remaining' + G = quantity'
    BY ONLY <1>1, <1>2, <1>3, <1>4, <2>2, <2>3
  <2> QED BY <2>4 DEF Conserved
<1>7. CASE Returns(r)
  <2>1. Holders = Holders' \cup {r} /\ Holders' \cap {r} = {}
    BY <1>7 DEF Holders, Returns, StockMove, Holding
  <2>2. Cardinality(UnitsOf(Holders' \cup {r})) = G + Cardinality(UnitsOf({r}))
    BY <2>1, UnitsOfBoth
  <2>3. H = G + Cardinality(UnitsOf({r})) BY <2>1, <2>2
  <2>4. remaining' = remaining + Qty[r] BY <1>7 DEF Returns
  <2>5. remaining' + G = quantity'
    BY ONLY <1>1, <1>2, <1>3, <1>4, <2>3, <2>4
  <2> QED BY <2>5 DEF Conserved
<1> QED BY <1>5, <1>6, <1>7 DEF StockMove

LEMMA ConservedExpiry == ASSUME TypeOK, Conserved, ExpireListing PROVE Conserved'
<1> DEFINE H == Cardinality(UnitsOf(Holders))
           G == Cardinality(UnitsOf(Holders'))
           E == Cardinality(UnitsOf(Expiring))
<1>1. H \in Nat /\ G \in Nat /\ E \in Nat BY UnitsNat
<1>2. Holders = Holders' \cup Expiring /\ Holders' \cap Expiring = {}
  BY DEF Holders, Holding, Expiring, ExpireListing, TypeOK
<1>3. Cardinality(UnitsOf(Holders' \cup Expiring)) = G + E BY <1>2, UnitsOfBoth
<1>4. H = G + E BY <1>2, <1>3
<1>5. remaining' = remaining + E /\ quantity' = quantity
  BY DEF ExpireListing, GivenBack
<1>6. remaining \in Nat /\ remaining + H = quantity BY DEF TypeOK, Conserved
<1>7. remaining' + G = quantity' BY ONLY <1>1, <1>4, <1>5, <1>6
<1> QED BY <1>7 DEF Conserved

LEMMA ConservedStep == TypeOK /\ Rows /\ Conserved /\ [Next]_vars => Conserved'
<1> SUFFICES ASSUME TypeOK, Rows, Conserved, [Next]_vars PROVE Conserved'
  OBVIOUS
<1>1. CASE UNCHANGED vars BY <1>1 DEF vars, Conserved, Holders
<1>2. ASSUME NEW q \in Quantities, NEW c \in {0, 1}, EditListing(q, c)
      PROVE  Conserved'
  <2>1. Holders' = Holders BY <1>2 DEF EditListing, rowVars, Holders
  <2>2. Cardinality(UnitsOf(Holders')) = Cardinality(UnitsOf(Holders)) BY <2>1
  <2>3. remaining' = remaining + q - quantity /\ quantity' = q
    BY <1>2 DEF EditListing, Adjusted
  <2>4. q \in Nat BY StockAssumption
  <2>5. Cardinality(UnitsOf(Holders)) \in Nat BY UnitsNat
  <2>6. remaining \in Nat /\ quantity \in Nat
        /\ remaining + Cardinality(UnitsOf(Holders)) = quantity
    BY DEF TypeOK, Conserved
  <2>7. remaining' + Cardinality(UnitsOf(Holders')) = quantity'
    BY ONLY <2>2, <2>3, <2>4, <2>5, <2>6
  <2> QED BY <2>7 DEF Conserved
<1>3. CASE DeleteListing \/ Tick
  BY <1>3 DEF DeleteListing, Tick, rowVars, Conserved, Holders
<1>4. CASE ListingStep BY <1>2, <1>3, <1>4, ConservedExpiry DEF ListingStep
<1> QED BY <1>1, <1>4, RowMove, ConservedMove DEF Next

-----------------------------------------------------------------------------
(* The inductive invariant.                                                 *)

Inductive == TypeOK /\ Rows /\ OneHolder /\ Conserved

LEMMA InductiveInit == Init => Inductive
<1> SUFFICES ASSUME Init PROVE OneHolder /\ Conserved
  BY TypeInit, RowsInit DEF Inductive
<1>1. Holders = {} BY DEF Init, Holders, Holding
<1>2. UnitsOf(Holders) = {} BY <1>1 DEF UnitsOf
<1>3. Cardinality(UnitsOf(Holders)) = 0 BY <1>2, FS_EmptySet
<1>4. Conserved BY <1>3, StockAssumption DEF Init, Conserved
<1>5. OneHolder BY DEF Init, OneHolder, Holding
<1> QED BY <1>4, <1>5

LEMMA InductiveCorrect == Spec => []Inductive
<1>1. Inductive /\ [Next]_vars => Inductive'
  BY TypeStep, RowsStep, OneHolderStep, ConservedStep DEF Inductive
<1> QED BY <1>1, InductiveInit, PTL DEF Spec

\* Stock is conserved: what is on the shelf and what is held add up to what
\* the provider offers, however failures, timeouts, cancellations and expiry
\* race to give stock back.
THEOREM StockAlwaysConserved == Spec => []StockConserved
<1>1. Inductive => StockConserved
  BY HoldersOutstanding DEF Inductive, Conserved, StockConserved
<1> QED BY <1>1, InductiveCorrect, PTL

\* A customer has at most one live reservation on the listing.
THEOREM AlwaysOneLive == Spec => []OneLiveReservation
<1>1. Inductive => OneLiveReservation
  BY DEF Inductive, OneHolder, OneLiveReservation, Pending, Blocking, Holding
<1> QED BY <1>1, InductiveCorrect, PTL

\* The invariant the runs check follows from the one the proof uses.
THEOREM InvariantHolds == Spec => []IInv
<1>1. Rows => PaymentsAgree /\ StockFollowsReservation /\ CapturedOnly
  BY DEF Rows, RowInv, PaymentsAgree, StockFollowsReservation, CapturedOnly
<1>2. Rows => Control
  BY DEF Rows, RowInv, Control, RowLocked, Pending, Reading
<1>3. Rows => PaidIsPaid BY DEF Rows, RowInv, PaidIsPaid
<1>4. Inductive => StockConserved
  BY HoldersOutstanding DEF Inductive, Conserved, StockConserved
<1>5. Inductive => OneLiveReservation
  BY DEF Inductive, OneHolder, OneLiveReservation, Pending, Blocking, Holding
<1>6. Inductive => IInv BY <1>1, <1>2, <1>3, <1>4, <1>5 DEF Inductive, IInv
<1> QED BY <1>6, InductiveCorrect, PTL

-----------------------------------------------------------------------------
(* What a step may never do.                                                *)

Lawful(s) ==
    /\ ~IllegalPaymentStep(payment[s], payment'[s])
    /\ status[s] \in {"picked_up", "expired"}
          => status'[s] = status[s] /\ payment'[s] = payment[s]

LEMMA SameLawful ==
    ASSUME TypeOK, NEW s \in Res, payment'[s] = payment[s],
           status'[s] = status[s] \/ status[s] \notin {"picked_up", "expired"}
    PROVE  Lawful(s)
BY DEF Lawful, IllegalPaymentStep

LEMMA FailLawful ==
    ASSUME TypeOK, NEW r \in Res, NEW s \in Res, FailHold(r), payment' = payment
    PROVE  Lawful(s)
BY SameLawful DEF FailHold, FailRows, Pending, rowVars, TypeOK

LEMMA ReleaseLawful ==
    ASSUME TypeOK, Rows, NEW r \in Res, NEW s \in Res, NEW to \in {"failed", "expired"},
           NEW into, Pending(r), Release(r, to, into)
    PROVE  Lawful(s)
BY DEF Release, Lawful, IllegalPaymentStep, Pending, TypeOK, Rows, RowInv, Agree

LEMMA ProcessFailedLawful ==
    ASSUME TypeOK, Rows, NEW r \in Res, NEW s \in Res, NEW to \in {"failed", "expired"},
           ReleaseIfPending(r, to) \/ ProcessFailed(r, to)
    PROVE  Lawful(s)
BY SameLawful, ReleaseLawful DEF ProcessFailed, ReleaseIfPending

LEMMA ProcessPaidLawful ==
    ASSUME TypeOK, Rows, NEW r \in Res, NEW s \in Res, NEW p, ProcessPaid(r, p),
           p = payment[r] \/ (p = "pending" /\ payment[r] = "none" /\ attempt[r] # "none")
    PROVE  Lawful(s)
<1>1. CASE s # r BY <1>1, SameLawful DEF ProcessPaid, PaidRows, TypeOK
<1>2. CASE s = r
  <2>1. CASE PaidOutcome(r, p) = "ignore" /\ p = payment[r]
    BY <1>2, <2>1, SameLawful DEF ProcessPaid, PaidRows, TypeOK
  <2>2. CASE PaidOutcome(r, p) = "activate" /\ Pending(r) /\ held[r] /\ p = "pending"
    <3>1. payment[r] \in {"none", "pending"} BY <2>2
    <3>2. payment'[r] = "paid" BY <2>2 DEF ProcessPaid, PaidRows, TypeOK
    <3> QED BY <1>2, <2>2, <3>1, <3>2 DEF Lawful, IllegalPaymentStep, Pending
  <2>3. CASE /\ PaidOutcome(r, p) = "refund"
             /\ status[r] \in Released \cup {"cancelled"} /\ p # "none"
             /\ payStatus[r] # "refunded"
    <3>1. payment'[r] = "refund_pending" BY <2>3 DEF ProcessPaid, PaidRows, TypeOK
    <3>2. payment[r] # "refunded"
      BY <2>3 DEF Rows, RowInv, Agree, Released, RefundStates
    <3> QED BY <1>2, <2>3, <3>1, <3>2 DEF Lawful, IllegalPaymentStep, Released
  <2> QED BY <2>1, <2>2, <2>3, Outcome
<1> QED BY <1>1, <1>2

LEMMA CreateLawful ==
    ASSUME TypeOK, Rows, NEW r \in Res, NEW s \in Res, CreateStep(r) PROVE Lawful(s)
<1> USE DEF listingVars, rowVars
<1>1. CASE Reserve(r)
  BY <1>1, SameLawful DEF Reserve, Rows, RowInv, TypeOK
<1>2. CASE CleanupHold(r) BY <1>2, FailLawful DEF CleanupHold
<1>3. CASE SessionRows(r)
  BY <1>3 DEF SessionRows, Lawful, IllegalPaymentStep, Rows, RowInv, TypeOK
<1>4. CASE \/ BeginSession(r) \/ GatewayCreates(r) \/ MarkCreated(r)
           \/ SessionError(r) \/ RequestDies(r)
  BY <1>4, SameLawful DEF BeginSession, GatewayCreates, MarkCreated, SessionError,
     RequestDies
<1> QED BY <1>1, <1>2, <1>3, <1>4 DEF CreateStep, CommitSession, CommitUnacknowledged

LEMMA DeliverLawful ==
    ASSUME TypeOK, Rows, NEW r \in Res, NEW s \in Res, DeliverStep(r) PROVE Lawful(s)
BY ProcessPaidLawful, ProcessFailedLawful DEF DeliverStep, Deliver

LEMMA SweepLawful ==
    ASSUME TypeOK, Rows, NEW r \in Res, NEW s \in Res, SweepStep(r) PROVE Lawful(s)
<1> USE DEF listingVars, rowVars
<1>1. CASE ApplyOverdueSession(r)
  BY <1>1, ProcessPaidLawful, ProcessFailedLawful DEF ApplyOverdueSession, Decide
<1>2. CASE ApplyInitialization(r) BY <1>2, ProcessFailedLawful DEF ApplyInitialization
<1>3. CASE Materialize(r)
  <2>1. attempt[r] # "none" BY <1>3 DEF Materialize, Rows, RowInv, Views
  <2>2. CASE payment[r] = "none" BY <1>3, <2>1, <2>2, ProcessPaidLawful DEF Materialize
  <2>3. CASE payment[r] # "none" BY <1>3, <2>3, SameLawful DEF Materialize
  <2> QED BY <2>2, <2>3
<1>4. CASE AbandonAttempt(r) BY <1>4, FailLawful DEF AbandonAttempt
<1>5. CASE \/ ReadOverdueSession(r) \/ ClaimAttempt(r) \/ ClaimInitialization(r)
           \/ CheckAttempt(r) \/ KeepAttempt(r) \/ WorkerDies(r)
  BY <1>5, SameLawful DEF ReadOverdueSession, ClaimAttempt, ClaimInitialization,
     CheckAttempt, KeepAttempt, WorkerDies
<1> QED BY <1>1, <1>2, <1>3, <1>4, <1>5 DEF SweepStep

LEMMA CustomerLawful ==
    ASSUME TypeOK, Rows, NEW r \in Res, NEW s \in Res,
           CustomerStep(r) \/ RefundStep(r) \/ TimeStep(r) \/ GatewayStep(r)
    PROVE  Lawful(s)
<1>1. CASE CancelHold(r) BY <1>1, ReleaseLawful DEF CancelHold
<1>2. CASE CancelPaid(r)
  BY <1>2 DEF CancelPaid, Cancellable, Lawful, IllegalPaymentStep, Rows, RowInv, Agree,
     RefundStates, TypeOK
<1>3. CASE PickUp(r) BY <1>3, SameLawful DEF PickUp, TypeOK
<1>4. CASE PrepareRefund(r)
  BY <1>4 DEF PrepareRefund, RefundDue, Lawful, IllegalPaymentStep, TypeOK
<1>5. CASE RefundOutcome(r)
  BY <1>5 DEF RefundOutcome, MayFail, Lawful, IllegalPaymentStep, Rows, RowInv, Agree,
     RefundStates, TypeOK
<1>6. CASE TimeStep(r) \/ GatewayStep(r)
  BY <1>6, SameLawful DEF TimeStep, HoldLapses, AttemptAges, GatewayStep, CustomerPays,
     CustomerDeclined, OrderExpires, rowVars
<1> QED BY <1>1, <1>2, <1>3, <1>4, <1>5, <1>6 DEF CustomerStep, RefundStep

LEMMA StepLawful == TypeOK /\ Rows /\ [Next]_vars => \A s \in Res : Lawful(s)
<1> SUFFICES ASSUME TypeOK, Rows, [Next]_vars, NEW s \in Res PROVE Lawful(s)
  OBVIOUS
<1>1. CASE UNCHANGED vars BY <1>1, SameLawful DEF vars
<1>2. CASE ListingStep
  BY <1>2, SameLawful DEF ListingStep, ExpireListing, Expiring, DeleteListing, Tick,
     EditListing, rowVars, TypeOK
<1> QED BY <1>1, <1>2, CreateLawful, DeliverLawful, SweepLawful, CustomerLawful DEF Next

\* No transaction is ever aborted by the trigger that guards payments.status.
THEOREM TriggerIsSilent == Spec => TriggerNeverFires
<1>1. TypeOK /\ Rows /\ [Next]_vars
        => [\A r \in Res : ~IllegalPaymentStep(payment[r], payment'[r])]_vars
  BY StepLawful DEF Lawful
<1> QED BY <1>1, RowsCorrect, PTL DEF Spec, TriggerNeverFires

\* A reservation that was picked up or expired is never reopened.
THEOREM ClosedIsFinal == Spec => ClosedStaysClosed
<1>1. TypeOK /\ Rows /\ [Next]_vars
        => [\A r \in Res : status[r] \in {"picked_up", "expired"} =>
              status'[r] = status[r] /\ payment'[r] = payment[r]]_vars
  BY StepLawful DEF Lawful
<1> QED BY <1>1, RowsCorrect, PTL DEF Spec, ClosedStaysClosed

-----------------------------------------------------------------------------
(* Refinement of StockLedger.                                               *)

LEMMA PhaseNow ==
    ASSUME TypeOK, Rows
    PROVE  LedgerPhase = [r \in Res |-> IF status[r] = "none" THEN "new"
                          ELSE IF status[r] \in Holding THEN "taken" ELSE "closed"]
<1>1. \A r \in Res : r \in Outstanding <=> status[r] \in Holding
  BY HoldersOutstanding DEF Holders
<1> QED BY <1>1 DEF LedgerPhase

LEMMA PhaseNext ==
    ASSUME TypeOK', Rows'
    PROVE  LedgerPhase' = [r \in Res |-> IF status'[r] = "none" THEN "new"
                           ELSE IF status'[r] \in Holding THEN "taken" ELSE "closed"]
<1>1. \A r \in Res : r \in Outstanding' <=> status'[r] \in Holding
  BY DEF TypeOK, Rows, RowInv, Agree, Outstanding, Holding, OnTheShelf, Statuses, Released
<1> QED BY <1>1 DEF LedgerPhase

\* What is not new keeps what it took.
LEMMA TakenStays ==
    ASSUME \A s \in Res : (status'[s] = "none") <=> (status[s] = "none")
    PROVE  LedgerTaken' = LedgerTaken
BY DEF LedgerTaken

\* The ledger counts the items of S as PaymentHold does.
LEMMA SameItems ==
    ASSUME NEW S \in SUBSET Res, \A s \in S : status[s] # "none"
    PROVE  Ledger!Cardinality(Ledger!TakenBy(S)) = Cardinality(UnitsOf(S))
<1>1. \A s \in S : LedgerTaken[s] = Qty[s] /\ Qty[s] \in {1, 2}
  BY QtyAssumption DEF LedgerTaken
<1>2. Ledger!TakenBy(S) = UNION {{s} \X (1..Qty[s]) : s \in S}
  <2>1. Ledger!TakenBy(S) = UNION {{s} \X (1..LedgerTaken[s]) : s \in S}
    BY DEF Ledger!TakenBy
  <2>2. \A s \in S : {s} \X (1..LedgerTaken[s]) = {s} \X (1..Qty[s]) BY <1>1
  <2> QED BY <2>1, <2>2, Zenon
<1>3. ASSUME NEW u \in UNION {{s} \X (1..Qty[s]) : s \in S} PROVE u \in UnitsOf(S)
  BY <1>1 DEF UnitsOf
<1>4. ASSUME NEW u \in UnitsOf(S) PROVE u \in UNION {{s} \X (1..Qty[s]) : s \in S}
  <2>1. u \in {u[1]} \X (1..Qty[u[1]]) /\ u[1] \in S BY <1>1 DEF UnitsOf
  <2> QED BY <2>1
<1>5. Ledger!TakenBy(S) = UnitsOf(S) BY <1>2, <1>3, <1>4
<1>6. Ledger!Cardinality(UnitsOf(S)) = Cardinality(UnitsOf(S))
  BY DEF Cardinality, Ledger!Cardinality
<1> QED BY <1>5, <1>6

LEMMA LedgerMove ==
    ASSUME TypeOK, Rows, TypeOK', Rows', NEW r \in Res, StockMove(r)
    PROVE  [Ledger!Next]_Ledger!ledgerVars
<1> USE PhaseNow, PhaseNext
<1>1. CASE Keeps(r)
  <2>1. LedgerPhase' = LedgerPhase BY <1>1 DEF Keeps, StockMove
  <2>2. LedgerTaken' = LedgerTaken BY <1>1, TakenStays DEF Keeps, StockMove
  <2> QED BY <1>1, <2>1, <2>2 DEF Keeps, StockMove, Ledger!ledgerVars
<1>2. CASE Takes(r)
  <2>1. LedgerPhase[r] = "new" BY <1>2 DEF Takes
  <2>2. LedgerPhase' = [LedgerPhase EXCEPT ![r] = "taken"]
    BY <1>2 DEF Takes, StockMove, Holding
  <2>3. LedgerTaken' = [LedgerTaken EXCEPT ![r] = Qty[r]]
    BY <1>2 DEF Takes, StockMove, Holding, LedgerTaken
  <2>4. Qty[r] \in 1..remaining BY <1>2, QtyAssumption DEF Takes, TypeOK
  <2>5. remaining' = remaining - Qty[r] /\ quantity' = quantity
    BY <1>2 DEF Takes, StockMove
  <2>6. Ledger!Take(r) BY <2>1, <2>2, <2>3, <2>4, <2>5 DEF Ledger!Take
  <2> QED BY <2>6 DEF Ledger!Next
<1>3. CASE Returns(r)
  <2>1. \A s \in {r} : LedgerPhase[s] = "taken" BY <1>3 DEF Returns, Holding
  <2>2. LedgerPhase' = [s \in Res |-> IF s \in {r} THEN "closed" ELSE LedgerPhase[s]]
    BY <1>3 DEF Returns, StockMove
  <2>3. remaining' = remaining + Ledger!Cardinality(Ledger!TakenBy({r}))
    <3>1. Ledger!Cardinality(Ledger!TakenBy({r})) = Cardinality(UnitsOf({r}))
      BY <1>3, SameItems DEF Returns, Holding
    <3> QED BY <1>3, <3>1, UnitsOfOne DEF Returns
  <2>4. LedgerTaken' = LedgerTaken
    BY <1>3, TakenStays DEF Returns, StockMove, Holding
  <2>5. Ledger!GiveBack({r}) BY <2>1, <2>2, <2>3, <2>4 DEF StockMove, Ledger!GiveBack
  <2> QED BY <2>5 DEF Ledger!Next
<1> QED BY <1>1, <1>2, <1>3 DEF StockMove

LEMMA LedgerStep ==
    TypeOK /\ Rows /\ TypeOK' /\ Rows' /\ [Next]_vars => [Ledger!Next]_Ledger!ledgerVars
<1> SUFFICES ASSUME TypeOK, Rows, TypeOK', Rows', [Next]_vars
             PROVE  [Ledger!Next]_Ledger!ledgerVars
  OBVIOUS
<1>1. ASSUME UNCHANGED <<quantity, remaining, status>>
      PROVE  UNCHANGED Ledger!ledgerVars
  BY <1>1, PhaseNow, PhaseNext, TakenStays DEF Ledger!ledgerVars
<1>2. CASE ExpireListing
  <2>1. \A s \in Expiring : LedgerPhase[s] = "taken"
    BY PhaseNow DEF Expiring, Holding
  <2>2. LedgerPhase' = [s \in Res |-> IF s \in Expiring THEN "closed" ELSE LedgerPhase[s]]
    BY <1>2, PhaseNow, PhaseNext DEF ExpireListing, Expiring, Holding
  <2>3. Expiring \in SUBSET Res /\ \A s \in Expiring : status[s] # "none" BY DEF Expiring
  <2>4. remaining' = remaining + Ledger!Cardinality(Ledger!TakenBy(Expiring))
    BY <1>2, <2>3, SameItems DEF ExpireListing, GivenBack
  <2>5. LedgerTaken' = LedgerTaken BY <1>2, <2>3, TakenStays DEF ExpireListing
  <2>6. Ledger!GiveBack(Expiring)
    BY <1>2, <2>1, <2>2, <2>4, <2>5 DEF ExpireListing, Ledger!GiveBack
  <2> QED BY <2>3, <2>6 DEF Ledger!Next
<1>3. ASSUME NEW q \in Quantities, NEW c \in {0, 1}, EditListing(q, c)
      PROVE  Ledger!Adjust
  <2>1. LedgerPhase' = LedgerPhase
    BY <1>3, PhaseNow, PhaseNext DEF EditListing, rowVars
  <2>2. LedgerTaken' = LedgerTaken BY <1>3, TakenStays DEF EditListing, rowVars
  <2> QED BY <1>3, <2>1, <2>2, StockAssumption DEF EditListing, Adjusted, Ledger!Adjust
<1>4. CASE UNCHANGED vars BY <1>1, <1>4 DEF vars
<1>5. CASE DeleteListing \/ Tick BY <1>1, <1>5 DEF DeleteListing, Tick, rowVars
<1> QED BY <1>2, <1>3, <1>4, <1>5, RowMove, LedgerMove DEF Next, ListingStep, Ledger!Next

\* The handlers together implement the ledger: whatever happens to payments,
\* refunds, pickups and expiry, the items of a reservation are taken at most
\* once, never more than there are, and given back at most once.
THEOREM ImplementsLedger == Spec => KeepsLedger
<1>1. Init => Ledger!Init
  <2> SUFFICES ASSUME Init PROVE Ledger!Init
    OBVIOUS
  <2>1. LedgerPhase = [r \in Res |-> "new"] BY DEF Init, LedgerPhase
  <2>2. LedgerTaken = [r \in Res |-> 0] BY DEF Init, LedgerTaken
  <2> QED BY <2>1, <2>2, StockAssumption DEF Init, Ledger!Init
<1> QED BY <1>1, LedgerStep, RowsCorrect, PTL DEF Spec, KeepsLedger, Ledger!Spec

=============================================================================
