--------------------------- MODULE RefundsProofs ---------------------------
(***************************************************************************)
(* Proofs about Refunds for any number of refund ids, attempts and crashes. *)
(* OneRefund, SaysTruth and RefundHasCause are not inductive: what a job     *)
(* books rests on what it was told (Heard), on its knowing an id before it  *)
(* asks (Named), on why it was queued (Causes), and on what the refund it   *)
(* asked for contains (Whole).                                              *)
(***************************************************************************)
EXTENDS Refunds, TLAPS

\* A job past its transaction has an id; the two ids differ; only a payment
\* with a deposit ever gets a deposit refund; a live job has an attempt left.
Named ==
    /\ \A k \in Jobs : step[k] \in Running => IdOf(k) \in Ids
    /\ rid # 0 => rid # did
    /\ did # 0 => dep # "none"
    /\ \A k \in Jobs : step[k] \in Running \cup {"queued"} => left[k] > 0

\* The refund of the payment contains the food, and the deposit where there is
\* one; the refund of the deposit contains that alone.
Whole ==
    /\ \A i \in Ids : gw[i] # "none" => ("food" \in parts[i] <=> i = rid)
    /\ rid # 0 => (gw[rid] # "none" /\ dep # "none" => "deposit" \in parts[rid])
    /\ did # 0 => (gw[did] # "none" => "deposit" \in parts[did])

\* Why a job, and so a refund, exists
Causes ==
    /\ step["cancel"] # "none" => res = "cancelled"
    /\ step["fault"] # "none" => report = "validated"
    /\ step["deposit"] # "none" => res = "picked_up"
    /\ RefundHasCause

\* What a job or the sweep has been told as final is final at the gateway.
Heard ==
    /\ \A k \in Jobs : says[k] # "pending" => IdOf(k) \in Ids /\ gw[IdOf(k)] = says[k]
    /\ \A i \in Ids : seen[i] \in {"success", "failed"} => gw[i] = seen[i]

IInv == TypeOK /\ Named /\ OneRefund /\ Whole /\ Causes /\ Heard /\ SaysTruth

-----------------------------------------------------------------------------
USE IdsAssumption, AttemptsAssumption
    DEF Jobs, Ops, Steps, Running, Ids, Answers, RefundStatuses, IdOf, OpOf,
        rowVars, jobVars, gwVars

LEMMA InitInv == Init => IInv
  BY SMTT(30) DEF Init, IInv, TypeOK, Named, OneRefund, Whole, Causes, RefundHasCause,
     Heard, SaysTruth

\* What RefundId draws: the id there is, or one nobody has used.
LEMMA NewId ==
  ASSUME TypeOK, NEW id \in {rid, did}, NEW j \in RefundId(id)
  PROVE  /\ j \in Ids
         /\ id # 0 => j = id
         /\ id = 0 => gw[j] = "none" /\ j # rid /\ j # did
  BY DEF TypeOK, RefundId, Unused

LEMMA ExpireInv ==
  ASSUME IInv, Expire PROVE IInv'
  <1>1. TypeOK'
    BY DEF IInv, TypeOK, Named, Expire
  <1>2. Named'
    BY DEF IInv, TypeOK, Named, Expire
  <1>3. OneRefund'
    BY DEF IInv, TypeOK, Named, OneRefund, Expire
  <1>4. Whole'
    BY DEF IInv, TypeOK, Named, OneRefund, Whole, Expire
  <1>5. Causes'
    BY DEF IInv, TypeOK, Named, OneRefund, Whole, Causes, RefundHasCause, Expire
  <1>6. Heard'
    BY DEF IInv, TypeOK, Named, OneRefund, Heard, Expire
  <1>7. SaysTruth'
    BY DEF IInv, TypeOK, Named, Heard, Whole, SaysTruth, Expire
  <1> QED BY <1>1, <1>2, <1>3, <1>4, <1>5, <1>6, <1>7 DEF IInv

LEMMA CancelInv ==
  ASSUME IInv, NEW lost \in BOOLEAN, Cancel(lost) PROVE IInv'
  <1>1. TypeOK'
    BY DEF IInv, TypeOK, Named, Cancel, Enqueue
  <1>2. Named'
    BY DEF IInv, TypeOK, Named, Cancel, Enqueue
  <1>3. OneRefund'
    BY DEF IInv, TypeOK, Named, OneRefund, Cancel, Enqueue
  <1>4. Whole'
    BY DEF IInv, TypeOK, Named, OneRefund, Whole, Cancel, Enqueue
  <1>5. Causes'
    BY DEF IInv, TypeOK, Named, OneRefund, Whole, Causes, RefundHasCause, Cancel,
       Enqueue
  <1>6. Heard'
    BY DEF IInv, TypeOK, Named, OneRefund, Heard, Cancel, Enqueue
  <1>7. SaysTruth'
    BY DEF IInv, TypeOK, Named, Heard, Whole, SaysTruth, Cancel, Enqueue
  <1> QED BY <1>1, <1>2, <1>3, <1>4, <1>5, <1>6, <1>7 DEF IInv

LEMMA PickUpInv ==
  ASSUME IInv, NEW lost \in BOOLEAN, PickUp(lost) PROVE IInv'
  <1>1. TypeOK'
    BY DEF IInv, TypeOK, Named, PickUp, Enqueue
  <1>2. Named'
    BY DEF IInv, TypeOK, Named, PickUp, Enqueue
  <1>3. OneRefund'
    BY DEF IInv, TypeOK, Named, OneRefund, PickUp, Enqueue
  <1>4. Whole'
    BY DEF IInv, TypeOK, Named, OneRefund, Whole, PickUp, Enqueue
  <1>5. Causes'
    BY DEF IInv, TypeOK, Named, OneRefund, Whole, Causes, RefundHasCause, PickUp,
       Enqueue
  <1>6. Heard'
    BY DEF IInv, TypeOK, Named, OneRefund, Heard, PickUp, Enqueue
  <1>7. SaysTruth'
    BY DEF IInv, TypeOK, Named, Heard, Whole, SaysTruth, PickUp, Enqueue
  <1> QED BY <1>1, <1>2, <1>3, <1>4, <1>5, <1>6, <1>7 DEF IInv

LEMMA ValidateInv ==
  ASSUME IInv, NEW lost \in BOOLEAN, Validate(lost) PROVE IInv'
  <1>1. TypeOK'
    BY DEF IInv, TypeOK, Named, Validate, Enqueue
  <1>2. Named'
    BY DEF IInv, TypeOK, Named, Validate, Enqueue
  <1>3. OneRefund'
    BY DEF IInv, TypeOK, Named, OneRefund, Validate, Enqueue
  <1>4. Whole'
    BY DEF IInv, TypeOK, Named, OneRefund, Whole, Validate, Enqueue
  <1>5. Causes'
    BY DEF IInv, TypeOK, Named, OneRefund, Whole, Causes, RefundHasCause, Validate,
       Enqueue
  <1>6. Heard'
    BY DEF IInv, TypeOK, Named, OneRefund, Heard, Validate, Enqueue
  <1>7. SaysTruth'
    BY DEF IInv, TypeOK, Named, Heard, Whole, SaysTruth, Validate, Enqueue
  <1> QED BY <1>1, <1>2, <1>3, <1>4, <1>5, <1>6, <1>7 DEF IInv

LEMMA PrepareInv ==
  ASSUME IInv, NEW k \in Jobs, Prepare(k) PROVE IInv'
  <1> DEFINE new == IF k = "deposit" THEN did' ELSE rid'
             old == IF k = "deposit" THEN did ELSE rid
  <1>0. /\ new \in Ids /\ (old # 0 => new = old)
        /\ old = 0 => gw[new] = "none" /\ new # rid /\ new # did
        /\ IF k = "deposit" THEN rid' = rid ELSE did' = did
    <2>1. CASE k = "deposit" BY <2>1, NewId DEF IInv, Prepare
    <2>2. CASE k # "deposit" BY <2>2, NewId DEF IInv, Prepare
    <2> QED BY <2>1, <2>2
  <1>1. TypeOK'
    BY <1>0, SMTT(60) DEF IInv, TypeOK, Named, Prepare, Due, StartedAgain
  <1>2. Named'
    BY <1>0, SMTT(60) DEF IInv, TypeOK, Named, Prepare, Due, StartedAgain
  <1>3. OneRefund'
    BY <1>0, SMTT(60) DEF IInv, TypeOK, Named, OneRefund, Prepare, Due, StartedAgain
  <1>4. Whole'
    <2>1. CASE k = "deposit"
      BY <1>0, <2>1, SMTT(60) DEF IInv, TypeOK, Named, OneRefund, Whole, Prepare,
         Due, StartedAgain
    <2>2. CASE k # "deposit" /\ rid = 0
      BY <1>0, <2>2, SMTT(60) DEF IInv, TypeOK, Named, OneRefund, Whole, Prepare,
         Due, StartedAgain
    <2>3. CASE k # "deposit" /\ rid # 0
      BY <1>0, <2>3, SMTT(60) DEF IInv, TypeOK, Named, OneRefund, Whole, Prepare,
         Due, StartedAgain
    <2> QED BY <2>1, <2>2, <2>3
  <1>5. Causes'
    BY <1>0, SMTT(60) DEF IInv, TypeOK, Named, OneRefund, Whole, Causes,
       RefundHasCause, Prepare, Due, StartedAgain
  <1>6. Heard'
    BY <1>0, SMTT(60) DEF IInv, TypeOK, Named, OneRefund, Heard, Prepare, Due,
       StartedAgain
  <1>7. SaysTruth'
    <2>1. CASE k = "deposit"
      BY <1>0, <2>1, SMTT(60) DEF IInv, TypeOK, Named, Heard, Whole, SaysTruth,
         Prepare, Due, StartedAgain
    <2>2. CASE k # "deposit"
      <3>1. /\ pay' = "refund_pending" /\ resPay' # "refunded"
            /\ dep' = dep /\ did' = did /\ gw' = gw /\ parts' = parts
            /\ op' = [op EXCEPT !["refund"] = "processing"]
        BY <2>2 DEF IInv, TypeOK, SaysTruth, Prepare, Due, StartedAgain
      <3> QED BY <3>1 DEF IInv, TypeOK, SaysTruth
    <2> QED BY <2>1, <2>2
  <1> QED BY <1>1, <1>2, <1>3, <1>4, <1>5, <1>6, <1>7 DEF IInv

LEMMA NothingDueInv ==
  ASSUME IInv, NEW k \in Jobs, NothingDue(k) PROVE IInv'
  <1>1. TypeOK'
    BY DEF IInv, TypeOK, Named, NothingDue
  <1>2. Named'
    BY DEF IInv, TypeOK, Named, NothingDue
  <1>3. OneRefund'
    BY DEF IInv, TypeOK, Named, OneRefund, NothingDue
  <1>4. Whole'
    BY DEF IInv, TypeOK, Named, OneRefund, Whole, NothingDue
  <1>5. Causes'
    BY DEF IInv, TypeOK, Named, OneRefund, Whole, Causes, RefundHasCause, NothingDue
  <1>6. Heard'
    BY DEF IInv, TypeOK, Named, OneRefund, Heard, NothingDue
  <1>7. SaysTruth'
    BY DEF IInv, TypeOK, Named, Heard, Whole, SaysTruth, NothingDue
  <1> QED BY <1>1, <1>2, <1>3, <1>4, <1>5, <1>6, <1>7 DEF IInv

LEMMA CallInv ==
  ASSUME IInv, NEW k \in Jobs, Call(k) PROVE IInv'
  <1>1. TypeOK'
    BY DEF IInv, TypeOK, Named, Call, Contents
  <1>2. Named'
    BY DEF IInv, TypeOK, Named, Call, Contents
  <1>3. OneRefund'
    BY DEF IInv, TypeOK, Named, OneRefund, Call, Contents
  <1>4. Whole'
    BY DEF IInv, TypeOK, Named, OneRefund, Whole, Call, Contents
  <1>5. Causes'
    BY DEF IInv, TypeOK, Named, OneRefund, Whole, Causes, RefundHasCause, Call,
       Contents
  <1>6. Heard'
    BY DEF IInv, TypeOK, Named, OneRefund, Heard, Call, Contents
  <1>7. SaysTruth'
    <2>1. \A i \in Ids : gw[i] # "none" => gw'[i] = gw[i] /\ parts'[i] = parts[i]
      BY DEF IInv, TypeOK, Named, Call
    <2> QED BY <2>1 DEF IInv, TypeOK, SaysTruth, Call
  <1> QED BY <1>1, <1>2, <1>3, <1>4, <1>5, <1>6, <1>7 DEF IInv

LEMMA CallRefusedInv ==
  ASSUME IInv, NEW k \in Jobs, CallRefused(k) PROVE IInv'
  <1>1. TypeOK'
    BY DEF IInv, TypeOK, Named, CallRefused
  <1>2. Named'
    BY DEF IInv, TypeOK, Named, CallRefused
  <1>3. OneRefund'
    BY DEF IInv, TypeOK, Named, OneRefund, CallRefused
  <1>4. Whole'
    BY DEF IInv, TypeOK, Named, OneRefund, Whole, CallRefused
  <1>5. Causes'
    BY DEF IInv, TypeOK, Named, OneRefund, Whole, Causes, RefundHasCause,
       CallRefused
  <1>6. Heard'
    BY DEF IInv, TypeOK, Named, OneRefund, Heard, CallRefused
  <1>7. SaysTruth'
    BY DEF IInv, TypeOK, Named, Heard, Whole, SaysTruth, CallRefused
  <1> QED BY <1>1, <1>2, <1>3, <1>4, <1>5, <1>6, <1>7 DEF IInv

LEMMA PersistInv ==
  ASSUME IInv, NEW k \in Jobs, Persist(k) PROVE IInv'
  <1>1. TypeOK'
    BY SMTT(60) DEF IInv, TypeOK, Named, Persist, Store, StoreDeposit, StorePayment,
       LegalDeposit, StartedAgain, Normal
  <1>2. Named'
    BY SMTT(60) DEF IInv, TypeOK, Named, Persist, Store, StoreDeposit, StorePayment,
       LegalDeposit, StartedAgain, Normal
  <1>3. OneRefund'
    BY SMTT(60) DEF IInv, TypeOK, Named, OneRefund, Persist, Store, StoreDeposit,
       StorePayment, LegalDeposit, StartedAgain, Normal
  <1>4. Whole'
    BY SMTT(60) DEF IInv, TypeOK, Named, OneRefund, Whole, Persist, Store,
       StoreDeposit, StorePayment, LegalDeposit, StartedAgain, Normal
  <1>5. Causes'
    BY SMTT(60) DEF IInv, TypeOK, Named, OneRefund, Whole, Causes, RefundHasCause,
       Persist, Store, StoreDeposit, StorePayment, LegalDeposit, StartedAgain,
       Normal
  <1>6. Heard'
    BY SMTT(60) DEF IInv, TypeOK, Named, OneRefund, Heard, Persist, Store,
       StoreDeposit, StorePayment, LegalDeposit, StartedAgain, Normal
  <1>7. SaysTruth'
    BY SMTT(60) DEF IInv, TypeOK, Named, Heard, Whole, SaysTruth, Persist, Store,
       StoreDeposit, StorePayment, LegalDeposit, StartedAgain, Normal
  <1> QED BY <1>1, <1>2, <1>3, <1>4, <1>5, <1>6, <1>7 DEF IInv

LEMMA PersistRaisesInv ==
  ASSUME IInv, NEW k \in Jobs, PersistRaises(k) PROVE IInv'
  <1>1. TypeOK'
    BY DEF IInv, TypeOK, Named, PersistRaises
  <1>2. Named'
    BY DEF IInv, TypeOK, Named, PersistRaises
  <1>3. OneRefund'
    BY DEF IInv, TypeOK, Named, OneRefund, PersistRaises
  <1>4. Whole'
    BY DEF IInv, TypeOK, Named, OneRefund, Whole, PersistRaises
  <1>5. Causes'
    BY DEF IInv, TypeOK, Named, OneRefund, Whole, Causes, RefundHasCause,
       PersistRaises
  <1>6. Heard'
    BY DEF IInv, TypeOK, Named, OneRefund, Heard, PersistRaises
  <1>7. SaysTruth'
    BY DEF IInv, TypeOK, Named, Heard, Whole, SaysTruth, PersistRaises
  <1> QED BY <1>1, <1>2, <1>3, <1>4, <1>5, <1>6, <1>7 DEF IInv

LEMMA MarkOperationInv ==
  ASSUME IInv, NEW k \in Jobs, MarkOperation(k) PROVE IInv'
  <1>1. TypeOK'
    BY DEF IInv, TypeOK, Named, MarkOperation, OpStatus
  <1>2. Named'
    BY DEF IInv, TypeOK, Named, MarkOperation, OpStatus
  <1>3. OneRefund'
    BY DEF IInv, TypeOK, Named, OneRefund, MarkOperation, OpStatus
  <1>4. Whole'
    BY DEF IInv, TypeOK, Named, OneRefund, Whole, MarkOperation, OpStatus
  <1>5. Causes'
    BY DEF IInv, TypeOK, Named, OneRefund, Whole, Causes, RefundHasCause,
       MarkOperation, OpStatus
  <1>6. Heard'
    BY DEF IInv, TypeOK, Named, OneRefund, Heard, MarkOperation, OpStatus
  <1>7. SaysTruth'
    BY DEF IInv, TypeOK, Named, Heard, Whole, SaysTruth, MarkOperation, OpStatus
  <1> QED BY <1>1, <1>2, <1>3, <1>4, <1>5, <1>6, <1>7 DEF IInv

LEMMA LookUpInv ==
  ASSUME IInv, NEW k \in Jobs, LookUp(k) PROVE IInv'
  <1>1. TypeOK'
    BY DEF IInv, TypeOK, Named, LookUp
  <1>2. Named'
    BY DEF IInv, TypeOK, Named, LookUp
  <1>3. OneRefund'
    BY DEF IInv, TypeOK, Named, OneRefund, LookUp
  <1>4. Whole'
    BY DEF IInv, TypeOK, Named, OneRefund, Whole, LookUp
  <1>5. Causes'
    BY DEF IInv, TypeOK, Named, OneRefund, Whole, Causes, RefundHasCause, LookUp
  <1>6. Heard'
    BY DEF IInv, TypeOK, Named, OneRefund, Heard, LookUp
  <1>7. SaysTruth'
    BY DEF IInv, TypeOK, Named, Heard, Whole, SaysTruth, LookUp
  <1> QED BY <1>1, <1>2, <1>3, <1>4, <1>5, <1>6, <1>7 DEF IInv

LEMMA ApplyLookUpInv ==
  ASSUME IInv, NEW k \in Jobs, ApplyLookUp(k) PROVE IInv'
  <1>1. TypeOK'
    BY SMTT(60) DEF IInv, TypeOK, Named, ApplyLookUp, Apply, ApplyToDeposit,
       ApplyToPayment, ShouldApply, LegalDeposit, StartedAgain, Normal, OpStatus
  <1>2. Named'
    BY SMTT(60) DEF IInv, TypeOK, Named, ApplyLookUp, Apply, ApplyToDeposit,
       ApplyToPayment, ShouldApply, LegalDeposit, StartedAgain, Normal, OpStatus
  <1>3. OneRefund'
    BY SMTT(60) DEF IInv, TypeOK, Named, OneRefund, ApplyLookUp, Apply,
       ApplyToDeposit, ApplyToPayment, ShouldApply, LegalDeposit, StartedAgain,
       Normal, OpStatus
  <1>4. Whole'
    BY SMTT(60) DEF IInv, TypeOK, Named, OneRefund, Whole, ApplyLookUp, Apply,
       ApplyToDeposit, ApplyToPayment, ShouldApply, LegalDeposit, StartedAgain,
       Normal, OpStatus
  <1>5. Causes'
    BY SMTT(60) DEF IInv, TypeOK, Named, OneRefund, Whole, Causes, RefundHasCause,
       ApplyLookUp, Apply, ApplyToDeposit, ApplyToPayment, ShouldApply,
       LegalDeposit, StartedAgain, Normal, OpStatus
  <1>6. Heard'
    BY SMTT(60) DEF IInv, TypeOK, Named, OneRefund, Heard, ApplyLookUp, Apply,
       ApplyToDeposit, ApplyToPayment, ShouldApply, LegalDeposit, StartedAgain,
       Normal, OpStatus
  <1>7. SaysTruth'
    BY SMTT(60) DEF IInv, TypeOK, Named, Heard, Whole, SaysTruth, ApplyLookUp,
       Apply, ApplyToDeposit, ApplyToPayment, ShouldApply, LegalDeposit,
       StartedAgain, Normal, OpStatus
  <1> QED BY <1>1, <1>2, <1>3, <1>4, <1>5, <1>6, <1>7 DEF IInv

LEMMA AttemptFailsInv ==
  ASSUME IInv, NEW k \in Jobs, AttemptFails(k) PROVE IInv'
  <1>1. TypeOK'
    BY DEF IInv, TypeOK, Named, AttemptFails, GivenUp
  <1>2. Named'
    BY DEF IInv, TypeOK, Named, AttemptFails, GivenUp
  <1>3. OneRefund'
    BY DEF IInv, TypeOK, Named, OneRefund, AttemptFails, GivenUp
  <1>4. Whole'
    BY DEF IInv, TypeOK, Named, OneRefund, Whole, AttemptFails, GivenUp
  <1>5. Causes'
    BY DEF IInv, TypeOK, Named, OneRefund, Whole, Causes, RefundHasCause,
       AttemptFails, GivenUp
  <1>6. Heard'
    BY DEF IInv, TypeOK, Named, OneRefund, Heard, AttemptFails, GivenUp
  <1>7. SaysTruth'
    BY DEF IInv, TypeOK, Named, Heard, Whole, SaysTruth, AttemptFails, GivenUp
  <1> QED BY <1>1, <1>2, <1>3, <1>4, <1>5, <1>6, <1>7 DEF IInv

LEMMA CrashInv ==
  ASSUME IInv, NEW k \in Jobs, Crash(k) PROVE IInv'
  <1>1. TypeOK'
    BY DEF IInv, TypeOK, Named, Crash
  <1>2. Named'
    BY DEF IInv, TypeOK, Named, Crash
  <1>3. OneRefund'
    BY DEF IInv, TypeOK, Named, OneRefund, Crash
  <1>4. Whole'
    BY DEF IInv, TypeOK, Named, OneRefund, Whole, Crash
  <1>5. Causes'
    BY DEF IInv, TypeOK, Named, OneRefund, Whole, Causes, RefundHasCause, Crash
  <1>6. Heard'
    BY DEF IInv, TypeOK, Named, OneRefund, Heard, Crash
  <1>7. SaysTruth'
    BY DEF IInv, TypeOK, Named, Heard, Whole, SaysTruth, Crash
  <1> QED BY <1>1, <1>2, <1>3, <1>4, <1>5, <1>6, <1>7 DEF IInv

LEMMA SettleInv ==
  ASSUME IInv, NEW i \in Ids, Settle(i) PROVE IInv'
  <1>1. TypeOK'
    BY DEF IInv, TypeOK, Named, Settle
  <1>2. Named'
    BY DEF IInv, TypeOK, Named, Settle
  <1>3. OneRefund'
    BY DEF IInv, TypeOK, Named, OneRefund, Settle
  <1>4. Whole'
    BY DEF IInv, TypeOK, Named, OneRefund, Whole, Settle
  <1>5. Causes'
    BY DEF IInv, TypeOK, Named, OneRefund, Whole, Causes, RefundHasCause, Settle
  <1>6. Heard'
    BY DEF IInv, TypeOK, Named, OneRefund, Heard, Settle
  <1>7. SaysTruth'
    BY DEF IInv, TypeOK, Named, Heard, Whole, SaysTruth, Settle
  <1> QED BY <1>1, <1>2, <1>3, <1>4, <1>5, <1>6, <1>7 DEF IInv

LEMMA WebhookInv ==
  ASSUME IInv, NEW i \in Ids, Webhook(i) PROVE IInv'
  <1>1. TypeOK'
    BY SMTT(60) DEF IInv, TypeOK, Named, Webhook, Told, Apply, ApplyToDeposit,
       ApplyToPayment, ShouldApply, LegalDeposit, StartedAgain, Normal, OpStatus
  <1>2. Named'
    BY SMTT(60) DEF IInv, TypeOK, Named, Webhook, Told, Apply, ApplyToDeposit,
       ApplyToPayment, ShouldApply, LegalDeposit, StartedAgain, Normal, OpStatus
  <1>3. OneRefund'
    BY SMTT(60) DEF IInv, TypeOK, Named, OneRefund, Webhook, Told, Apply,
       ApplyToDeposit, ApplyToPayment, ShouldApply, LegalDeposit, StartedAgain,
       Normal, OpStatus
  <1>4. Whole'
    BY SMTT(60) DEF IInv, TypeOK, Named, OneRefund, Whole, Webhook, Told, Apply,
       ApplyToDeposit, ApplyToPayment, ShouldApply, LegalDeposit, StartedAgain,
       Normal, OpStatus
  <1>5. Causes'
    BY SMTT(60) DEF IInv, TypeOK, Named, OneRefund, Whole, Causes, RefundHasCause,
       Webhook, Told, Apply, ApplyToDeposit, ApplyToPayment, ShouldApply,
       LegalDeposit, StartedAgain, Normal, OpStatus
  <1>6. Heard'
    BY SMTT(60) DEF IInv, TypeOK, Named, OneRefund, Heard, Webhook, Told, Apply,
       ApplyToDeposit, ApplyToPayment, ShouldApply, LegalDeposit, StartedAgain,
       Normal, OpStatus
  <1>7. SaysTruth'
    BY SMTT(60) DEF IInv, TypeOK, Named, Heard, Whole, SaysTruth, Webhook, Told,
       Apply, ApplyToDeposit, ApplyToPayment, ShouldApply, LegalDeposit,
       StartedAgain, Normal, OpStatus
  <1> QED BY <1>1, <1>2, <1>3, <1>4, <1>5, <1>6, <1>7 DEF IInv

LEMMA SweepReadsInv ==
  ASSUME IInv, NEW i \in Ids, SweepReads(i) PROVE IInv'
  <1>1. TypeOK'
    BY DEF IInv, TypeOK, Named, SweepReads
  <1>2. Named'
    BY DEF IInv, TypeOK, Named, SweepReads
  <1>3. OneRefund'
    BY DEF IInv, TypeOK, Named, OneRefund, SweepReads
  <1>4. Whole'
    BY DEF IInv, TypeOK, Named, OneRefund, Whole, SweepReads
  <1>5. Causes'
    BY DEF IInv, TypeOK, Named, OneRefund, Whole, Causes, RefundHasCause, SweepReads
  <1>6. Heard'
    BY DEF IInv, TypeOK, Named, OneRefund, Heard, SweepReads
  <1>7. SaysTruth'
    BY DEF IInv, TypeOK, Named, Heard, Whole, SaysTruth, SweepReads
  <1> QED BY <1>1, <1>2, <1>3, <1>4, <1>5, <1>6, <1>7 DEF IInv

LEMMA SweepAppliesInv ==
  ASSUME IInv, NEW i \in Ids, SweepApplies(i) PROVE IInv'
  <1>1. TypeOK'
    BY SMTT(60) DEF IInv, TypeOK, Named, SweepApplies, Apply, ApplyToDeposit,
       ApplyToPayment, ShouldApply, LegalDeposit, StartedAgain, Normal, OpStatus
  <1>2. Named'
    BY SMTT(60) DEF IInv, TypeOK, Named, SweepApplies, Apply, ApplyToDeposit,
       ApplyToPayment, ShouldApply, LegalDeposit, StartedAgain, Normal, OpStatus
  <1>3. OneRefund'
    BY SMTT(60) DEF IInv, TypeOK, Named, OneRefund, SweepApplies, Apply,
       ApplyToDeposit, ApplyToPayment, ShouldApply, LegalDeposit, StartedAgain,
       Normal, OpStatus
  <1>4. Whole'
    BY SMTT(60) DEF IInv, TypeOK, Named, OneRefund, Whole, SweepApplies, Apply,
       ApplyToDeposit, ApplyToPayment, ShouldApply, LegalDeposit, StartedAgain,
       Normal, OpStatus
  <1>5. Causes'
    BY SMTT(60) DEF IInv, TypeOK, Named, OneRefund, Whole, Causes, RefundHasCause,
       SweepApplies, Apply, ApplyToDeposit, ApplyToPayment, ShouldApply,
       LegalDeposit, StartedAgain, Normal, OpStatus
  <1>6. Heard'
    BY SMTT(60) DEF IInv, TypeOK, Named, OneRefund, Heard, SweepApplies, Apply,
       ApplyToDeposit, ApplyToPayment, ShouldApply, LegalDeposit, StartedAgain,
       Normal, OpStatus
  <1>7. SaysTruth'
    BY SMTT(60) DEF IInv, TypeOK, Named, Heard, Whole, SaysTruth, SweepApplies,
       Apply, ApplyToDeposit, ApplyToPayment, ShouldApply, LegalDeposit,
       StartedAgain, Normal, OpStatus
  <1> QED BY <1>1, <1>2, <1>3, <1>4, <1>5, <1>6, <1>7 DEF IInv

-----------------------------------------------------------------------------
LEMMA Inductive == IInv /\ [Next]_vars => IInv'
  <1> SUFFICES ASSUME IInv, [Next]_vars PROVE IInv'
    OBVIOUS
  <1>1. CASE EndStep
    <2>1. CASE Expire BY <2>1, ExpireInv
    <2>2. ASSUME NEW lost \in Lose, Cancel(lost) \/ PickUp(lost) \/ Validate(lost)
          PROVE IInv'
      <3>1. lost \in BOOLEAN BY IdsAssumption
      <3> QED BY <2>2, <3>1, CancelInv, PickUpInv, ValidateInv
    <2> QED BY <1>1, <2>1, <2>2 DEF EndStep
  <1>2. ASSUME NEW k \in Jobs, JobStep(k) PROVE IInv'
    BY <1>2, PrepareInv, NothingDueInv, CallInv, CallRefusedInv, PersistInv,
       PersistRaisesInv, MarkOperationInv, LookUpInv, ApplyLookUpInv, AttemptFailsInv,
       CrashInv DEF JobStep
  <1>3. ASSUME NEW i \in Ids, GatewayStep(i) PROVE IInv'
    BY <1>3, SettleInv, WebhookInv, SweepReadsInv, SweepAppliesInv DEF GatewayStep
  <1>4. CASE UNCHANGED vars
    BY <1>4 DEF vars, IInv, TypeOK, Named, OneRefund, Whole, Causes, RefundHasCause,
       Heard, SaysTruth
  <1> QED BY <1>1, <1>2, <1>3, <1>4 DEF Next

LEMMA Always == Spec => []IInv
  BY InitInv, Inductive, PTL DEF Spec

\* No crash, lost answer, retry or late webhook makes the gateway hold a
\* second refund of the payment or of the deposit.
THEOREM AlwaysOneRefund == Spec => []OneRefund
  <1>1. IInv => OneRefund BY DEF IInv
  <1> QED BY <1>1, Always, PTL

\* No row and no operation ever claims an outcome the gateway did not report,
\* in whatever order jobs, webhooks and the sweep write.
THEOREM AlwaysTruth == Spec => []SaysTruth
  <1>1. IInv => SaysTruth BY DEF IInv
  <1> QED BY <1>1, Always, PTL

\* Money goes back for a cancellation, a validated report or a pickup only.
THEOREM AlwaysCause == Spec => []RefundHasCause
  <1>1. IInv => RefundHasCause BY DEF IInv, Causes
  <1> QED BY <1>1, Always, PTL

\* Every row, operation and job keeps to the values the handlers know.
THEOREM RefundTypes == Spec => []TypeOK
  <1>1. IInv => TypeOK BY DEF IInv
  <1> QED BY <1>1, Always, PTL

=============================================================================
