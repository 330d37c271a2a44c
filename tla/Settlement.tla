----------------------------- MODULE Settlement -----------------------------
(***************************************************************************)
(* What one provider is owed and is paid.  Every paid reservation leaves a  *)
(* settlement; a refund issued later makes its settlement the source of a   *)
(* liability, an administrator carries the refund forward, and settlements  *)
(* paid after that release the liability again.                             *)
(*                                                                         *)
(* Two administrators pay at the same time: one settlement                  *)
(* (transitionProviderSettlementStatus) or a month (settleMonthly).  A      *)
(* transaction takes its row locks, reads and writes in separate steps; a   *)
(* rollback after the first write is the same as one before it, because     *)
(* nobody reads a locked row.  Entries of what was paid are not kept.       *)
(***************************************************************************)
EXTENDS Integers, FiniteSets, FiniteSetsExt

CONSTANTS
    Dues,        \* settlements of the provider, numbered as they were created
    Amount,      \* provider_settlements.amount
    Payers,      \* transactions of administrators under way
    Refundable,  \* bound: settlements whose payment may be refunded
    MaxCarried   \* bound: what may be carried forward from one settlement

ASSUME DuesAssumption == Dues \subseteq Nat /\ IsFiniteSet(Dues) /\ Refundable \subseteq Dues
ASSUME AmountAssumption == Amount \in [Dues -> Nat \ {0}] /\ MaxCarried \in Nat

VARIABLES
    dueStatus,   \* status
    paid,        \* paid_amount
    carry,       \* manual_carry_forward_amount
    refunded,    \* ledger: refund_issued, and the liability issued with it
    released,    \* ledger: provider_refund_liability_released, by its source
    releaseKeys, \* idempotency keys of those entries: who paid, which source
    carriedEver, \* all that was carried forward so far
    late,        \* carried forward while a payment had its locks already
    payable,     \* there is an active verified account, not being replaced
    txn          \* the transaction of each administrator

dueVars == <<dueStatus, paid, carry, refunded, released, releaseKeys, carriedEver, late>>
settlementVars == <<dueStatus, paid, carry, refunded, released, releaseKeys, carriedEver,
                    late, payable, txn>>

Unclamped(x) == x

\* Math.max(0, x), and as if it were forgotten
Floor(x)    == IF x < 0 THEN 0 ELSE x
Total(f, D) == MapThenSumSet(LAMBDA d : f[d], D)

Idle == [at |-> "idle", locks |-> {}, own |-> {}, clean |-> {}, pays |-> {},
         budget |-> 0, seen |-> [d \in Dues |-> 0]]

SettlementInit ==
    /\ dueStatus = [d \in Dues |-> "pending"]
    /\ paid = [d \in Dues |-> 0] /\ carry = [d \in Dues |-> 0]
    /\ refunded = [d \in Dues |-> 0] /\ released = [d \in Dues |-> 0]
    /\ releaseKeys = {} /\ late = {} /\ carriedEver = [d \in Dues |-> 0]
    /\ payable \in BOOLEAN
    /\ txn = [a \in Payers |-> Idle]

\* FOR UPDATE waits while another transaction holds one of the rows
Free(a, D) == \A b \in Payers \ {a} : txn[b].locks \cap D = {}

Pending == {d \in Dues : dueStatus[d] = "pending"}
Sources == {d \in Dues : carry[d] > 0}
Settled(d) == refunded[d] > 0 /\ released[d] >= refunded[d]

-----------------------------------------------------------------------------
\* A refund succeeds: refund_issued and the provider's liability for it
RefundIssued(d) ==
    /\ d \in Refundable /\ refunded[d] = 0
    /\ refunded' = [refunded EXCEPT ![d] = Amount[d]]
    /\ UNCHANGED <<dueStatus, paid, carry, released, releaseKeys, carriedEver, late, payable, txn>>

\* applyManualRefundCarryForward: what is not carried at the moment, even if
\* it was released before
CarryForward(d) ==
    LET rest == refunded[d] - carry[d] IN
    /\ Free("nobody", {d})
    /\ rest > 0 /\ carriedEver[d] + rest =< MaxCarried
    /\ carry' = [carry EXCEPT ![d] = @ + rest]
    /\ carriedEver' = [carriedEver EXCEPT ![d] = @ + rest]
    /\ late' = IF \A a \in Payers : txn[a].at \in {"idle", "payOwn", "monthOwn"} THEN late
               ELSE late \cup {d}
    /\ UNCHANGED <<dueStatus, paid, refunded, released, releaseKeys, payable, txn>>

\* A settlement whose carry-forward covers it ends up paid all the same
MarkFailed(d) ==
    /\ Free("nobody", {d})
    /\ dueStatus[d] # "paid"
    /\ dueStatus' = [dueStatus EXCEPT ![d] =
                        IF paid[d] + carry[d] >= Amount[d] THEN "paid" ELSE "failed"]
    /\ UNCHANGED <<paid, carry, refunded, released, releaseKeys, carriedEver, late, payable, txn>>

\* The provider replaces the account, an administrator verifies or rejects it
AccountChanges ==
    /\ payable' = ~payable
    /\ UNCHANGED <<dueVars, txn>>

-----------------------------------------------------------------------------
(* One settlement is marked paid. *)

PayLock(a, d) ==
    /\ txn[a].at = "idle" /\ Free(a, {d})
    /\ refunded[d] = 0   \* not the source of a liability
    /\ txn' = [txn EXCEPT ![a] = [Idle EXCEPT !.at = "payOwn", !.own = {d}, !.locks = {d}]]
    /\ UNCHANGED <<dueVars, payable>>

NoSources == {}  \* as if there were no FOR UPDATE

\* persistProjectedRefundRecovery projects nothing, but locks every source
LockedSources == Sources

PaySources(a) ==
    /\ txn[a].at = "payOwn" /\ Free(a, LockedSources)
    /\ txn' = [txn EXCEPT ![a].at = "paySources", ![a].locks = @ \cup LockedSources]
    /\ UNCHANGED <<dueVars, payable>>

PayWrite(a) ==
    \E d \in txn[a].own :
      LET rest == Floor(Amount[d] - paid[d] - carry[d]) IN
      /\ txn[a].at = "paySources" /\ payable
      /\ \E asked \in 1..rest \cup {rest} :
           paid' = [paid EXCEPT ![d] = Min({Amount[d], @ + asked})]
      /\ dueStatus' = [dueStatus EXCEPT ![d] = "paid"]
      /\ carry' = [carry EXCEPT ![d] = @ - Min({@, Floor(Amount[d] - paid[d])})]
      /\ txn' = [txn EXCEPT ![a].at = "written", ![a].pays = {d}, ![a].budget = rest]
      /\ UNCHANGED <<refunded, released, releaseKeys, carriedEver, late, payable>>

-----------------------------------------------------------------------------
(* A month is settled. *)

MonthRowsUnlocked(a) == TRUE  \* as if there were no FOR UPDATE

\* The month's pending rows, without those whose refund is fully released;
\* refuses while a refund waits to be carried forward
MonthRows(a) == Free(a, Pending)

MonthLock(a) ==
    LET own == {d \in Pending : ~Settled(d)} IN
    /\ txn[a].at = "idle" /\ MonthRows(a) /\ own # {}
    /\ \A d \in own : refunded[d] =< carry[d] + released[d]
    /\ txn' = [txn EXCEPT ![a] =
                  [Idle EXCEPT !.at = "monthOwn", !.own = own, !.locks = Pending,
                               !.clean = {d \in own : refunded[d] = 0}]]
    /\ UNCHANGED <<dueVars, payable>>

MonthSources(a) ==
    LET from == {d \in Sources : refunded[d] > 0}
        sum  == Total(Amount, txn[a].own)
        net  == sum - Total(carry, from \cup txn[a].own)
        open == [d \in Dues |-> IF d \in txn[a].clean
                                THEN Floor(Amount[d] - paid[d] - carry[d]) ELSE 0] IN
    /\ txn[a].at = "monthOwn" /\ Free(a, from)
    /\ net > 0 /\ payable
    /\ txn' = [txn EXCEPT ![a].at = "monthSources", ![a].locks = @ \cup from,
                          ![a].budget = sum,
                          ![a].seen = [d \in Dues |-> \* oldest first, until net is spent
                            Min({open[d], Floor(net - Total(open, {e \in Dues : e < d}))})]]
    /\ UNCHANGED <<dueVars, payable>>

MonthWrite(a) ==
    LET pays == {d \in Dues : txn[a].seen[d] > 0} IN
    /\ txn[a].at = "monthSources" /\ pays # {}
    /\ paid' = [d \in Dues |-> paid[d] + txn[a].seen[d]]
    /\ dueStatus' = [d \in Dues |-> IF d \in pays THEN "paid" ELSE dueStatus[d]]
    /\ carry' = [d \in Dues |-> IF d \in pays THEN 0 ELSE carry[d]]
    /\ txn' = [txn EXCEPT ![a].at = "written", ![a].pays = pays]
    /\ UNCHANGED <<refunded, released, releaseKeys, carriedEver, late, payable>>

-----------------------------------------------------------------------------
(* recordSettlementRefundLiabilityReleases, for each settlement paid. *)

ReleaseRead(a) ==
    /\ txn[a].at = "written"
    /\ txn' = [txn EXCEPT ![a].at = "releasing", ![a].seen = carry]
    /\ UNCHANGED <<dueVars, payable>>

\* Sources are taken in any order, each as far as the budget goes
Greedy(cap, budget) ==
    {give \in [Dues -> 0..budget] :
        /\ \A d \in Dues : give[d] =< cap[d]
        /\ Total(give, Dues) = Min({budget, Total(cap, Dues)})
        /\ Cardinality({d \in Dues : 0 < give[d] /\ give[d] < cap[d]}) =< 1}

\* A release whose key exists writes no entry, but reduces the carry-forward
Release(a, p) ==
    \E give \in Greedy([d \in Dues |-> Min({txn[a].seen[d], refunded[d]})], txn[a].budget) :
      LET from == {d \in Dues : give[d] > 0} IN
      /\ txn[a].at = "releasing" /\ p \in txn[a].pays /\ Free(a, from)
      /\ released' = [d \in Dues |-> IF <<p, d>> \in releaseKeys THEN released[d]
                                     ELSE released[d] + give[d]]
      /\ releaseKeys' = releaseKeys \cup ({p} \X from)
      /\ carry' = [d \in Dues |-> Floor(carry[d] - give[d])]
      /\ txn' = [txn EXCEPT ![a] =
                    IF txn[a].pays = {p} THEN Idle
                    ELSE [txn[a] EXCEPT !.at = "written", !.pays = txn[a].pays \ {p},
                                        !.locks = txn[a].locks \cup from]]
      /\ UNCHANGED <<dueStatus, paid, refunded, carriedEver, late, payable>>

\* Deadlock victims, lock timeouts, refusals: rolled back
GiveUp(a) ==
    /\ txn[a].at \in {"payOwn", "paySources", "monthOwn", "monthSources"}
    /\ txn' = [txn EXCEPT ![a] = Idle]
    /\ UNCHANGED <<dueVars, payable>>

SettlementNext ==
    \/ \E d \in Dues : RefundIssued(d) \/ CarryForward(d) \/ MarkFailed(d)
    \/ AccountChanges
    \/ \E a \in Payers :
        \/ \E d \in Dues : PayLock(a, d) \/ Release(a, d)
        \/ PaySources(a) \/ PayWrite(a)
        \/ MonthLock(a) \/ MonthSources(a) \/ MonthWrite(a)
        \/ ReleaseRead(a) \/ GiveUp(a)

SettlementSpec == SettlementInit /\ [][SettlementNext]_settlementVars

-----------------------------------------------------------------------------
SettlementTypeOK ==
    /\ dueStatus \in [Dues -> {"pending", "paid", "failed"}]
    /\ paid \in [Dues -> Nat] /\ carry \in [Dues -> Nat]
    /\ refunded \in [Dues -> Nat] /\ released \in [Dues -> Nat]
    /\ releaseKeys \subseteq Dues \X Dues /\ late \subseteq Dues /\ carriedEver \in [Dues -> Nat]
    /\ payable \in BOOLEAN
    /\ \A a \in Payers : txn[a].locks \subseteq Dues /\ txn[a].pays \subseteq Dues

\* Two runs for the same settlements, single or monthly, never pay one of
\* them more than it amounts to.
NeverOverpaid == \A d \in Dues : paid[d] =< Amount[d]

\* Settlements paid at the same time do not recover one refund twice: what was
\* released and what is still carried never exceed what administrators carried
\* forward.  (A refund carried forward in the middle of a payment is locked by
\* nobody, and may be recovered twice.)
ReleasedAsCarried == \A d \in Dues \ late : released[d] + carry[d] =< carriedEver[d]

=============================================================================
