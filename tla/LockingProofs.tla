---------------------------- MODULE LockingProofs ----------------------------
(***************************************************************************)
(* Proofs about the services whose transactions lock several rows one after *)
(* another: Settlement, Membership, Capacity and Incidents, for any number  *)
(* of settlements, administrators, NGOs, joins, accounts, limits, incidents *)
(* and requests.                                                            *)
(***************************************************************************)
EXTENDS Settlement, Membership, Capacity, Incidents, FoldLemmas

-----------------------------------------------------------------------------
(* Settlement: arithmetic, and the sums of a month.                         *)

LEMMA FloorNat == \A x \in Int : Floor(x) \in Nat /\ Floor(x) >= x /\ (Floor(x) > 0 => Floor(x) = x)
  BY DEF Floor

LEMMA TotalInt == \A D \in SUBSET Dues : \A f : (\A d \in D : f[d] \in Int) => Total(f, D) \in Int
  <1> SUFFICES ASSUME NEW D \in SUBSET Dues, NEW f, \A d \in D : f[d] \in Int PROVE Total(f, D) \in Int
    OBVIOUS
  <1>1. IsFiniteSet(D)
    BY DuesAssumption, FS_Subset DEF DuesAssumption
  <1>2. \A v, w \in Int : v + w \in Int
    OBVIOUS
  <1>3. SumOf(f, D) \in Int
    BY <1>1, <1>2, SumIn
  <1> QED
    BY <1>3 DEF SumOf, Total

LEMMA TotalNat == \A D \in SUBSET Dues : \A f : (\A d \in D : f[d] \in Nat) => Total(f, D) \in Nat
  <1> SUFFICES ASSUME NEW D \in SUBSET Dues, NEW f, \A d \in D : f[d] \in Nat PROVE Total(f, D) \in Nat
    OBVIOUS
  <1>1. IsFiniteSet(D)
    BY DuesAssumption, FS_Subset DEF DuesAssumption
  <1>2. \A v, w \in Nat : v + w \in Nat
    OBVIOUS
  <1>3. SumOf(f, D) \in Nat
    BY <1>1, <1>2, SumIn
  <1> QED
    BY <1>3 DEF SumOf, Total

-----------------------------------------------------------------------------
(* Settlement: what holds between any two steps.                            *)

TxnSteps == {"idle", "payOwn", "paySources", "monthOwn", "monthSources", "written", "releasing"}

Transactions == [at : TxnSteps, locks : SUBSET Dues, own : SUBSET Dues, clean : SUBSET Dues,
                 pays : SUBSET Dues, budget : Nat, seen : [Dues -> Nat]]

SettlementTypes ==
  /\ dueStatus \in [Dues -> {"pending", "paid", "failed"}]
  /\ paid \in [Dues -> Nat] /\ carry \in [Dues -> Nat]
  /\ refunded \in [Dues -> Nat] /\ released \in [Dues -> Nat]
  /\ releaseKeys \subseteq Dues \X Dues /\ late \subseteq Dues /\ carriedEver \in [Dues -> Nat]
  /\ payable \in BOOLEAN
  /\ txn \in [Payers -> Transactions]

\* A row is locked by one transaction at most.
LocksExclude == \A a, b \in Payers : a # b => txn[a].locks \cap txn[b].locks = {}

\* Until it has written, a transaction holds the settlements it pays.
HoldsOwn ==
  \A a \in Payers : txn[a].at \in {"payOwn", "paySources", "monthOwn", "monthSources"} =>
     txn[a].own \subseteq txn[a].locks /\ txn[a].clean \subseteq txn[a].own

\* What a month is about to pay still fits: nobody pays its settlements meanwhile.
MonthFits ==
  \A a \in Payers : txn[a].at = "monthSources" =>
     \A d \in Dues : txn[a].seen[d] > 0 =>
        d \in txn[a].own /\ paid[d] + txn[a].seen[d] =< Amount[d]

\* From its own lock on the sources until it ends, a transaction holds every one,
\* but those carried forward since.
HoldsSources ==
  \A a \in Payers : txn[a].at \in {"paySources", "monthSources", "written", "releasing"} =>
     Sources \ late \subseteq txn[a].locks

\* What it read of them stands.
SeenStands ==
  \A a \in Payers : txn[a].at = "releasing" =>
     \A d \in Dues \ late : txn[a].seen[d] =< carry[d]

CarriedAreRefunds == \A d \in Dues : carry[d] > 0 => refunded[d] > 0

SettlementInv ==
  /\ SettlementTypes /\ LocksExclude /\ HoldsOwn /\ MonthFits /\ HoldsSources /\ SeenStands
  /\ CarriedAreRefunds /\ NeverOverpaid /\ ReleasedAsCarried

LEMMA DuesNat == /\ \A d \in Dues : Amount[d] \in Nat /\ Amount[d] > 0 /\ d \in Nat
                 /\ MaxCarried \in Nat
  BY DuesAssumption, AmountAssumption DEF DuesAssumption, AmountAssumption

LEMMA IdleTyped == Idle \in Transactions /\ Idle.at = "idle" /\ Idle.locks = {}
  BY DEF Idle, Transactions, TxnSteps

LEMMA SettlementInitInv == SettlementInit => SettlementInv
  <1> SUFFICES ASSUME SettlementInit PROVE SettlementInv
    OBVIOUS
  <1>1. SettlementTypes
    BY IdleTyped DEF SettlementInit, SettlementTypes
  <1>2. \A a \in Payers : txn[a].at = "idle" /\ txn[a].locks = {}
    BY IdleTyped DEF SettlementInit
  <1>3. LocksExclude /\ HoldsOwn /\ MonthFits /\ HoldsSources /\ SeenStands
    BY <1>2 DEF LocksExclude, HoldsOwn, MonthFits, HoldsSources, SeenStands
  <1>4. CarriedAreRefunds /\ NeverOverpaid /\ ReleasedAsCarried
    BY DuesNat DEF SettlementInit, CarriedAreRefunds, NeverOverpaid, ReleasedAsCarried
  <1> QED
    BY <1>1, <1>3, <1>4 DEF SettlementInv

-----------------------------------------------------------------------------
\* The transaction of a goes on, and nothing is written.
LEMMA Onwards ==
  ASSUME SettlementInv, NEW a \in Payers, UNCHANGED <<dueVars, payable>>,
         txn' = [txn EXCEPT ![a] = txn'[a]], txn'[a] \in Transactions,
         \A b \in Payers \ {a} : txn'[a].locks \cap txn[b].locks = {},
         txn'[a].at \in {"payOwn", "paySources", "monthOwn", "monthSources"} =>
            txn'[a].own \subseteq txn'[a].locks /\ txn'[a].clean \subseteq txn'[a].own,
         txn'[a].at = "monthSources" =>
            \A d \in Dues : txn'[a].seen[d] > 0 =>
               d \in txn'[a].own /\ paid[d] + txn'[a].seen[d] =< Amount[d],
         txn'[a].at \in {"paySources", "monthSources", "written", "releasing"} =>
            Sources \ late \subseteq txn'[a].locks,
         txn'[a].at = "releasing" => txn'[a].seen = carry
  PROVE  SettlementInv'
  <1>1. \A b \in Payers \ {a} : txn'[b] = txn[b]
    BY DEF SettlementInv, SettlementTypes
  <1>2. /\ dueStatus' = dueStatus /\ paid' = paid /\ carry' = carry /\ refunded' = refunded
        /\ released' = released /\ releaseKeys' = releaseKeys /\ carriedEver' = carriedEver
        /\ late' = late /\ payable' = payable
    BY DEF dueVars
  <1>3. SettlementTypes'
    BY <1>2 DEF SettlementInv, SettlementTypes
  <1>4. LocksExclude'
    BY <1>1 DEF SettlementInv, LocksExclude
  <1>5. HoldsOwn'
    BY <1>1 DEF SettlementInv, HoldsOwn
  <1>6. MonthFits'
    BY <1>1, <1>2 DEF SettlementInv, MonthFits
  <1>7. HoldsSources'
    BY <1>1, <1>2 DEF SettlementInv, HoldsSources, Sources
  <1>8. SeenStands'
    BY <1>1, <1>2 DEF SettlementInv, SettlementTypes, SeenStands
  <1>9. (CarriedAreRefunds /\ NeverOverpaid /\ ReleasedAsCarried)'
    BY <1>2 DEF SettlementInv, CarriedAreRefunds, NeverOverpaid, ReleasedAsCarried
  <1> QED
    BY <1>3, <1>4, <1>5, <1>6, <1>7, <1>8, <1>9 DEF SettlementInv

LEMMA PayLockInv ==
  ASSUME SettlementInv, NEW a \in Payers, NEW d \in Dues, PayLock(a, d)
  PROVE  SettlementInv'
  <1> DEFINE t == [Idle EXCEPT !.at = "payOwn", !.own = {d}, !.locks = {d}]
  <1>1. txn' = [txn EXCEPT ![a] = t] /\ UNCHANGED <<dueVars, payable>>
    BY DEF PayLock
  <1>2. t \in Transactions /\ t.at = "payOwn" /\ t.own = {d} /\ t.locks = {d} /\ t.clean = {}
    BY DEF Idle, Transactions, TxnSteps
  <1>3. txn'[a] = t
    BY <1>1 DEF SettlementInv, SettlementTypes
  <1>4. \A b \in Payers \ {a} : t.locks \cap txn[b].locks = {}
    BY <1>2 DEF PayLock, Free
  <1> HIDE DEF t
  <1> QED
    BY <1>1, <1>2, <1>3, <1>4, Onwards

LEMMA PaySourcesInv ==
  ASSUME SettlementInv, NEW a \in Payers, PaySources(a)
  PROVE  SettlementInv'
  <1>1. /\ txn[a].at = "payOwn" /\ UNCHANGED <<dueVars, payable>>
        /\ txn' = [txn EXCEPT ![a].at = "paySources", ![a].locks = @ \cup Sources]
    BY DEF PaySources, LockedSources
  <1>2. /\ txn'[a] = [txn[a] EXCEPT !.at = "paySources", !.locks = @ \cup Sources]
        /\ txn[a] \in Transactions /\ Sources \subseteq Dues
    BY <1>1 DEF SettlementInv, SettlementTypes, Sources
  <1>3. /\ txn'[a].at = "paySources" /\ txn'[a].locks = txn[a].locks \cup Sources
        /\ txn'[a].own = txn[a].own /\ txn'[a].clean = txn[a].clean /\ txn'[a] \in Transactions
    BY <1>2 DEF Transactions, TxnSteps
  <1>4. \A b \in Payers \ {a} : txn'[a].locks \cap txn[b].locks = {}
    BY <1>3 DEF PaySources, LockedSources, Free, SettlementInv, LocksExclude
  <1>5. txn' = [txn EXCEPT ![a] = txn'[a]]
    BY <1>1 DEF SettlementInv, SettlementTypes
  <1>6. txn[a].own \subseteq txn[a].locks /\ txn[a].clean \subseteq txn[a].own
    BY <1>1 DEF SettlementInv, HoldsOwn
  <1> QED
    BY <1>1, <1>3, <1>4, <1>5, <1>6, Onwards

LEMMA MonthLockInv ==
  ASSUME SettlementInv, NEW a \in Payers, MonthLock(a)
  PROVE  SettlementInv'
  <1> DEFINE own == {d \in Pending : ~Settled(d)}
             t == [Idle EXCEPT !.at = "monthOwn", !.own = own, !.locks = Pending,
                               !.clean = {d \in own : refunded[d] = 0}]
  <1>1. txn' = [txn EXCEPT ![a] = t] /\ UNCHANGED <<dueVars, payable>>
    BY DEF MonthLock
  <1>2. /\ t \in Transactions /\ t.at = "monthOwn" /\ t.own = own /\ t.locks = Pending
        /\ t.clean \subseteq own /\ own \subseteq Pending
    BY DEF Idle, Transactions, TxnSteps, Pending
  <1>3. txn'[a] = t
    BY <1>1 DEF SettlementInv, SettlementTypes
  <1>4. \A b \in Payers \ {a} : t.locks \cap txn[b].locks = {}
    BY <1>2 DEF MonthLock, MonthRows, Free
  <1> HIDE DEF t, own
  <1> QED
    BY <1>1, <1>2, <1>3, <1>4, Onwards

LEMMA ReleaseReadInv ==
  ASSUME SettlementInv, NEW a \in Payers, ReleaseRead(a)
  PROVE  SettlementInv'
  <1>1. /\ txn[a].at = "written" /\ UNCHANGED <<dueVars, payable>>
        /\ txn' = [txn EXCEPT ![a].at = "releasing", ![a].seen = carry]
    BY DEF ReleaseRead
  <1>2. /\ txn'[a] = [txn[a] EXCEPT !.at = "releasing", !.seen = carry]
        /\ txn[a] \in Transactions /\ carry \in [Dues -> Nat]
    BY <1>1 DEF SettlementInv, SettlementTypes
  <1>3. /\ txn'[a].at = "releasing" /\ txn'[a].locks = txn[a].locks /\ txn'[a].seen = carry
        /\ txn'[a] \in Transactions
    BY <1>2 DEF Transactions, TxnSteps
  <1>4. \A b \in Payers \ {a} : txn'[a].locks \cap txn[b].locks = {}
    BY <1>3 DEF SettlementInv, LocksExclude
  <1>5. txn' = [txn EXCEPT ![a] = txn'[a]]
    BY <1>1 DEF SettlementInv, SettlementTypes
  <1>6. Sources \ late \subseteq txn[a].locks
    BY <1>1 DEF SettlementInv, HoldsSources
  <1> QED
    BY <1>1, <1>3, <1>4, <1>5, <1>6, Onwards

LEMMA GiveUpInv ==
  ASSUME SettlementInv, NEW a \in Payers, GiveUp(a)
  PROVE  SettlementInv'
  <1>1. txn' = [txn EXCEPT ![a] = Idle] /\ UNCHANGED <<dueVars, payable>>
    BY DEF GiveUp
  <1>2. txn'[a] = Idle
    BY <1>1 DEF SettlementInv, SettlementTypes
  <1> QED
    BY <1>1, <1>2, IdleTyped, Onwards

LEMMA MonthSourcesInv ==
  ASSUME SettlementInv, NEW a \in Payers, MonthSources(a)
  PROVE  SettlementInv'
  <1> DEFINE from == {d \in Sources : refunded[d] > 0}
             sum  == Total(Amount, txn[a].own)
             net  == sum - Total(carry, from \cup txn[a].own)
             open == [d \in Dues |-> IF d \in txn[a].clean
                                     THEN Floor(Amount[d] - paid[d] - carry[d]) ELSE 0]
             sees == [d \in Dues |-> Min({open[d], Floor(net - Total(open, {e \in Dues : e < d}))})]
  <1>1. /\ txn[a].at = "monthOwn" /\ UNCHANGED <<dueVars, payable>> /\ Free(a, from)
        /\ txn' = [txn EXCEPT ![a].at = "monthSources", ![a].locks = @ \cup from,
                              ![a].budget = sum, ![a].seen = sees]
    BY DEF MonthSources
  <1>2. /\ txn[a] \in Transactions /\ from \subseteq Dues /\ txn[a].own \subseteq Dues
        /\ paid \in [Dues -> Nat] /\ carry \in [Dues -> Nat]
    BY DEF SettlementInv, SettlementTypes, Transactions, Sources
  <1>3. sum \in Nat /\ net \in Int
    <2>1. Total(carry, from \cup txn[a].own) \in Nat
      BY <1>2, TotalNat
    <2>2. Total(Amount, txn[a].own) \in Nat
      BY <1>2, TotalNat, DuesNat
    <2> QED
      BY <2>1, <2>2
  <1>4. ASSUME NEW d \in Dues
        PROVE  /\ open[d] \in Nat
               /\ open[d] > 0 => d \in txn[a].clean /\ paid[d] + open[d] =< Amount[d]
    <2>1. Amount[d] - paid[d] - carry[d] \in Int /\ carry[d] >= 0
      BY <1>2, DuesNat
    <2>2. open[d] = IF d \in txn[a].clean THEN Floor(Amount[d] - paid[d] - carry[d]) ELSE 0
      OBVIOUS
    <2> HIDE DEF open
    <2> QED
      BY <1>2, <2>1, <2>2, FloorNat, DuesNat
  <1>5. ASSUME NEW d \in Dues
        PROVE  sees[d] \in Nat /\ sees[d] =< open[d]
    <2>1. Total(open, {e \in Dues : e < d}) \in Int
      <3>1. {e \in Dues : e < d} \in SUBSET Dues
        OBVIOUS
      <3> HIDE DEF open
      <3> QED
        BY <1>4, <3>1, TotalInt
    <2>2. Floor(net - Total(open, {e \in Dues : e < d})) \in Nat
      <3> HIDE DEF net, open
      <3> QED
        BY <1>3, <2>1, FloorNat
    <2>3. sees[d] = Min({open[d], Floor(net - Total(open, {e \in Dues : e < d}))})
      OBVIOUS
    <2> HIDE DEF net, open, sees
    <2> QED
      BY <1>4, <2>2, <2>3, MinOf
  <1>6. sees \in [Dues -> Nat]
    <2>1. sees = [d \in Dues |-> sees[d]]
      OBVIOUS
    <2> HIDE DEF sees
    <2> QED
      BY <1>5, <2>1
  <1> HIDE DEF from, sum, net, open, sees
  <1>7. txn'[a] = [txn[a] EXCEPT !.at = "monthSources", !.locks = @ \cup from,
                                 !.budget = sum, !.seen = sees]
    BY <1>1 DEF SettlementInv, SettlementTypes
  <1>8. /\ txn'[a].at = "monthSources" /\ txn'[a].locks = txn[a].locks \cup from
        /\ txn'[a].own = txn[a].own /\ txn'[a].clean = txn[a].clean /\ txn'[a].seen = sees
        /\ txn'[a] \in Transactions
    BY <1>2, <1>3, <1>6, <1>7 DEF Transactions, TxnSteps
  <1>9. \A b \in Payers \ {a} : txn'[a].locks \cap txn[b].locks = {}
    BY <1>1, <1>8 DEF Free, SettlementInv, LocksExclude
  <1>10. txn' = [txn EXCEPT ![a] = txn'[a]]
    BY <1>1 DEF SettlementInv, SettlementTypes
  <1>11. txn[a].own \subseteq txn[a].locks /\ txn[a].clean \subseteq txn[a].own
    BY <1>1 DEF SettlementInv, HoldsOwn
  <1>12. \A d \in Dues : sees[d] > 0 => d \in txn[a].own /\ paid[d] + sees[d] =< Amount[d]
    BY <1>2, <1>4, <1>5, <1>11, DuesNat
  <1>13. Sources \subseteq from
    BY DEF from, Sources, SettlementInv, CarriedAreRefunds
  <1> QED
    BY <1>1, <1>8, <1>9, <1>10, <1>11, <1>12, <1>13, Onwards

-----------------------------------------------------------------------------
\* Nothing of the transactions changes.
LEMMA EnvironmentInv ==
  ASSUME SettlementInv,
         AccountChanges \/ \E d \in Dues : RefundIssued(d) \/ CarryForward(d) \/ MarkFailed(d)
  PROVE  SettlementInv'
  <1> USE DuesNat DEF SettlementInv, SettlementTypes, LocksExclude, HoldsOwn, MonthFits, HoldsSources,
          SeenStands, CarriedAreRefunds, NeverOverpaid, ReleasedAsCarried, Sources
  <1>1. CASE AccountChanges
    BY <1>1 DEF AccountChanges, dueVars
  <1>2. ASSUME NEW d \in Dues, RefundIssued(d) PROVE SettlementInv'
    BY <1>2 DEF RefundIssued
  <1>3. ASSUME NEW d \in Dues, MarkFailed(d) PROVE SettlementInv'
    BY <1>3 DEF MarkFailed
  <1>4. ASSUME NEW d \in Dues, CarryForward(d) PROVE SettlementInv'
    <2> DEFINE rest == refunded[d] - carry[d]
    <2>1. /\ rest > 0 /\ rest \in Nat
          /\ carry' = [carry EXCEPT ![d] = @ + rest]
          /\ carriedEver' = [carriedEver EXCEPT ![d] = @ + rest]
          /\ late' \subseteq late \cup {d} /\ late \subseteq late'
          /\ UNCHANGED <<dueStatus, paid, refunded, released, releaseKeys, payable, txn>>
      BY <1>4 DEF CarryForward
    <2>2. \/ d \in late'
          \/ \A a \in Payers : txn[a].at \in {"idle", "payOwn", "monthOwn"}
      BY <1>4 DEF CarryForward
    <2>3. refunded[d] > 0
      BY <2>1
    <2>4. SettlementTypes' /\ LocksExclude' /\ HoldsOwn' /\ MonthFits'
      BY <2>1
    <2>5. \A e \in Dues : e # d => carry'[e] = carry[e] /\ carriedEver'[e] = carriedEver[e]
      BY <2>1
    <2>6. HoldsSources'
      BY <2>1, <2>2, <2>5
    <2>7. SeenStands'
      BY <2>1, <2>2, <2>5
    <2>8. CarriedAreRefunds' /\ NeverOverpaid'
      BY <2>1, <2>3, <2>5
    <2>9. ReleasedAsCarried'
      <3>1. carry'[d] = carry[d] + rest /\ carriedEver'[d] = carriedEver[d] + rest
        BY <2>1
      <3> HIDE DEF rest
      <3> QED
        BY <2>1, <2>5, <3>1
    <2> QED
      BY <2>4, <2>6, <2>7, <2>8, <2>9
  <1> QED
    BY <1>1, <1>2, <1>3, <1>4

-----------------------------------------------------------------------------
\* The transaction of a pays: settlements of its own are paid no more than they
\* amount to, and carry less; the rest stays.
LEMMA Payment ==
  ASSUME SettlementInv, NEW a \in Payers,
         txn[a].at \in {"paySources", "monthSources"},
         UNCHANGED <<refunded, released, releaseKeys, carriedEver, late, payable>>,
         txn' = [txn EXCEPT ![a] = txn'[a]], txn'[a] \in Transactions,
         txn'[a].at = "written", txn'[a].locks = txn[a].locks,
         dueStatus' \in [Dues -> {"pending", "paid", "failed"}],
         paid' \in [Dues -> Nat], carry' \in [Dues -> Nat],
         \A d \in Dues : paid'[d] =< Amount[d],
         \A d \in Dues : carry'[d] =< carry[d],
         \A d \in Dues \ txn[a].own : paid'[d] = paid[d] /\ carry'[d] = carry[d]
  PROVE  SettlementInv'
  <1>1. \A b \in Payers \ {a} : txn'[b] = txn[b]
    BY DEF SettlementInv, SettlementTypes
  <1>2. txn[a].own \subseteq txn[a].locks
    BY DEF SettlementInv, HoldsOwn
  <1>3. SettlementTypes'
    BY DEF SettlementInv, SettlementTypes
  <1>4. LocksExclude'
    BY <1>1 DEF SettlementInv, LocksExclude
  <1>5. HoldsOwn'
    BY <1>1 DEF SettlementInv, HoldsOwn
  <1>6. MonthFits'
    <2> SUFFICES ASSUME NEW b \in Payers, txn'[b].at = "monthSources", NEW d \in Dues, txn'[b].seen[d] > 0
                 PROVE  d \in txn'[b].own /\ paid'[d] + txn'[b].seen[d] =< Amount[d]
      BY DEF MonthFits
    <2>1. b # a /\ txn'[b] = txn[b]
      BY <1>1
    <2>2. d \in txn[b].own /\ paid[d] + txn[b].seen[d] =< Amount[d] /\ d \in txn[b].locks
      BY <2>1 DEF SettlementInv, MonthFits, HoldsOwn
    <2>3. d \notin txn[a].own
      BY <1>2, <2>1, <2>2 DEF SettlementInv, LocksExclude
    <2> QED
      BY <2>1, <2>2, <2>3
  <1>7. Sources' \subseteq Sources
    BY DEF Sources, SettlementInv, SettlementTypes
  <1>8. HoldsSources'
    BY <1>1, <1>7 DEF SettlementInv, HoldsSources
  <1>9. SeenStands'
    <2> SUFFICES ASSUME NEW b \in Payers, txn'[b].at = "releasing", NEW d \in Dues \ late
                 PROVE  txn'[b].seen[d] =< carry'[d]
      BY DEF SeenStands
    <2>1. b # a /\ txn'[b] = txn[b] /\ txn[b].seen[d] =< carry[d]
      BY <1>1 DEF SettlementInv, SeenStands
    <2>2. CASE d \notin txn[a].own
      BY <2>1, <2>2
    <2>3. CASE d \in txn[a].own
      <3>1. d \notin txn[b].locks
        BY <1>2, <2>1, <2>3 DEF SettlementInv, LocksExclude
      <3>2. d \notin Sources
        BY <2>1, <3>1 DEF SettlementInv, HoldsSources
      <3> QED
        BY <2>1, <3>2 DEF Sources, SettlementInv, SettlementTypes
    <2> QED
      BY <2>2, <2>3
  <1>10. CarriedAreRefunds'
    BY DEF SettlementInv, SettlementTypes, CarriedAreRefunds
  <1>11. NeverOverpaid'
    BY DEF NeverOverpaid
  <1>12. ReleasedAsCarried'
    BY DEF SettlementInv, SettlementTypes, ReleasedAsCarried
  <1> QED
    BY <1>3, <1>4, <1>5, <1>6, <1>8, <1>9, <1>10, <1>11, <1>12 DEF SettlementInv

LEMMA PayWriteInv ==
  ASSUME SettlementInv, NEW a \in Payers, PayWrite(a)
  PROVE  SettlementInv'
  <1>1. PICK d \in txn[a].own :
          /\ txn[a].at = "paySources"
          /\ \E more \in 1..Floor(Amount[d] - paid[d] - carry[d]) \cup {Floor(Amount[d] - paid[d] - carry[d])} :
               paid' = [paid EXCEPT ![d] = Min({Amount[d], @ + more})]
          /\ dueStatus' = [dueStatus EXCEPT ![d] = "paid"]
          /\ carry' = [carry EXCEPT ![d] = @ - Min({@, Floor(Amount[d] - paid[d])})]
          /\ txn' = [txn EXCEPT ![a].at = "written", ![a].pays = {d},
                                ![a].budget = Floor(Amount[d] - paid[d] - carry[d])]
          /\ UNCHANGED <<refunded, released, releaseKeys, carriedEver, late, payable>>
    BY DEF PayWrite
  <1>2. /\ txn[a] \in Transactions /\ d \in Dues /\ paid \in [Dues -> Nat] /\ carry \in [Dues -> Nat]
        /\ dueStatus \in [Dues -> {"pending", "paid", "failed"}]
    BY DEF SettlementInv, SettlementTypes, Transactions
  <1>3. Amount[d] \in Nat /\ paid[d] \in Nat /\ carry[d] \in Nat
    BY <1>2, DuesNat
  <1>4. Floor(Amount[d] - paid[d] - carry[d]) \in Nat /\ Floor(Amount[d] - paid[d]) \in Nat
    BY <1>3, FloorNat
  <1> DEFINE rest == Floor(Amount[d] - paid[d] - carry[d])
             less == carry[d] - Min({carry[d], Floor(Amount[d] - paid[d])})
  <1>5. PICK more \in 1..rest \cup {rest} : paid' = [paid EXCEPT ![d] = Min({Amount[d], @ + more})]
    BY <1>1
  <1>6. rest \in Nat
    BY <1>4
  <1>7. carry' = [carry EXCEPT ![d] = less]
    BY <1>1
  <1>8. txn' = [txn EXCEPT ![a].at = "written", ![a].pays = {d}, ![a].budget = rest]
    BY <1>1
  <1>9. more \in Nat
    <2> HIDE DEF rest
    <2> QED
      BY <1>5, <1>6
  <1>10. Min({Amount[d], paid[d] + more}) \in Nat /\ Min({Amount[d], paid[d] + more}) =< Amount[d]
    BY <1>3, <1>9, MinOf
  <1>11. less \in Nat /\ less =< carry[d]
    BY <1>3, <1>4, MinOf
  <1> HIDE DEF rest, less
  <1>12. paid' \in [Dues -> Nat] /\ \A e \in Dues : paid'[e] =< Amount[e] /\ (e # d => paid'[e] = paid[e])
    BY <1>2, <1>10, <1>5 DEF SettlementInv, NeverOverpaid
  <1>13. carry' \in [Dues -> Nat] /\ \A e \in Dues : carry'[e] =< carry[e] /\ (e # d => carry'[e] = carry[e])
    BY <1>2, <1>11, <1>7
  <1>14. dueStatus' \in [Dues -> {"pending", "paid", "failed"}]
    BY <1>1, <1>2
  <1>15. txn'[a] = [txn[a] EXCEPT !.at = "written", !.pays = {d},
                                  !.budget = rest]
    BY <1>8 DEF SettlementInv, SettlementTypes
  <1>16. txn'[a] \in Transactions /\ txn'[a].at = "written" /\ txn'[a].locks = txn[a].locks
    <2>1. txn[a] \in Transactions /\ {d} \in SUBSET Dues /\ rest \in Nat
      BY <1>2, <1>6
    <2> QED
      BY <1>15, <2>1 DEF Transactions, TxnSteps
  <1>17. txn' = [txn EXCEPT ![a] = txn'[a]]
    BY <1>8 DEF SettlementInv, SettlementTypes
  <1> QED
    BY <1>1, <1>12, <1>13, <1>14, <1>16, <1>17, Payment

LEMMA MonthWriteInv ==
  ASSUME SettlementInv, NEW a \in Payers, MonthWrite(a)
  PROVE  SettlementInv'
  <1> DEFINE pays == {d \in Dues : txn[a].seen[d] > 0}
  <1>1. /\ txn[a].at = "monthSources"
        /\ paid' = [d \in Dues |-> paid[d] + txn[a].seen[d]]
        /\ dueStatus' = [d \in Dues |-> IF d \in pays THEN "paid" ELSE dueStatus[d]]
        /\ carry' = [d \in Dues |-> IF d \in pays THEN 0 ELSE carry[d]]
        /\ txn' = [txn EXCEPT ![a].at = "written", ![a].pays = pays]
        /\ UNCHANGED <<refunded, released, releaseKeys, carriedEver, late, payable>>
    BY DEF MonthWrite
  <1>2. /\ txn[a] \in Transactions /\ paid \in [Dues -> Nat] /\ carry \in [Dues -> Nat]
        /\ dueStatus \in [Dues -> {"pending", "paid", "failed"}]
        /\ txn[a].seen \in [Dues -> Nat] /\ pays \subseteq Dues
    BY DEF SettlementInv, SettlementTypes, Transactions
  <1>3. \A d \in pays : d \in txn[a].own /\ paid[d] + txn[a].seen[d] =< Amount[d]
    BY <1>1 DEF SettlementInv, MonthFits
  <1>4. \A d \in Dues \ pays : txn[a].seen[d] = 0
    BY <1>2
  <1>5. /\ paid' \in [Dues -> Nat]
        /\ \A d \in Dues : paid'[d] =< Amount[d] /\ (d \notin pays => paid'[d] = paid[d])
    BY <1>1, <1>2, <1>3, <1>4 DEF SettlementInv, NeverOverpaid
  <1> HIDE DEF pays
  <1>6. /\ carry' \in [Dues -> Nat]
        /\ \A d \in Dues : carry'[d] =< carry[d] /\ (d \notin pays => carry'[d] = carry[d])
    BY <1>1, <1>2
  <1>7. dueStatus' \in [Dues -> {"pending", "paid", "failed"}]
    BY <1>1, <1>2
  <1>8. txn'[a] = [txn[a] EXCEPT !.at = "written", !.pays = pays]
    BY <1>1 DEF SettlementInv, SettlementTypes
  <1>9. txn'[a] \in Transactions /\ txn'[a].at = "written" /\ txn'[a].locks = txn[a].locks
    BY <1>2, <1>8 DEF Transactions, TxnSteps
  <1>10. txn' = [txn EXCEPT ![a] = txn'[a]]
    BY <1>1 DEF SettlementInv, SettlementTypes
  <1> QED
    BY <1>1, <1>3, <1>5, <1>6, <1>7, <1>9, <1>10, Payment

\* What one settlement releases was read, is still carried, and is nobody else's.
LEMMA ReleaseInv ==
  ASSUME SettlementInv, NEW a \in Payers, NEW p \in Dues, Release(a, p)
  PROVE  SettlementInv'
  <1> DEFINE cap == [d \in Dues |-> Min({txn[a].seen[d], refunded[d]})]
  <1>1. PICK give \in Greedy(cap, txn[a].budget) :
          LET from == {d \in Dues : give[d] > 0} IN
          /\ txn[a].at = "releasing" /\ p \in txn[a].pays /\ Free(a, from)
          /\ released' = [d \in Dues |-> IF <<p, d>> \in releaseKeys THEN released[d]
                                         ELSE released[d] + give[d]]
          /\ releaseKeys' = releaseKeys \cup ({p} \X from)
          /\ carry' = [d \in Dues |-> Floor(carry[d] - give[d])]
          /\ txn' = [txn EXCEPT ![a] = IF txn[a].pays = {p} THEN Idle
                                       ELSE [txn[a] EXCEPT !.at = "written",
                                               !.pays = txn[a].pays \ {p},
                                               !.locks = txn[a].locks \cup from]]
          /\ UNCHANGED <<dueStatus, paid, refunded, carriedEver, late, payable>>
    BY DEF Release
  <1> DEFINE from == {d \in Dues : give[d] > 0}
  <1>2. /\ txn \in [Payers -> Transactions] /\ txn[a] \in Transactions /\ paid \in [Dues -> Nat]
        /\ carry \in [Dues -> Nat] /\ refunded \in [Dues -> Nat] /\ released \in [Dues -> Nat]
        /\ txn[a].seen \in [Dues -> Nat] /\ from \subseteq Dues
        /\ releaseKeys \subseteq Dues \X Dues /\ carriedEver \in [Dues -> Nat]
        /\ txn[a].budget \in Nat
    BY DEF SettlementInv, SettlementTypes, Transactions
  <1>3. /\ give \in [Dues -> 0..txn[a].budget]
        /\ \A d \in Dues : give[d] =< cap[d]
    BY <1>1 DEF Greedy
  <1>4. give \in [Dues -> Nat]
    BY <1>2, <1>3
  <1>5. \A d \in Dues : cap[d] =< txn[a].seen[d]
    <2> SUFFICES ASSUME NEW d \in Dues PROVE cap[d] =< txn[a].seen[d]
      OBVIOUS
    <2>1. txn[a].seen[d] \in Nat /\ refunded[d] \in Nat /\ cap[d] = Min({txn[a].seen[d], refunded[d]})
      BY <1>2
    <2> HIDE DEF cap
    <2> QED
      BY <2>1, MinOf
  <1>6. \A d \in Dues \ late : give[d] =< carry[d]
    <2> SUFFICES ASSUME NEW d \in Dues \ late PROVE give[d] =< carry[d]
      OBVIOUS
    <2>1. txn[a].seen[d] =< carry[d]
      BY <1>1 DEF SettlementInv, SeenStands
    <2>2. give[d] =< cap[d] /\ cap[d] =< txn[a].seen[d]
      BY <1>3, <1>5
    <2>3. cap[d] \in Int
      <3>1. cap[d] = Min({txn[a].seen[d], refunded[d]}) /\ txn[a].seen[d] \in Nat /\ refunded[d] \in Nat
        BY <1>2
      <3> HIDE DEF cap
      <3> QED
        BY <3>1, MinOf
    <2> HIDE DEF cap
    <2> QED
      BY <1>2, <1>4, <2>1, <2>2, <2>3
  <1> HIDE DEF cap
  <1>7. \A d \in Dues : Floor(carry[d] - give[d]) \in Nat /\ Floor(carry[d] - give[d]) =< carry[d]
    BY <1>2, <1>4 DEF Floor
  <1>8. \A d \in Dues \ late : Floor(carry[d] - give[d]) = carry[d] - give[d]
    BY <1>2, <1>4, <1>6 DEF Floor
  <1>9. carry' \in [Dues -> Nat] /\ \A d \in Dues : carry'[d] = Floor(carry[d] - give[d])
    BY <1>1, <1>7
  <1>10. /\ released' \in [Dues -> Nat]
         /\ \A d \in Dues : released'[d] \in {released[d], released[d] + give[d]}
    BY <1>1, <1>2, <1>4
  <1>11. releaseKeys' \subseteq Dues \X Dues
    BY <1>1, <1>2
  <1> DEFINE rest == [txn[a] EXCEPT !.at = "written", !.pays = txn[a].pays \ {p},
                               !.locks = txn[a].locks \cup from]
  <1>12. /\ rest \in Transactions /\ rest.at = "written" /\ rest.locks = txn[a].locks \cup from
    BY <1>2 DEF Transactions, TxnSteps
  <1>13. /\ txn'[a] \in {Idle, rest}
         /\ \A b \in Payers \ {a} : txn'[b] = txn[b]
         /\ txn' = [txn EXCEPT ![a] = txn'[a]]
    <2>1. txn' = [txn EXCEPT ![a] = IF txn[a].pays = {p} THEN Idle ELSE rest]
      BY <1>1
    <2> HIDE DEF rest, from
    <2> QED
      BY <1>2, <2>1
  <1>14. \A b \in Payers \ {a} : from \cap txn[b].locks = {}
    BY <1>1 DEF Free
  <1> HIDE DEF rest
  <1>15. \A d \in Dues \ from : give[d] = 0
    BY <1>4
  <1>16. /\ UNCHANGED <<dueStatus, paid, refunded, carriedEver, late, payable>>
         /\ txn[a].at = "releasing"
    BY <1>1
  <1> HIDE DEF from
  <1>17. SettlementTypes'
    BY <1>2, <1>9, <1>10, <1>11, <1>12, <1>13, <1>16, IdleTyped DEF SettlementInv, SettlementTypes
  <1>18. LocksExclude'
    BY <1>12, <1>13, <1>14, IdleTyped DEF SettlementInv, LocksExclude
  <1>19. HoldsOwn'
    BY <1>12, <1>13, IdleTyped DEF SettlementInv, HoldsOwn
  <1>20. MonthFits'
    BY <1>12, <1>13, <1>16, IdleTyped DEF SettlementInv, MonthFits
  <1>21. Sources' \subseteq Sources
    BY <1>2, <1>7, <1>9 DEF Sources
  <1>22. HoldsSources'
    BY <1>12, <1>13, <1>16, <1>21, IdleTyped DEF SettlementInv, HoldsSources
  <1>23. SeenStands'
    <2> SUFFICES ASSUME NEW b \in Payers, txn'[b].at = "releasing", NEW d \in Dues \ late
                 PROVE  txn'[b].seen[d] =< carry'[d]
      BY <1>16 DEF SeenStands
    <2>1. b # a /\ txn'[b] = txn[b] /\ txn[b].seen[d] =< carry[d] /\ txn[b].at = "releasing"
      BY <1>12, <1>13, IdleTyped DEF SettlementInv, SeenStands
    <2>2. carry'[d] = carry[d] - give[d]
      BY <1>8, <1>9
    <2>3. CASE d \notin from
      BY <1>2, <1>15, <2>1, <2>2, <2>3
    <2>4. CASE d \in from
      <3>1. d \notin txn[b].locks
        BY <1>14, <2>1, <2>4
      <3>2. d \notin Sources
        BY <2>1, <3>1 DEF SettlementInv, HoldsSources
      <3>3. carry[d] = 0
        BY <1>2, <3>2 DEF Sources
      <3> QED
        BY <1>4, <1>6, <2>1, <2>2, <3>3
    <2> QED
      BY <2>3, <2>4
  <1>24. CarriedAreRefunds' /\ NeverOverpaid'
    BY <1>2, <1>7, <1>9, <1>16 DEF SettlementInv, CarriedAreRefunds, NeverOverpaid
  <1>25. ReleasedAsCarried'
    <2> SUFFICES ASSUME NEW d \in Dues \ late PROVE released'[d] + carry'[d] =< carriedEver[d]
      BY <1>16 DEF ReleasedAsCarried
    <2>1. released[d] + carry[d] =< carriedEver[d]
      BY DEF SettlementInv, ReleasedAsCarried
    <2>2. carry'[d] = carry[d] - give[d] /\ released'[d] \in {released[d], released[d] + give[d]}
      BY <1>8, <1>9, <1>10
    <2> QED
      BY <1>2, <1>4, <2>1, <2>2
  <1> QED
    BY <1>17, <1>18, <1>19, <1>20, <1>22, <1>23, <1>24, <1>25 DEF SettlementInv

LEMMA SettlementStep == SettlementInv /\ [SettlementNext]_settlementVars => SettlementInv'
  <1> SUFFICES ASSUME SettlementInv, [SettlementNext]_settlementVars PROVE SettlementInv'
    OBVIOUS
  <1>1. CASE AccountChanges \/ \E d \in Dues : RefundIssued(d) \/ CarryForward(d) \/ MarkFailed(d)
    BY <1>1, EnvironmentInv
  <1>2. ASSUME NEW a \in Payers,
               \/ \E d \in Dues : PayLock(a, d) \/ Release(a, d)
               \/ PaySources(a) \/ PayWrite(a) \/ MonthLock(a) \/ MonthSources(a)
               \/ MonthWrite(a) \/ ReleaseRead(a) \/ GiveUp(a)
        PROVE  SettlementInv'
    BY <1>2, PayLockInv, ReleaseInv, PaySourcesInv, PayWriteInv, MonthLockInv, MonthSourcesInv,
       MonthWriteInv, ReleaseReadInv, GiveUpInv
  <1>3. CASE UNCHANGED settlementVars
    BY <1>3 DEF settlementVars, SettlementInv, SettlementTypes, LocksExclude, HoldsOwn, MonthFits,
            HoldsSources, SeenStands, CarriedAreRefunds, NeverOverpaid, ReleasedAsCarried, Sources
  <1> QED
    BY <1>1, <1>2, <1>3 DEF SettlementNext

LEMMA SettlementInvariant == SettlementSpec => []SettlementInv
  BY SettlementInitInv, SettlementStep, PTL DEF SettlementSpec

\* The settlement state is well typed (provider_settlements, the ledger's
\* entries, and the rows each administrator's transaction has locked).
THEOREM SettlementTyped == SettlementSpec => []SettlementTypeOK
  <1>1. SettlementInv => SettlementTypeOK
    BY DEF SettlementInv, SettlementTypes, SettlementTypeOK, Transactions
  <1> QED
    BY <1>1, SettlementInvariant, PTL

\* However many administrators pay the provider at once, one settlement at a
\* time or a month, no settlement is paid more than it amounts to.
THEOREM NoneOverpaid == SettlementSpec => []NeverOverpaid
  <1>1. SettlementInv => NeverOverpaid
    BY DEF SettlementInv
  <1> QED
    BY <1>1, SettlementInvariant, PTL

\* What was released of a refund and what is still carried never exceed what
\* was carried forward, whatever the order of payments, unless it was carried
\* forward in the middle of one.
THEOREM RecoveredOnce == SettlementSpec => []ReleasedAsCarried
  <1>1. SettlementInv => ReleasedAsCarried
    BY DEF SettlementInv
  <1> QED
    BY <1>1, SettlementInvariant, PTL

-----------------------------------------------------------------------------
(* Membership.                                                             *)

Invited == \E q \in Invites : asked[q] = "approved"

Approving == {"locked", "granting", "rejecting"}

-----------------------------------------------------------------------------
(* Who holds a join's row: the approval of that join, from its SELECT on, or *)
(* an approval that is about to reject it.  Nobody else changes the row, so  *)
(* it stays pending.                                                        *)

RowsLocked ==
  /\ asked \in [Asks -> {"none", "pending", "approved", "rejected"}]
  /\ member \in [AllNgos -> {"none", "active", "left"}]
  /\ step \in [Asks -> Approving \cup {"idle", "checked"}]
  /\ joinLock \in [Joins -> Joins \cup {NoApproval}]
  /\ unrejected \in [Joins -> SUBSET Joins]
  /\ \A q \in Joins : step[q] \in Approving => joinLock[q] = q
  /\ \A q \in Asks : step[q] = "checked" => asked[q] = "none"
  /\ \A o \in Joins : joinLock[o] # NoApproval =>
        /\ asked[o] = "pending"
        /\ IF joinLock[o] = o THEN step[o] \in Approving ELSE step[joinLock[o]] = "rejecting"

\* An approval that searches accounts for every other pending join, either to be
\* rejected or already taken, unless one was written after its search.
Accounted ==
  ~crossed => \A q, o \in Joins :
                step[q] = "rejecting" /\ o # q /\ asked[o] = "pending"
                  => o \in unrejected[q] \/ joinLock[o] = q

\* Past the check no other NGO's membership is active: it could only become so by
\* another approval, and one of the two has to wait for the other's row.
NoneWhileGranting ==
  ~crossed /\ ~Invited =>
    /\ \A q \in Joins : step[q] \in {"granting", "rejecting"} => NoneElsewhere(q)
    /\ \A m, n \in AllNgos : member[m] = "active" /\ member[n] = "active" => m = n

MemberInv == RowsLocked /\ Accounted /\ NoneWhileGranting

LEMMA NgoOfAsk == \A q \in Asks : NgoAt[q] \in AllNgos
  BY DEF AllNgos

LEMMA MemberInit == MembershipInit => MemberInv
  BY JoinAssumption DEF JoinAssumption, MembershipInit, MemberInv, RowsLocked, Accounted, NoneWhileGranting, Approving, Asks, NoApproval

LEMMA RowsKept == MemberInv /\ [MembershipNext]_membershipVars => RowsLocked'
  <1> SUFFICES ASSUME MemberInv, [MembershipNext]_membershipVars PROVE RowsLocked'
    OBVIOUS
  <1> USE JoinAssumption, NgoOfAsk
      DEF JoinAssumption, MemberInv, RowsLocked, Approving, At, NoApproval, Asks
  <1>1. ASSUME NEW q \in Asks, CheckAsk(q) PROVE RowsLocked'
    BY <1>1 DEF CheckAsk
  <1>2. ASSUME NEW q \in Asks, InsertAsk(q) PROVE RowsLocked'
    BY <1>2 DEF InsertAsk
  <1>3. ASSUME NEW q \in Joins, LockJoin(q) PROVE RowsLocked'
    BY <1>3 DEF LockJoin
  <1>4. ASSUME NEW q \in Joins, Rollback(q), step[q] \in Approving PROVE RowsLocked'
    BY <1>4 DEF Rollback
  <1>5. ASSUME NEW q \in Joins, GrantJoin(q) PROVE RowsLocked'
    BY <1>5, <1>4 DEF GrantJoin
  <1>6. ASSUME NEW q \in Joins, FindOthers(q) PROVE RowsLocked'
    BY <1>6 DEF FindOthers, Others
  <1>7. ASSUME NEW q \in Joins, NEW o \in Joins, TakeOther(q, o) PROVE RowsLocked'
    BY <1>7 DEF TakeOther
  <1>8. ASSUME NEW q \in Joins, CommitJoin(q) PROVE RowsLocked'
    BY <1>8 DEF CommitJoin
  <1>9. ASSUME NEW q \in Joins, FailJoin(q) PROVE RowsLocked'
    BY <1>9, <1>4 DEF FailJoin
  <1>10. ASSUME NEW q \in Joins, RejectJoin(q) PROVE RowsLocked'
    BY <1>10 DEF RejectJoin
  <1>11. ASSUME NEW q \in Invites, Respond(q) PROVE RowsLocked'
    BY <1>11 DEF Respond
  <1>12. ASSUME NEW n \in AllNgos, LeaveNgo(n) PROVE RowsLocked'
    BY <1>12 DEF LeaveNgo
  <1>13. CASE UNCHANGED membershipVars
    BY <1>13 DEF membershipVars
  <1> QED
    BY <1>1, <1>2, <1>3, <1>5, <1>6, <1>7, <1>8, <1>9, <1>10, <1>11, <1>12, <1>13
       DEF MembershipNext

LEMMA AccountsKept == MemberInv /\ [MembershipNext]_membershipVars => Accounted'
  <1> SUFFICES ASSUME MemberInv, [MembershipNext]_membershipVars PROVE Accounted'
    OBVIOUS
  <1> USE JoinAssumption
      DEF JoinAssumption, MemberInv, RowsLocked, Accounted, Approving, At, NoApproval, Asks
  <1>1. ASSUME NEW q \in Asks, CheckAsk(q) PROVE Accounted'
    BY <1>1 DEF CheckAsk
  <1>2. ASSUME NEW q \in Asks, InsertAsk(q) PROVE Accounted'
    BY <1>2 DEF InsertAsk
  <1>3. ASSUME NEW q \in Joins, LockJoin(q) PROVE Accounted'
    BY <1>3 DEF LockJoin
  <1>4. ASSUME NEW q \in Joins, Rollback(q) PROVE Accounted'
    BY <1>4 DEF Rollback
  <1>5. ASSUME NEW q \in Joins, GrantJoin(q) PROVE Accounted'
    BY <1>5, <1>4 DEF GrantJoin
  <1>6. ASSUME NEW q \in Joins, FindOthers(q) PROVE Accounted'
    BY <1>6 DEF FindOthers, Others
  <1>7. ASSUME NEW q \in Joins, NEW o \in Joins, TakeOther(q, o) PROVE Accounted'
    BY <1>7 DEF TakeOther
  <1>8. ASSUME NEW q \in Joins, CommitJoin(q) PROVE Accounted'
    BY <1>8 DEF CommitJoin
  <1>9. ASSUME NEW q \in Joins, FailJoin(q) PROVE Accounted'
    BY <1>9, <1>4 DEF FailJoin
  <1>10. ASSUME NEW q \in Joins, RejectJoin(q) PROVE Accounted'
    BY <1>10 DEF RejectJoin
  <1>11. ASSUME NEW q \in Invites, Respond(q) PROVE Accounted'
    BY <1>11 DEF Respond
  <1>12. ASSUME NEW n \in AllNgos, LeaveNgo(n) PROVE Accounted'
    BY <1>12 DEF LeaveNgo
  <1>13. CASE UNCHANGED membershipVars
    BY <1>13 DEF membershipVars
  <1> QED
    BY <1>1, <1>2, <1>3, <1>5, <1>6, <1>7, <1>8, <1>9, <1>10, <1>11, <1>12, <1>13
       DEF MembershipNext

-----------------------------------------------------------------------------
(* The memberships.                                                         *)

\* An approval that commits finds no other one past its check: the other holds its
\* own row, which this one has to reject first.
LEMMA CommitsAlone ==
  ASSUME MemberInv, ~crossed, NEW q \in Joins, CommitJoin(q),
         NEW o \in Joins, step[o] \in {"granting", "rejecting"}
  PROVE  o = q
  BY JoinAssumption DEF JoinAssumption, MemberInv, RowsLocked, Accounted, Approving, CommitJoin, NoApproval

LEMMA GrantsKept == MemberInv /\ [MembershipNext]_membershipVars => NoneWhileGranting'
  <1> SUFFICES ASSUME MemberInv, [MembershipNext]_membershipVars, ~crossed', ~Invited'
               PROVE  /\ \A p \in Joins : step'[p] \in {"granting", "rejecting"} => NoneElsewhere(p)'
                      /\ \A m, n \in AllNgos : member'[m] = "active" /\ member'[n] = "active" => m = n
    BY DEF NoneWhileGranting
  <1> DEFINE Kept == /\ \A p \in Joins : step'[p] \in {"granting", "rejecting"} => NoneElsewhere(p)'
                     /\ \A m, n \in AllNgos : member'[m] = "active" /\ member'[n] = "active" => m = n
  <1>a. ASSUME ~crossed, ~Invited
        PROVE  /\ \A p \in Joins : step[p] \in {"granting", "rejecting"} => NoneElsewhere(p)
               /\ \A m, n \in AllNgos : member[m] = "active" /\ member[n] = "active" => m = n
    BY <1>a DEF MemberInv, NoneWhileGranting
  <1> USE NgoOfAsk, JoinAssumption
      DEF JoinAssumption, MemberInv, RowsLocked, NoneElsewhere, Invited, At, Asks
  <1>1. ASSUME NEW q \in Asks, CheckAsk(q) PROVE Kept
    BY <1>1, <1>a DEF CheckAsk
  <1>2. ASSUME NEW q \in Asks, InsertAsk(q) PROVE Kept
    BY <1>2, <1>a DEF InsertAsk
  <1>3. ASSUME NEW q \in Joins, LockJoin(q) PROVE Kept
    BY <1>3, <1>a DEF LockJoin
  <1>4. ASSUME NEW q \in Joins, Rollback(q) PROVE Kept
    BY <1>4, <1>a DEF Rollback
  <1>5. ASSUME NEW q \in Joins, GrantJoin(q) PROVE Kept
    BY <1>5, <1>4, <1>a DEF GrantJoin
  <1>6. ASSUME NEW q \in Joins, FindOthers(q) PROVE Kept
    BY <1>6, <1>a DEF FindOthers
  <1>7. ASSUME NEW q \in Joins, NEW o \in Joins, TakeOther(q, o) PROVE Kept
    BY <1>7, <1>a DEF TakeOther
  <1>8. ASSUME NEW q \in Joins, CommitJoin(q) PROVE Kept
    <2>1. ~crossed /\ ~Invited
      BY <1>8 DEF CommitJoin
    <2>2. \A o \in Joins : step[o] \in {"granting", "rejecting"} => o = q
      BY <1>8, <2>1, CommitsAlone
    <2>3. \A n \in AllNgos \ {NgoAt[q]} : member[n] # "active"
      BY <1>8, <2>1, <1>a DEF CommitJoin
    <2>4. step' = [step EXCEPT ![q] = "idle"] /\ member' = [member EXCEPT ![NgoAt[q]] = "active"]
      BY <1>8 DEF CommitJoin
    <2> QED
      BY <2>2, <2>3, <2>4
  <1>9. ASSUME NEW q \in Joins, FailJoin(q) PROVE Kept
    BY <1>9, <1>4 DEF FailJoin
  <1>10. ASSUME NEW q \in Joins, RejectJoin(q) PROVE Kept
    BY <1>10, <1>a DEF RejectJoin
  <1>11. ASSUME NEW q \in Invites, Respond(q) PROVE Kept
    BY <1>11, <1>a DEF Respond
  <1>12. ASSUME NEW n \in AllNgos, LeaveNgo(n) PROVE Kept
    BY <1>12, <1>a DEF LeaveNgo
  <1>13. CASE UNCHANGED membershipVars
    BY <1>13, <1>a DEF membershipVars
  <1> QED
    BY <1>1, <1>2, <1>3, <1>5, <1>6, <1>7, <1>8, <1>9, <1>10, <1>11, <1>12, <1>13
       DEF MembershipNext

\* Whoever was never invited belongs to one NGO, however many approve at once,
\* as long as no join is written while an approval rejects the others.
THEOREM AlwaysOneNgo == MembershipSpec => []OneNgoByJoining
  <1>1. MemberInv => OneNgoByJoining
    <2> SUFFICES ASSUME MemberInv, ~crossed, ~Invited
                 PROVE  Cardinality({n \in AllNgos : member[n] = "active"}) <= 1
      BY DEF OneNgoByJoining, Invited
    <2> DEFINE active == {n \in AllNgos : member[n] = "active"}
    <2>1. \A m, n \in active : m = n
      BY DEF MemberInv, NoneWhileGranting
    <2>2. CASE active = {}
      BY <2>2, FS_EmptySet
    <2>3. ASSUME NEW n \in active PROVE Cardinality(active) <= 1
      <3>1. active = {n}
        BY <2>1
      <3> HIDE DEF active
      <3> QED
        BY <3>1, FS_Singleton
    <2> QED
      BY <2>2, <2>3
  <1>2. MemberInv /\ [MembershipNext]_membershipVars => MemberInv'
    BY RowsKept, AccountsKept, GrantsKept DEF MemberInv
  <1> QED
    BY MemberInit, <1>1, <1>2, PTL DEF MembershipSpec

\* Every request, membership and approval keeps to its steps.
LEMMA MembershipTyped == MembershipSpec => []MembershipTypeOK
  <1> DEFINE MemberTypes == MemberInv /\ crossed \in BOOLEAN
  <1>1. MembershipInit => MemberTypes
    BY MemberInit DEF MembershipInit
  <1>2. MemberTypes /\ [MembershipNext]_membershipVars => MemberTypes'
    <2> SUFFICES ASSUME MemberTypes, [MembershipNext]_membershipVars PROVE MemberTypes'
      OBVIOUS
    <2>1. MemberInv'
      BY RowsKept, AccountsKept, GrantsKept DEF MemberInv
    <2>2. crossed' \in BOOLEAN
      BY DEF MembershipNext, CheckAsk, InsertAsk, LockJoin, GrantJoin, FindOthers, CommitJoin,
             FailJoin, RejectJoin, TakeOther, Respond, LeaveNgo, Rollback, membershipVars
    <2> QED
      BY <2>1, <2>2
  <1>3. MemberTypes => MembershipTypeOK
    BY DEF MemberInv, RowsLocked, Approving, MembershipTypeOK
  <1> HIDE DEF MemberTypes
  <1> QED
    BY <1>1, <1>2, <1>3, PTL DEF MembershipSpec

-----------------------------------------------------------------------------
(* Capacity.                                                               *)

OnTime == ActiveRows \ slipped

\* The request that has counted holds the account's row, so nothing is inserted
\* before its own rows are; and what else happens to the account's reservations
\* adds to the count only those that slip in.
CountStands ==
  \A w \in Wishes :
    /\ wish[w].at \in {"locked", "counted"} => lockedBy = w
    /\ wish[w].at = "counted" =>
         Cardinality(Wanted[w]) + Cardinality(OnTime) <= Most

CapacityInv == CapacityTypeOK /\ CountStands /\ WithinLimit

LEMMA RowsFinite ==
  /\ \A S \in SUBSET Rows : IsFiniteSet(S) /\ Cardinality(S) \in Nat
  /\ \A S, T \in SUBSET Rows : S \subseteq T => Cardinality(S) <= Cardinality(T)
  /\ \A S, T \in SUBSET Rows : Cardinality(S \cup T) <= Cardinality(S) + Cardinality(T)
  <1> USE CapacityAssumption DEF CapacityAssumption
  <1>1. \A S \in SUBSET Rows : IsFiniteSet(S) /\ Cardinality(S) \in Nat
    BY FS_Subset, FS_CardinalityType
  <1>2. \A S, T \in SUBSET Rows : S \subseteq T => Cardinality(S) <= Cardinality(T)
    BY <1>1, FS_Subset
  <1>3. ASSUME NEW S \in SUBSET Rows, NEW T \in SUBSET Rows
        PROVE  Cardinality(S \cup T) <= Cardinality(S) + Cardinality(T)
    <2>1. Cardinality(S \cup T) = Cardinality(S) + Cardinality(T) - Cardinality(S \cap T)
      BY <1>1, FS_Union
    <2> QED
      BY <1>1, <2>1
  <1> QED
    BY <1>1, <1>2, <1>3

LEMMA CapacityStart == CapacityInit => CapacityInv
  <1> SUFFICES ASSUME CapacityInit PROVE CapacityInv
    OBVIOUS
  <1>1. OnTime = {} /\ Cardinality(OnTime) = 0
    BY FS_EmptySet DEF CapacityInit, OnTime, ActiveRows
  <1> QED
    BY <1>1, CapacityAssumption
       DEF CapacityAssumption, CapacityInit, CapacityInv, CapacityTypeOK, CountStands, WithinLimit, OnTime, NoWish

\* A step that adds nothing to what is active and on time keeps every count.
LEMMA CountKept ==
  ASSUME CapacityInv, CapacityTypeOK', OnTime' \subseteq OnTime,
         \A w \in Wishes : /\ wish'[w].at \in {"locked", "counted"} => lockedBy' = w
                           /\ wish'[w].at = "counted" => wish[w].at = "counted"
  PROVE  CapacityInv'
  <1>1. OnTime \in SUBSET Rows /\ OnTime' \in SUBSET Rows
    BY DEF OnTime, ActiveRows
  <1>2. Cardinality(OnTime') <= Cardinality(OnTime)
        /\ Cardinality(OnTime') \in Nat /\ Cardinality(OnTime) \in Nat
    BY <1>1, RowsFinite
  <1>3. \A w \in Wishes : Cardinality(Wanted[w]) \in Nat
    BY RowsFinite, CapacityAssumption DEF CapacityAssumption
  <1>4. Cardinality(OnTime)' = Cardinality(OnTime')
    OBVIOUS
  <1> QED
    BY <1>2, <1>3, <1>4, CapacityAssumption
       DEF CapacityAssumption, CapacityInv, CountStands, WithinLimit, OnTime

LEMMA CapacityStep == CapacityInv /\ [CapacityNext]_capacityVars => CapacityInv'
  <1> SUFFICES ASSUME CapacityInv, [CapacityNext]_capacityVars PROVE CapacityInv'
    OBVIOUS
  <1> USE CapacityAssumption
      DEF CapacityAssumption, CapacityTypeOK, Steps, NoWish, SubjectFree
  <1>a. CapacityTypeOK /\ CountStands /\ WithinLimit
    BY DEF CapacityInv
  <1>1. ASSUME NEW w \in Wishes, ReadPolicy(w) PROVE CapacityInv'
    BY <1>1, <1>a, CountKept DEF ReadPolicy, OnTime, ActiveRows, CountStands
  <1>2. ASSUME NEW w \in Wishes, LockSubject(w) PROVE CapacityInv'
    BY <1>2, <1>a, CountKept DEF LockSubject, OnTime, ActiveRows, CountStands
  <1>3. ASSUME NEW w \in Wishes, CountActive(w) PROVE CapacityInv'
    <2>1. OnTime \in SUBSET Rows /\ ActiveRows \in SUBSET Rows /\ OnTime \subseteq ActiveRows
      BY DEF OnTime, ActiveRows
    <2>2. /\ Cardinality(OnTime) \in Nat /\ Cardinality(ActiveRows) \in Nat
          /\ Cardinality(OnTime) <= Cardinality(ActiveRows) /\ Cardinality(Wanted[w]) \in Nat
      BY <2>1, RowsFinite
    <2>3. MaxActive[wish[w].level] \in 0..Most
      BY <1>a
    <2>4. Cardinality(Wanted[w]) <= MaxActive[wish[w].level] - Cardinality(ActiveRows)
      BY <1>3 DEF CountActive, WithinCapacity
    <2>5. Cardinality(Wanted[w]) + Cardinality(OnTime) <= Most
      BY <2>2, <2>3, <2>4
    <2>6. CapacityTypeOK' /\ UNCHANGED <<entry, lockedBy, slipped>>
          /\ wish[w].at = "locked" /\ wish' = [wish EXCEPT ![w].at = "counted"]
      BY <1>3, <1>a DEF CountActive
    <2>7. OnTime' = OnTime
      BY <2>6 DEF OnTime, ActiveRows
    <2>8. Cardinality(OnTime)' = Cardinality(OnTime)
      BY <2>7
    <2> QED
      BY <1>a, <2>5, <2>6, <2>7, <2>8 DEF CapacityInv, CountStands, WithinLimit, OnTime
  <1>4. ASSUME NEW w \in Wishes, InsertRows(w) PROVE CapacityInv'
    <2>1. OnTime \in SUBSET Rows /\ OnTime' \in SUBSET Rows /\ Wanted[w] \in SUBSET Rows
          /\ OnTime' \subseteq OnTime \cup Wanted[w]
      BY <1>4 DEF OnTime, ActiveRows, InsertRows
    <2>2. /\ Cardinality(OnTime') <= Cardinality(OnTime \cup Wanted[w])
          /\ Cardinality(OnTime \cup Wanted[w]) <= Cardinality(OnTime) + Cardinality(Wanted[w])
          /\ Cardinality(OnTime') \in Nat /\ Cardinality(OnTime) \in Nat
          /\ Cardinality(Wanted[w]) \in Nat /\ Cardinality(OnTime \cup Wanted[w]) \in Nat
      BY <2>1, RowsFinite
    <2>3. Cardinality(OnTime') <= Most
      BY <1>4, <1>a, <2>2 DEF InsertRows, CountStands
    <2>4. CapacityTypeOK'
      BY <1>4, <1>a DEF InsertRows
    <2>5. \A v \in Wishes : wish'[v].at \notin {"locked", "counted"}
      BY <1>4, <1>a DEF InsertRows, CountStands
    <2>6. Cardinality(OnTime)' <= Most
      BY <2>3
    <2> QED
      BY <2>4, <2>5, <2>6 DEF CapacityInv, CountStands, WithinLimit, OnTime
  <1>5. ASSUME NEW w \in Wishes, RefuseWish(w) PROVE CapacityInv'
    BY <1>5, <1>a, CountKept DEF RefuseWish, OnTime, ActiveRows, CountStands
  <1>6. ASSUME NEW e \in Rows, DeadlinePasses(e) PROVE CapacityInv'
    BY <1>6, <1>a, CountKept DEF DeadlinePasses, OnTime, ActiveRows, CountStands
  <1>7. ASSUME NEW e \in Rows, ActivatePaid(e) PROVE CapacityInv'
    BY <1>7, <1>a, CountKept DEF ActivatePaid, OnTime, ActiveRows, CountStands
  <1>8. ASSUME NEW e \in Rows, CloseRow(e) PROVE CapacityInv'
    BY <1>8, <1>a, CountKept DEF CloseRow, OnTime, ActiveRows, CountStands
  <1>9. CASE ChangeLevel
    BY <1>9, <1>a, CountKept DEF ChangeLevel, OnTime, ActiveRows, CountStands
  <1>10. CASE UNCHANGED capacityVars
    BY <1>10, <1>a, CountKept DEF capacityVars, OnTime, ActiveRows, CountStands
  <1> QED
    BY <1>1, <1>2, <1>3, <1>4, <1>5, <1>6, <1>7, <1>8, <1>9, <1>10 DEF CapacityNext

\* However many requests an account sends at once, those of its reservations that
\* did not slip in by a late payment are within the highest limit.
THEOREM AlwaysWithinLimit == CapacitySpec => []WithinLimit
  <1>1. CapacityInv => WithinLimit
    BY DEF CapacityInv
  <1> QED
    BY CapacityStart, CapacityStep, <1>1, PTL DEF CapacitySpec

\* The limit and every row keep to their values.
LEMMA CapacityTyped == CapacitySpec => []CapacityTypeOK
  <1>1. CapacityInv => CapacityTypeOK
    BY DEF CapacityInv
  <1> QED
    BY CapacityStart, CapacityStep, <1>1, PTL DEF CapacitySpec

-----------------------------------------------------------------------------
(* Incidents.                                                              *)

Event == [to : DOMAIN Transitions, at : Nat]

Wants == {"INVESTIGATING", "RESOLVED", "CLOSED", "POSTMORTEM"}

Progress == [at : {"none", "begun", "waiting", "locked", "ended"}, case : Cases \cup {0},
             want : Wants \cup {"none"}, began : Nat, seen : DOMAIN Transitions \cup {"none"}]

Reached(c, s) == \E e \in timeline[c] : e.to = s

\* IncidentStatus is a CHOOSE: there is a latest event to choose.
HasLatest(c) == \E e \in timeline[c] : \A f \in timeline[c] : f.at <= e.at

\* What a request decides on was so: its incident was opened and had that status.
Informed(k) ==
  /\ k \in Progress
  /\ k.at \in {"begun", "waiting", "locked"} => k.case \in Opened /\ k.want \in Wants
  /\ k.at \in {"waiting", "locked"} => k.seen \in DOMAIN Transitions /\ Reached(k.case, k.seen)

OneUnresolved ==
  \A c, d \in Opened : ~Reached(c, "RESOLVED") /\ ~Reached(d, "RESOLVED") => c = d

\* IncidentsAgree is not inductive: a request decides on a status that may be
\* stale.  But what it saw was so once, and a timeline only grows; and an
\* incident that was never resolved is active, whatever was seen of it.
TimelineInv ==
  /\ ticks \in Nat
  /\ timeline \in [Cases -> SUBSET Event]
  /\ lessons \subseteq Opened
  /\ \A c \in Opened : HasLatest(c)
  /\ ticket \in [Requests -> Progress]
  /\ \A q \in Requests : Informed(ticket[q])
  /\ ResolvedFirst
  /\ OneUnresolved

LEMMA EventStatuses == DOMAIN Transitions = {"OPEN", "INVESTIGATING", "RESOLVED", "CLOSED"}
  BY DEF Transitions

\* The status of an incident is that of one of its events.
LEMMA StatusReached ==
  ASSUME TimelineInv, NEW c \in Opened
  PROVE  IncidentStatus(c) \in DOMAIN Transitions /\ Reached(c, IncidentStatus(c))
  <1> DEFINE Latest(e) == \A f \in timeline[c] : f.at <= e.at
  <1>1. \E e \in timeline[c] : Latest(e)
    BY DEF TimelineInv, HasLatest
  <1>2. (CHOOSE e \in timeline[c] : Latest(e)) \in timeline[c]
    BY <1>1
  <1>3. IncidentStatus(c) = (CHOOSE e \in timeline[c] : Latest(e)).to
    BY DEF IncidentStatus
  <1>4. IncidentStatus(c) = (CHOOSE e \in timeline[c] : Latest(e)).to
        /\ (CHOOSE e \in timeline[c] : Latest(e)) \in Event
    BY <1>2, <1>3 DEF TimelineInv, Opened
  <1> HIDE DEF Latest
  <1> QED
    BY <1>2, <1>4 DEF Event, Reached

\* An incident that was never resolved is active.
LEMMA UnresolvedActive ==
  ASSUME TimelineInv, NEW c \in Opened, ~Reached(c, "RESOLVED")
  PROVE  c \in Active
  <1>1. ~Reached(c, "CLOSED")
    BY DEF TimelineInv, ResolvedFirst, Reached
  <1>2. IncidentStatus(c) \in {"OPEN", "INVESTIGATING"}
    BY <1>1, StatusReached, EventStatuses
  <1> QED
    BY <1>2 DEF Active, ActiveStatuses

LEMMA TimelineInit == IncidentsInit => TimelineInv
  BY DEF IncidentsInit, TimelineInv, Opened, Blank, ResolvedFirst, OneUnresolved, Informed, Progress

\* Appending an event keeps a latest one.
LEMMA LatestKept ==
  ASSUME NEW T \in SUBSET Event, NEW x \in Event,
         T = {} \/ \E e \in T : \A f \in T : f.at <= e.at
  PROVE  \E e \in T \cup {x} : \A f \in T \cup {x} : f.at <= e.at
  <1> USE DEF Event
  <1>1. CASE T = {}
    BY <1>1
  <1>2. ASSUME NEW e \in T, \A f \in T : f.at <= e.at PROVE \E k \in T \cup {x} : \A f \in T \cup {x} : f.at <= k.at
    <2>1. CASE x.at <= e.at
      BY <1>2, <2>1
    <2>2. CASE e.at <= x.at
      BY <1>2, <2>2
    <2> QED
      BY <2>1, <2>2
  <1> QED
    BY <1>1, <1>2

\* A step that adds nothing but events and lessons keeps what requests know.
Grows == /\ Opened \subseteq Opened'
         /\ \A c \in Opened : \A s \in DOMAIN Transitions : Reached(c, s) => Reached(c, s)'

LEMMA StaysInformed ==
  ASSUME Grows, NEW k, Informed(k)
  PROVE  Informed(k)'
  BY DEF Grows, Informed

\* An event is appended: at the end of an opened incident's timeline.
Appended(c, x) ==
  /\ timeline' = [timeline EXCEPT ![c] = @ \cup {x}]
  /\ UNCHANGED <<lessons, ticks>>
  /\ x.to = "CLOSED" => Reached(c, "RESOLVED")

LEMMA AppendKeeps ==
  ASSUME TimelineInv, NEW c \in Opened, NEW x \in Event, Appended(c, x)
  PROVE  /\ timeline' \in [Cases -> SUBSET Event] /\ Opened' = Opened /\ Grows
         /\ \A d \in Opened : HasLatest(d)'
         /\ ResolvedFirst' /\ OneUnresolved'
  <1>1. /\ timeline' \in [Cases -> SUBSET Event]
        /\ timeline'[c] = timeline[c] \cup {x}
        /\ \A d \in Cases \ {c} : timeline'[d] = timeline[d]
    BY DEF Appended, TimelineInv, Opened
  <1>2. Opened' = Opened
    BY <1>1 DEF Opened
  <1>3. Grows
    BY <1>1, <1>2 DEF Grows, Reached, Opened
  <1>4. \A d \in Opened : HasLatest(d)'
    <2>1. timeline[c] \in SUBSET Event /\ HasLatest(c)
      BY DEF TimelineInv, Opened
    <2>2. \E e \in timeline[c] \cup {x} : \A f \in timeline[c] \cup {x} : f.at <= e.at
      BY <2>1, LatestKept DEF HasLatest
    <2>3. HasLatest(c)'
      BY <1>1, <2>2 DEF HasLatest
    <2> QED
      BY <1>1, <2>3 DEF HasLatest, TimelineInv, Opened
  <1>5. ResolvedFirst'
    <2> SUFFICES ASSUME NEW d \in Opened, d \in lessons \/ Reached(d, "CLOSED")'
                 PROVE  Reached(d, "RESOLVED")'
      BY <1>2 DEF ResolvedFirst, Reached, Appended
    <2>1. d \in lessons \/ Reached(d, "CLOSED") \/ (d = c /\ x.to = "CLOSED")
      BY <1>1 DEF Reached, Opened
    <2>2. Reached(d, "RESOLVED")
      BY <2>1 DEF TimelineInv, ResolvedFirst, Reached, Appended
    <2> QED
      BY <1>3, <2>2, EventStatuses DEF Grows
  <1>6. OneUnresolved'
    BY <1>2, <1>3, EventStatuses DEF Grows, OneUnresolved, TimelineInv
  <1> QED
    BY <1>1, <1>2, <1>3, <1>4, <1>5, <1>6

LEMMA TimelineStep == TimelineInv /\ [IncidentsNext]_incidentVars => TimelineInv'
  <1> SUFFICES ASSUME TimelineInv, [IncidentsNext]_incidentVars PROVE TimelineInv'
    OBVIOUS
  <1>0. UNCHANGED <<timeline, lessons>> =>
          Grows /\ Opened' = Opened /\ ResolvedFirst' /\ OneUnresolved' /\ \A c \in Opened : HasLatest(c)'
    BY DEF TimelineInv, Grows, Opened, ResolvedFirst, OneUnresolved, HasLatest, Reached
  <1>1. ASSUME NEW c \in Cases, CreateIncident(c) PROVE TimelineInv'
    <2>1. \A d \in Opened : Reached(d, "RESOLVED")
      BY <1>1, UnresolvedActive DEF CreateIncident, NoneActive
    <2>2. /\ timeline[c] = {} /\ timeline'[c] = {[to |-> "OPEN", at |-> ticks + 1]}
          /\ timeline' \in [Cases -> SUBSET Event]
          /\ \A d \in Cases \ {c} : timeline'[d] = timeline[d]
      BY <1>1, EventStatuses DEF CreateIncident, TimelineInv, Event
    <2>3. UNCHANGED <<lessons, ticket>> /\ ticks' \in Nat
      BY <1>1 DEF CreateIncident, TimelineInv
    <2>4. Opened' = Opened \cup {c} /\ c \notin Opened
      BY <2>2 DEF Opened
    <2>5. Grows
      BY <2>2, <2>4 DEF Grows, Reached, Opened
    <2>6. \A d \in Opened' : HasLatest(d)'
      <3>1. HasLatest(c)'
        BY <2>2 DEF HasLatest, TimelineInv
      <3> QED
        BY <2>2, <2>4, <3>1 DEF HasLatest, TimelineInv, Opened
    <2>7. \A d \in Opened : Reached(d, "RESOLVED")'
      BY <2>1, <2>5, EventStatuses DEF Grows
    <2>8. ResolvedFirst'
      <3>1. c \notin lessons /\ ~\E e \in timeline'[c] : e.to = "CLOSED"
        BY <2>2, <2>4 DEF TimelineInv
      <3> QED
        BY <2>3, <2>4, <2>7, <3>1 DEF ResolvedFirst, Reached
    <2>9. OneUnresolved'
      BY <2>4, <2>7 DEF OneUnresolved
    <2> QED
      BY <2>2, <2>3, <2>4, <2>5, <2>6, <2>8, <2>9, StaysInformed DEF TimelineInv
  <1>2. ASSUME NEW q \in Requests, BeginRequest(q) PROVE TimelineInv'
    <2>1. PICK c \in Opened, w \in Wants :
            ticket' = [ticket EXCEPT ![q] = [at |-> "begun", case |-> c, want |-> w,
                                               began |-> ticks + 1, seen |-> "none"]]
      BY <1>2 DEF BeginRequest, Wants
    <2> DEFINE k == [at |-> "begun", case |-> c, want |-> w, began |-> ticks + 1, seen |-> "none"]
    <2>2. Informed(k)
      BY DEF Informed, Progress, TimelineInv, Opened
    <2>3. k \in Progress
      BY <2>2 DEF Informed
    <2>4. UNCHANGED <<timeline, lessons>> /\ ticks' \in Nat
      BY <1>2 DEF BeginRequest, TimelineInv
    <2> HIDE DEF k
    <2>5. ticket' \in [Requests -> Progress] /\ \A p \in Requests : Informed(ticket'[p])
      BY <2>1, <2>2, <2>3 DEF TimelineInv, k
    <2> QED
      BY <1>0, <2>4, <2>5, StaysInformed DEF TimelineInv
  <1>3. ASSUME NEW q \in Requests, ReadIncident(q) PROVE TimelineInv'
    <2> DEFINE c == ticket[q].case
               k(s) == [[ticket[q] EXCEPT !.at = s] EXCEPT !.seen = IncidentStatus(c)]
    <2>1. c \in Opened /\ ticket[q].want \in Wants /\ ticket[q] \in Progress
      BY <1>3 DEF ReadIncident, TimelineInv, Informed
    <2>2. IncidentStatus(c) \in DOMAIN Transitions /\ Reached(c, IncidentStatus(c))
      BY <2>1, StatusReached
    <2>3. PICK s \in {"locked", "waiting"} : ticket' = [ticket EXCEPT ![q] = k(s)]
      BY <1>3 DEF ReadIncident, TimelineInv
    <2>4. Informed(k(s))
      BY <2>1, <2>2 DEF Informed, Progress
    <2>5. UNCHANGED <<timeline, lessons, ticks>>
      BY <1>3 DEF ReadIncident
    <2>6. k(s) \in Progress
      BY <2>4 DEF Informed
    <2> HIDE DEF k
    <2>7. ticket' \in [Requests -> Progress] /\ \A p \in Requests : Informed(ticket'[p])
      BY <2>3, <2>4, <2>6 DEF TimelineInv
    <2> QED
      BY <1>0, <2>5, <2>7, StaysInformed DEF TimelineInv
  <1>4. ASSUME NEW q \in Requests, LockIncident(q) PROVE TimelineInv'
    <2> DEFINE k == [ticket[q] EXCEPT !.at = "locked"]
    <2>1. Informed(ticket[q]) /\ ticket[q].at = "waiting"
      BY <1>4 DEF LockIncident, TimelineInv
    <2>2. Informed(k)
      BY <2>1 DEF Informed, Progress
    <2>3. UNCHANGED <<timeline, lessons, ticks>> /\ ticket' = [ticket EXCEPT ![q] = k]
      BY <1>4 DEF LockIncident, TimelineInv
    <2>4. k \in Progress
      BY <2>2 DEF Informed
    <2> HIDE DEF k
    <2>5. ticket' \in [Requests -> Progress] /\ \A p \in Requests : Informed(ticket'[p])
      BY <2>2, <2>3, <2>4 DEF TimelineInv
    <2> QED
      BY <1>0, <2>3, <2>5, StaysInformed DEF TimelineInv
  <1>5. ASSUME NEW q \in Requests, EndRequest(q)
        PROVE  ticks' = ticks /\ ticket' \in [Requests -> Progress] /\ \A p \in Requests : Informed(ticket'[p])
    <2>1. Informed(Ended) /\ Ended \in Progress
      BY DEF Informed, Progress, Ended, Blank
    <2> QED
      BY <1>5, <2>1 DEF EndRequest, TimelineInv
  <1>6. ASSUME NEW q \in Requests, WriteStatus(q) PROVE TimelineInv'
    <2> DEFINE r == ticket[q]
               x == [to |-> r.want, at |-> r.began]
    <2>1. /\ r.case \in Opened /\ r.began \in Nat /\ r.want \in Wants \ {"POSTMORTEM"}
          /\ r.seen \in DOMAIN Transitions /\ Reached(r.case, r.seen)
      BY <1>6 DEF WriteStatus, TimelineInv, Informed, Progress
    <2>2. /\ UNCHANGED lessons
          /\ ticks' = ticks /\ ticket' \in [Requests -> Progress]
          /\ \A p \in Requests : Informed(ticket'[p])
      BY <1>5, <1>6 DEF WriteStatus
    <2>3. CASE UNCHANGED timeline
      BY <1>0, <2>2, <2>3, StaysInformed DEF TimelineInv
    <2>4. CASE ~UNCHANGED timeline
      <3>1. r.want \in Transitions[r.seen] /\ timeline' = [timeline EXCEPT ![r.case] = @ \cup {x}]
        BY <1>6, <2>4 DEF WriteStatus, TransitionAllowed
      <3>2. x \in Event /\ x.to = r.want
        BY <2>1, EventStatuses DEF Event, Wants
      <3>3. r.want = "CLOSED" => r.seen = "RESOLVED"
        BY <2>1, <3>1, EventStatuses DEF Transitions
      <3>4. Appended(r.case, x)
        BY <2>1, <2>2, <3>1, <3>2, <3>3 DEF Appended
      <3> HIDE DEF x, r
      <3>5. /\ timeline' \in [Cases -> SUBSET Event] /\ Opened' = Opened /\ Grows
            /\ \A d \in Opened : HasLatest(d)'
            /\ ResolvedFirst' /\ OneUnresolved'
        BY <2>1, <3>2, <3>4, AppendKeeps
      <3> QED
        BY <2>2, <3>5, StaysInformed DEF TimelineInv
    <2> QED
      BY <2>3, <2>4
  <1>7. ASSUME NEW q \in Requests, WritePostmortem(q) PROVE TimelineInv'
    <2>1. Informed(ticket[q]) /\ ticket[q].at = "locked"
      BY <1>7 DEF WritePostmortem, TimelineInv
    <2>2. /\ UNCHANGED timeline
          /\ ticks' = ticks /\ ticket' \in [Requests -> Progress]
          /\ \A p \in Requests : Informed(ticket'[p])
      BY <1>5, <1>7 DEF WritePostmortem
    <2>3. \A c \in lessons' \ lessons : c \in Opened /\ Reached(c, "RESOLVED")
      <3>1. \A c \in lessons' \ lessons : c = ticket[q].case /\ ticket[q].seen \in {"RESOLVED", "CLOSED"}
        BY <1>7 DEF WritePostmortem
      <3>2. ticket[q].case \in Opened /\ Reached(ticket[q].case, ticket[q].seen)
        BY <2>1 DEF Informed
      <3> QED
        BY <3>1, <3>2 DEF TimelineInv, ResolvedFirst, Reached
    <2>4. Opened' = Opened /\ Grows /\ OneUnresolved' /\ \A c \in Opened : HasLatest(c)'
      BY <2>2 DEF TimelineInv, Grows, Opened, OneUnresolved, HasLatest, Reached
    <2>5. ResolvedFirst'
      BY <2>2, <2>3, <2>4 DEF TimelineInv, ResolvedFirst, Reached
    <2> QED
      BY <2>2, <2>3, <2>4, <2>5, StaysInformed DEF TimelineInv
  <1>8. CASE UNCHANGED incidentVars
    BY <1>0, <1>8, StaysInformed DEF incidentVars, TimelineInv
  <1> QED
    BY <1>1, <1>2, <1>3, <1>4, <1>6, <1>7, <1>8 DEF IncidentsNext

\* However many admins and however stale what they read: what was closed or
\* reviewed was resolved, and one incident of the source at most never was.
THEOREM AlwaysResolvedFirst == IncidentsSpec => []IncidentsAgree
  <1>1. TimelineInv => IncidentsAgree
    <2> SUFFICES ASSUME TimelineInv PROVE OneUnresolvedIncident
      BY DEF TimelineInv, IncidentsAgree
    <2>1. \A c, d \in Unresolved : c = d
      BY DEF TimelineInv, Unresolved, Active, OneUnresolved, Reached
    <2>2. CASE Unresolved = {}
      BY <2>2, FS_EmptySet DEF OneUnresolvedIncident
    <2>3. ASSUME NEW c \in Unresolved PROVE OneUnresolvedIncident
      <3>1. Unresolved = {c}
        BY <2>1, <2>3
      <3>2. Cardinality({c}) = 1
        BY FS_Singleton
      <3> QED
        BY <3>1, <3>2 DEF OneUnresolvedIncident
    <2> QED
      BY <2>2, <2>3
  <1> QED
    BY TimelineInit, TimelineStep, <1>1, PTL DEF IncidentsSpec

Spent == {q \in Requests : ticket[q].at # "none"}

\* Every tick belongs to an incident that was opened or a request that was made.
TickTypes ==
  /\ TimelineInv
  /\ \A c \in Cases : \A e \in timeline[c] : e.at \in 1..ticks
  /\ \A q \in Requests : ticket[q].at \in {"begun", "waiting", "locked"} => ticket[q].began \in 1..ticks
  /\ lock \in [Cases -> Requests \cup {NoRequest}]
  /\ ticks <= Cardinality(Opened) + Cardinality(Spent)

\* A step that takes a tick spends an incident or a request.
LEMMA TickCount ==
  ASSUME TickTypes, NEW C \in SUBSET Cases, NEW Q \in SUBSET Requests,
         Opened \subseteq C, Spent \subseteq Q,
         ticks' = ticks \/ (ticks' = ticks + 1 /\ (Opened # C \/ Spent # Q))
  PROVE  ticks' <= Cardinality(C) + Cardinality(Q)
  <1>1. /\ IsFiniteSet(C) /\ IsFiniteSet(Opened) /\ IsFiniteSet(Q) /\ IsFiniteSet(Spent)
        /\ Opened \in SUBSET Cases /\ Spent \in SUBSET Requests
    BY CasesAssumption, FS_Subset DEF CasesAssumption, Opened, Spent
  <1>2. /\ Cardinality(C) \in Nat /\ Cardinality(Opened) \in Nat /\ Cardinality(Opened) <= Cardinality(C)
        /\ Cardinality(Q) \in Nat /\ Cardinality(Spent) \in Nat /\ Cardinality(Spent) <= Cardinality(Q)
    BY <1>1, FS_Subset, FS_CardinalityType
  <1>3. Opened # C => Cardinality(Opened) < Cardinality(C)
    BY <1>1, <1>2, FS_Subset
  <1>4. Spent # Q => Cardinality(Spent) < Cardinality(Q)
    BY <1>1, <1>2, FS_Subset
  <1> QED
    BY <1>2, <1>3, <1>4 DEF TickTypes, TimelineInv

LEMMA TickInit == IncidentsInit => TickTypes
  <1> SUFFICES ASSUME IncidentsInit PROVE TickTypes
    OBVIOUS
  <1>1. Opened = {} /\ Spent = {}
    BY DEF IncidentsInit, Opened, Spent, Blank
  <1>2. ticks <= Cardinality(Opened) + Cardinality(Spent)
    BY <1>1, FS_EmptySet DEF IncidentsInit
  <1> QED
    BY <1>2, TimelineInit DEF IncidentsInit, TickTypes, Blank

LEMMA TickStep == TickTypes /\ [IncidentsNext]_incidentVars => TickTypes'
  <1> SUFFICES ASSUME TickTypes, [IncidentsNext]_incidentVars PROVE TickTypes'
    OBVIOUS
  <1>1. TimelineInv /\ TimelineInv'
    BY TimelineStep DEF TickTypes
  <1> DEFINE Times == /\ \A c \in Cases : \A e \in timeline'[c] : e.at \in 1..ticks'
                      /\ \A q \in Requests : ticket'[q].at \in {"begun", "waiting", "locked"}
                                                => ticket'[q].began \in 1..ticks'
                      /\ lock' \in [Cases -> Requests \cup {NoRequest}]
             More == /\ Opened \subseteq Opened' /\ Spent \subseteq Spent'
                     /\ \/ ticks' = ticks
                        \/ ticks' = ticks + 1 /\ (Opened # Opened' \/ Spent # Spent')
  <1>2. Times /\ More
    <2> USE DEF TickTypes
    <2>0. \A x \in 1..ticks : x \in 1..(ticks + 1)
      BY <1>1 DEF TimelineInv
    <2>1. ASSUME NEW c \in Cases, CreateIncident(c) PROVE Times /\ More
      <3>1. /\ timeline[c] = {} /\ timeline' = [timeline EXCEPT ![c] = {[to |-> "OPEN", at |-> ticks + 1]}]
            /\ ticks' = ticks + 1 /\ lock' = lock /\ ticket' = ticket
        BY <2>1 DEF CreateIncident
      <3>2. /\ timeline'[c] = {[to |-> "OPEN", at |-> ticks + 1]}
            /\ \A d \in Cases \ {c} : timeline'[d] = timeline[d]
        BY <1>1, <3>1 DEF TimelineInv
      <3>3. ticks + 1 \in 1..ticks'
        BY <1>1, <3>1 DEF TimelineInv
      <3>4. c \in Opened' /\ c \notin Opened /\ Opened \subseteq Opened' /\ Spent' = Spent
        BY <3>1, <3>2 DEF Opened, Spent
      <3> QED
        BY <2>0, <3>1, <3>2, <3>3, <3>4
    <2>2. ASSUME NEW q \in Requests, BeginRequest(q) PROVE Times /\ More
      <3>1. PICK c \in Opened, w \in Wants :
              ticket' = [ticket EXCEPT ![q] = [at |-> "begun", case |-> c, want |-> w,
                                                began |-> ticks + 1, seen |-> "none"]]
        BY <2>2 DEF BeginRequest, Wants
      <3>2. /\ ticket[q].at = "none" /\ ticks' = ticks + 1 /\ lock' = lock /\ timeline' = timeline
        BY <2>2 DEF BeginRequest, Blank
      <3>3. /\ ticket'[q].at = "begun" /\ ticket'[q].began = ticks + 1
            /\ \A p \in Requests \ {q} : ticket'[p] = ticket[p]
        BY <1>1, <3>1 DEF TimelineInv
      <3>4. ticks + 1 \in 1..ticks'
        BY <1>1, <3>2 DEF TimelineInv
      <3>5. q \in Spent' /\ q \notin Spent /\ Spent \subseteq Spent' /\ Opened' = Opened
        BY <3>2, <3>3 DEF Opened, Spent
      <3> QED
        BY <2>0, <3>2, <3>3, <3>4, <3>5
    <2>3. ASSUME NEW q \in Requests, ticks' = ticks, timeline' = timeline,
                 lock' \in [Cases -> Requests \cup {NoRequest}],
                 \A p \in Requests \ {q} : ticket'[p] = ticket[p],
                 ticket[q].at \in {"begun", "waiting", "locked"},
                 ticket'[q].at = "ended" \/ (ticket'[q].at # "none" /\ ticket'[q].began = ticket[q].began)
          PROVE  Times /\ More
      BY <2>3 DEF Opened, Spent
    <2>4. ASSUME NEW q \in Requests, ReadIncident(q) \/ LockIncident(q) PROVE Times /\ More
      <3>1. /\ ticks' = ticks /\ timeline' = timeline
            /\ \A p \in Requests \ {q} : ticket'[p] = ticket[p]
            /\ ticket[q].at \in {"begun", "waiting"}
        BY <1>1, <2>4 DEF ReadIncident, LockIncident, TimelineInv
      <3>2. ticket'[q].at \in {"waiting", "locked"} /\ ticket'[q].began = ticket[q].began
        BY <1>1, <2>4 DEF ReadIncident, LockIncident, TimelineInv, Progress
      <3>3. lock' \in [Cases -> Requests \cup {NoRequest}]
        BY <2>4 DEF ReadIncident, LockIncident
      <3> QED
        BY <2>3, <3>1, <3>2, <3>3
    <2>5. ASSUME NEW q \in Requests, EndRequest(q), ticket[q].at = "locked", timeline' = timeline
          PROVE  Times /\ More
      <3>1. /\ ticket'[q].at = "ended" /\ ticks' = ticks
            /\ \A p \in Requests \ {q} : ticket'[p] = ticket[p]
            /\ lock' \in [Cases -> Requests \cup {NoRequest}]
        BY <1>1, <2>5 DEF EndRequest, TimelineInv, Ended, Blank
      <3>2. ticket[q].at \in {"begun", "waiting", "locked"}
        BY <2>5
      <3> HIDE DEF Times, More
      <3> QED
        BY <2>3, <2>5, <3>1, <3>2, Zenon
    <2>6. ASSUME NEW q \in Requests, EndRequest(q), ticket[q].at = "locked",
                 NEW x, x.at \in 1..ticks,
                 timeline' = [timeline EXCEPT ![ticket[q].case] = @ \cup {x}]
          PROVE  Times /\ More
      <3>1. /\ ticket'[q].at = "ended" /\ ticks' = ticks
            /\ \A p \in Requests \ {q} : ticket'[p] = ticket[p]
            /\ lock' \in [Cases -> Requests \cup {NoRequest}]
        BY <1>1, <2>6 DEF EndRequest, TimelineInv, Ended, Blank
      <3>2. \A c \in Cases : timeline'[c] = timeline[c] \/ timeline'[c] = timeline[c] \cup {x}
        BY <1>1, <2>6 DEF TimelineInv
      <3>3. \A c \in Cases : timeline[c] # {} => timeline'[c] # {}
        BY <3>2
      <3>4. Opened \subseteq Opened' /\ Spent = Spent'
        BY <2>6, <3>1, <3>3 DEF Opened, Spent
      <3>5. \A c \in Cases : \A e \in timeline'[c] : e.at \in 1..ticks
        BY <2>6, <3>2
      <3> QED
        BY <2>6, <3>1, <3>4, <3>5
    <2>7. ASSUME NEW q \in Requests, WriteStatus(q) PROVE Times /\ More
      <3> DEFINE x == [to |-> ticket[q].want, at |-> ticket[q].began]
      <3>1. ticket[q].at = "locked" /\ EndRequest(q)
        BY <2>7 DEF WriteStatus
      <3>2. timeline' = timeline \/ timeline' = [timeline EXCEPT ![ticket[q].case] = @ \cup {x}]
        BY <2>7 DEF WriteStatus
      <3>3. x.at \in 1..ticks
        BY <3>1
      <3> HIDE DEF x
      <3> QED
        BY <2>5, <2>6, <3>1, <3>2, <3>3
    <2>8. ASSUME NEW q \in Requests, WritePostmortem(q) PROVE Times /\ More
      BY <2>5, <2>8 DEF WritePostmortem
    <2>9. CASE UNCHANGED incidentVars
      BY <2>9 DEF incidentVars, Opened, Spent
    <2> QED
      BY <2>1, <2>2, <2>4, <2>7, <2>8, <2>9 DEF IncidentsNext
  <1>3. ticks' <= Cardinality(Opened') + Cardinality(Spent')
    <2>1. Opened' \in SUBSET Cases /\ Spent' \in SUBSET Requests
      BY DEF Opened, Spent
    <2>2. More
      BY <1>2
    <2>3. \A C \in SUBSET Cases, Q \in SUBSET Requests :
             /\ Opened \subseteq C /\ Spent \subseteq Q
             /\ ticks' = ticks \/ (ticks' = ticks + 1 /\ (Opened # C \/ Spent # Q))
             => ticks' <= Cardinality(C) + Cardinality(Q)
      BY TickCount
    <2>4. /\ Opened \subseteq Opened' /\ Spent \subseteq Spent'
          /\ ticks' = ticks \/ (ticks' = ticks + 1 /\ (Opened # Opened' \/ Spent # Spent'))
      BY <2>2
    <2> HIDE DEF Times, More
    <2> QED
      BY <2>1, <2>3, <2>4, Zenon
  <1> QED
    BY <1>1, <1>2, <1>3 DEF TickTypes

\* Events have times that some transaction had, and a row is locked by a request.
LEMMA IncidentsTyped == IncidentsSpec => []IncidentsTypeOK
  <1>1. TickTypes => IncidentsTypeOK
    <2> SUFFICES ASSUME TickTypes PROVE IncidentsTypeOK
      OBVIOUS
    <2>1. /\ Cardinality(Opened) \in Nat /\ Cardinality(Cases) \in Nat /\ Cardinality(Opened) <= Cardinality(Cases)
          /\ Cardinality(Spent) \in Nat /\ Cardinality(Requests) \in Nat /\ Cardinality(Spent) <= Cardinality(Requests)
      BY CasesAssumption, FS_Subset, FS_CardinalityType DEF CasesAssumption, Opened, Spent
    <2>2. ticks \in 0..(Cardinality(Cases) + Cardinality(Requests))
      BY <2>1 DEF TickTypes, TimelineInv
    <2>3. \A c \in Cases : \A e \in timeline[c] : e.to \in DOMAIN Transitions /\ e.at \in 1..ticks
      BY DEF TickTypes, TimelineInv, Event
    <2>4. \A q \in Requests : ticket[q].case \in Cases \cup {0}
      BY DEF TickTypes, TimelineInv, Progress
    <2> QED
      BY <2>2, <2>3, <2>4 DEF TickTypes, TimelineInv, Opened, IncidentsTypeOK
  <1> QED
    BY TickInit, TickStep, <1>1, PTL DEF IncidentsSpec

=============================================================================
