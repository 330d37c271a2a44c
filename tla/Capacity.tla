------------------------------ MODULE Capacity ------------------------------
(***************************************************************************)
(* How many active reservations one account may have, with the requests     *)
(* that reserve under way at once.  A request reads the trust policy        *)
(* without a lock, locks the account's row of users, counts the active      *)
(* reservations, and inserts its own; payments, deadlines, releases and     *)
(* pickups change the count without that lock.                              *)
(*                                                                         *)
(* Trust has the levels, PaymentHold and NgoTasks what becomes of a         *)
(* reservation; here it is what the count sees of it.  Other reasons to     *)
(* refuse a request (the listing, the stock) are left to chance.            *)
(***************************************************************************)
EXTENDS Integers, FiniteSets

CONSTANTS Rows,       \* reservations the account may make
          Wishes,     \* requests to reserve
          Wanted,     \* [Wishes -> the reservations a request asks for]
          Levels,     \* what the restriction level and a cooldown come down to
          MaxActive,  \* [Levels -> active reservations allowed]
          BulkAt,     \* levels at which one request may ask for several
          PayAt,      \* levels at which a reservation has to be paid first
          Most        \* the largest of the limits

ASSUME CapacityAssumption ==
  /\ IsFiniteSet(Rows) /\ Wanted \in [Wishes -> SUBSET Rows]
  /\ Most \in Nat /\ MaxActive \in [Levels -> 0..Most]
  /\ "free" \notin Wishes

VARIABLES entry,      \* reservations: what the classification makes of the row
          level,      \* the account's level of now
          wish,       \* [request -> its step, and the level it read]
          lockedBy,    \* the request that has the account's row locked
          slipped     \* paid when the deadline had passed

capacityVars == <<entry, level, wish, lockedBy, slipped>>

NoWish == "free"

CapacityInit ==
  /\ entry = [e \in Rows |-> "none"]
  /\ level \in Levels
  /\ wish = [w \in Wishes |-> [at |-> "idle", level |-> level]]
  /\ lockedBy = NoWish
  /\ slipped = {}

\* lifecycleSql and activeReservationWhere: a hold whose deadline has passed is
\* history, although nobody has released it.
ActiveRows == {e \in Rows : entry[e] \in {"held", "reserved"}}

Steps(w, s) == wish' = [wish EXCEPT ![w].at = s]

\* getTrustEnforcementPolicy
ReadPolicy(w) ==
  /\ wish[w].at = "idle"
  /\ wish' = [wish EXCEPT ![w] = [at |-> "policy", level |-> level]]
  /\ UNCHANGED <<entry, level, lockedBy, slipped>>

\* The row as if it were read without FOR UPDATE.
SubjectRead == TRUE

SubjectFree == lockedBy = NoWish

LockSubject(w) ==
  /\ wish[w].at = "policy" /\ SubjectFree
  /\ lockedBy' = w
  /\ Steps(w, "locked")
  /\ UNCHANGED <<entry, level, slipped>>

\* assertReservationCapacity
WithinCapacity(w) ==
  /\ Cardinality(Wanted[w]) <= MaxActive[wish[w].level] - Cardinality(ActiveRows)
  /\ Cardinality(Wanted[w]) > 1 => wish[w].level \in BulkAt

CountActive(w) ==
  /\ wish[w].at = "locked" /\ WithinCapacity(w)
  /\ Steps(w, "counted")
  /\ UNCHANGED <<entry, level, lockedBy, slipped>>

\* The stock is taken and the rows are inserted and committed.
InsertRows(w) ==
  /\ wish[w].at = "counted" /\ \A e \in Wanted[w] : entry[e] = "none"
  /\ entry' = [e \in Rows |-> IF e \notin Wanted[w] THEN entry[e]
                              ELSE IF wish[w].level \in PayAt THEN "held" ELSE "reserved"]
  /\ lockedBy' = NoWish
  /\ Steps(w, "done")
  /\ UNCHANGED <<level, slipped>>

\* Over the limit, no stock, a listing that ended, a lost connection: ROLLBACK.
RefuseWish(w) ==
  /\ wish[w].at \in {"locked", "counted"}
  /\ lockedBy' = NoWish
  /\ Steps(w, "done")
  /\ UNCHANGED <<entry, level, slipped>>

-----------------------------------------------------------------------------
\* payment_expires_at, set with the payment session, passes.
DeadlinePasses(e) ==
  /\ entry[e] = "held"
  /\ entry' = [entry EXCEPT ![e] = "overdue"]
  /\ UNCHANGED <<level, wish, lockedBy, slipped>>

\* processPaidOrder: a hold nobody released is activated, however late.
ActivatePaid(e) ==
  /\ entry[e] \in {"held", "overdue"}
  /\ entry' = [entry EXCEPT ![e] = "reserved"]
  /\ slipped' = IF entry[e] = "overdue" THEN slipped \cup {e} ELSE slipped
  /\ UNCHANGED <<level, wish, lockedBy>>

\* Released, cancelled, refunded, failed, picked up or delivered.
CloseRow(e) ==
  /\ entry[e] \in {"held", "overdue", "reserved"}
  /\ entry' = [entry EXCEPT ![e] = "history"]
  /\ UNCHANGED <<level, wish, lockedBy, slipped>>

\* The trust worker writes a new projection.
ChangeLevel ==
  /\ level' \in Levels
  /\ UNCHANGED <<entry, wish, lockedBy, slipped>>

CapacityNext ==
  \/ \E w \in Wishes : \/ ReadPolicy(w) \/ LockSubject(w) \/ CountActive(w)
                       \/ InsertRows(w) \/ RefuseWish(w)
  \/ \E e \in Rows : DeadlinePasses(e) \/ ActivatePaid(e) \/ CloseRow(e)
  \/ ChangeLevel

CapacitySpec == CapacityInit /\ [][CapacityNext]_capacityVars

-----------------------------------------------------------------------------
CapacityTypeOK ==
  /\ entry \in [Rows -> {"none", "held", "overdue", "reserved", "history"}]
  /\ level \in Levels
  /\ wish \in [Wishes -> [at : {"idle", "policy", "locked", "counted", "done"}, level : Levels]]
  /\ lockedBy \in Wishes \cup {NoWish}
  /\ slipped \subseteq Rows

\* "You have reached your active reservation limit": however many requests an
\* account sends at once, with policies however old, its active reservations are
\* never more than the highest limit, but for those paid after their deadline,
\* which were not counted while the payment was late.
WithinLimit == Cardinality(ActiveRows \ slipped) <= Most
=============================================================================
