----------------------------- MODULE StockLedger -----------------------------
(***************************************************************************)
(* What the inventory of a listing promises to customers and NGOs alike,    *)
(* whatever happens to payments, refunds, pickups, tasks and requests: a   *)
(* reservation takes its items at most once, only if they are there, and   *)
(* gives back at most once what it took.                                   *)
(***************************************************************************)
EXTENDS Integers, FiniteSets

CONSTANT Res  \* reservation rows that may be created for the listing

VARIABLES
    offered,  \* how many items the provider offers
    shelf,    \* how many of them nobody holds
    taken,    \* taken[r]: how many items r took
    phase     \* phase[r]: "new", "taken" or "closed"

ledgerVars == <<offered, shelf, taken, phase>>

\* The items the reservations of S took, so that their number is a cardinality.
TakenBy(S) == UNION {{r} \X (1..taken[r]) : r \in S}

Init == /\ offered \in Nat /\ shelf = offered
        /\ taken = [r \in Res |-> 0]
        /\ phase = [r \in Res |-> "new"]

Take(r) == \E k \in 1..shelf :
              /\ shelf' = shelf - k
              /\ phase[r] = "new"
              /\ taken' = [taken EXCEPT ![r] = k]
              /\ phase' = [phase EXCEPT ![r] = "taken"]
              /\ offered' = offered

\* One handler gives back the items of all reservations of S.
GiveBack(S) == /\ \A r \in S : phase[r] = "taken"
               /\ shelf' = shelf + Cardinality(TakenBy(S))
               /\ phase' = [r \in Res |-> IF r \in S THEN "closed" ELSE phase[r]]
               /\ UNCHANGED <<offered, taken>>

\* The provider offers more or less, never less than is held.
Adjust == /\ offered' \in Nat
          /\ shelf' = shelf + offered' - offered
          /\ shelf' >= 0
          /\ UNCHANGED <<taken, phase>>

Next == \/ Adjust
        \/ \E r \in Res : Take(r)
        \/ \E S \in SUBSET Res : GiveBack(S)

Spec == Init /\ [][Next]_ledgerVars

=============================================================================
