-------------------------------- MODULE Items --------------------------------
(***************************************************************************)
(* The items of one food listing that its reservations ask for.  Every     *)
(* reservation row r asks for Qty[r] items; a set of reservations is       *)
(* turned into the set of the items it asks for, so that a sum of          *)
(* quantities is a cardinality.                                            *)
(***************************************************************************)
EXTENDS Integers, FiniteSets

CONSTANTS
    Res,  \* reservation rows that may be created for the listing
    Qty   \* Qty[r]: reservations.quantity_reserved, 1 or 2 for a customer

ASSUME ResAssumption == IsFiniteSet(Res)
ASSUME QtyAssumption == Qty \in [Res -> {1, 2}]

UnitsOf(S) == {u \in Res \X {1, 2} : u[1] \in S /\ u[2] <= Qty[u[1]]}

=============================================================================
