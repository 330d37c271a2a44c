---------------------------- MODULE MCPaymentHold ----------------------------
(***************************************************************************)
(* Small instances of PaymentHold for TLC: one or two reservations, of one *)
(* customer or of two who compete for the listing's items.                 *)
(***************************************************************************)
EXTENDS PaymentHold, TLC

CONSTANTS r1, r2, ann, bob

SameCustomer == [r \in Res |-> ann]
TwoCustomers == [r \in Res |-> IF r = r1 THEN ann ELSE bob]
OneItem      == [r \in Res |-> 1]
SwapRows == Permutations({r1, r2})

OneAndTwo    == [r \in Res |-> IF r = r1 THEN 2 ELSE 1]

=============================================================================
