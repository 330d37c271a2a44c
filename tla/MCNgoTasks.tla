----------------------------- MODULE MCNgoTasks -----------------------------
(***************************************************************************)
(* A small instance of NgoTasks for TLC: two NGOs share one listing, and   *)
(* the provider asks both of them to collect it.  Each NGO makes one       *)
(* reservation and is sent one request; both go by the NGO's name, so that *)
(* nothing but a name tells the NGOs apart.                                *)
(***************************************************************************)
EXTENDS NgoTasks, TLC

CONSTANTS ann, ben, v1

OwnName == [n \in {ann, ben} |-> n]
Swap    == Permutations({ann, ben})

=============================================================================
