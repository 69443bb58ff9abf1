---------------------------- MODULE MCReconciler ----------------------------
(***************************************************************************)
(* A reconciler run beside one payment of 2 units, whose session may       *)
(* settle late and whose charge may go back in one piece or in two.        *)
(***************************************************************************)
EXTENDS Reconciler

CONSTANTS p1

MCPrice == [p \in Payment |-> 2]
=============================================================================
