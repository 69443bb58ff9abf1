----------------------------- MODULE MCPayments -----------------------------
(***************************************************************************)
(* Payments on a small instance: one payment of ours and a foreign one, of *)
(* 3 units, so that a charge can go back in one piece, in two or in three. *)
(***************************************************************************)
EXTENDS Payments

CONSTANTS p1, f1

MCPrice == [p \in Payment |-> 3]
=============================================================================
