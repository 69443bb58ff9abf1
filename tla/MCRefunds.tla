----------------------------- MODULE MCRefunds -----------------------------
(***************************************************************************)
(* Refunds on small instances: one payment of 2 units and up to two        *)
(* requests, which compete for the payment's pending slot.                 *)
(***************************************************************************)
EXTENDS Refunds

CONSTANTS p1, u1, u2, u3, r1, r2

MCPrice == [p \in Payment |-> 2]

\* r1 asks for the whole of the payment, r2 for half of it.
MCFor   == [r \in Request |-> p1]
MCAsked == [r \in Request |-> IF r = r1 THEN Whole ELSE 1]
MCBy    == [r \in Request |-> IF r = r2 THEN u2 ELSE u1]
=============================================================================
