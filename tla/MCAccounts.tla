----------------------------- MODULE MCAccounts -----------------------------
(***************************************************************************)
(* Two accounts, one of them a founder, two sign-ins and a link.           *)
(***************************************************************************)
EXTENDS Accounts, TLC

CONSTANTS ann, bob, d1, d2, l1, nobody

DoorSymmetry == Permutations(Door)
=============================================================================
