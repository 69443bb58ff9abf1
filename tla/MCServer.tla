------------------------------ MODULE MCServer ------------------------------
(***************************************************************************)
(* The process with two jobs, the second of which a request enqueues       *)
(* through another queue object, and two signals.                          *)
(***************************************************************************)
EXTENDS Server

CONSTANTS j1, m1
=============================================================================
