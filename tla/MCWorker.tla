------------------------------ MODULE MCWorker ------------------------------
(***************************************************************************)
(* The worker loop and a job that is enqueued through another queue        *)
(* object, with delays of none or four ticks and an idle cap of three.     *)
(***************************************************************************)
EXTENDS Worker

CONSTANTS j1, m1
=============================================================================
