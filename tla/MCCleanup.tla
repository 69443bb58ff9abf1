----------------------------- MODULE MCCleanup -----------------------------
(***************************************************************************)
(* Two days and two hosts, the clock of the second a tick ahead; the       *)
(* cleanup of the second day may outlive its lease.                        *)
(***************************************************************************)
EXTENDS CleanupChain

CONSTANTS w1, w2

MCHandles == [w \in Worker |-> Job]
MCSkew == [w \in Worker |-> IF w = w2 THEN 1 ELSE 0]
=============================================================================
