--------------------------- MODULE MCStaffPanel ---------------------------
(***************************************************************************)
(* Two people at one browser, two sessions, and two actions of the store   *)
(* at a time: enough for a sign-out clicked twice and a sign-in between    *)
(* its two answers.                                                        *)
(***************************************************************************)
EXTENDS StaffPanel

CONSTANTS ann, bob, s1, s2, nobody
============================================================================
