------------------------------ MODULE MCLanes ------------------------------
(***************************************************************************)
(* Two people and a row of each: an administrator's list of sessions, a    *)
(* customer's list of payments, and a statement of the service lane, over  *)
(* a pool of two connections.                                              *)
(***************************************************************************)
EXTENDS Lanes

CONSTANTS r1, r2, r3, c1, c2, ann, bob, x1, x2, noconn, nobody

Ask(lane, table, user, as) ==
  [lane |-> lane, table |-> table, person |-> [user |-> user, role |-> as]]

MCAsks ==
  [r \in Call |-> IF r = r1 THEN Ask("request", "sessions", ann, "admin")
                  ELSE IF r = r2 THEN Ask("request", "payments", bob, "customer")
                  ELSE Ask("service", "payments", ann, "admin")]
MCOwner == [x \in Row |-> IF x = x1 THEN ann ELSE bob]
=============================================================================
