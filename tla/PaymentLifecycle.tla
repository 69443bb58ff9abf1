-------------------------- MODULE PaymentLifecycle --------------------------
(***************************************************************************)
(* What the status of a payment promises to whoever reads it, with no      *)
(* handlers, sessions or events in sight: a payment moves from created to  *)
(* processing to an outcome; money that arrived can only be given back;    *)
(* and what has been given back or called off is over.                     *)
(***************************************************************************)
CONSTANT Payment

VARIABLE stage     \* stage[p]: the status of p, "none" before there is one

Edge == {<<"none", "created">>,
         <<"created", "processing">>, <<"created", "failed">>,
         <<"processing", "failed">>, <<"processing", "succeeded">>,
         \* a session nobody could pay expires, also after a failed checkout
         <<"created", "canceled">>, <<"processing", "canceled">>,
         <<"failed", "canceled">>,
         <<"succeeded", "refunded">>}

Init == stage = [p \in Payment |-> "none"]

Move(p, s) ==
  /\ <<stage[p], s>> \in Edge
  /\ stage' = [stage EXCEPT ![p] = s]

Next == \E p \in Payment : \E edge \in Edge : Move(p, edge[2])

Spec == Init /\ [][Next]_stage
=============================================================================
