----------------------------- MODULE Reconciler -----------------------------
(***************************************************************************)
(* The ledger reconciler (services/reconciler), which re-derives the       *)
(* status of every payment from the transactions log and reports the       *)
(* payments whose stored status differs.  It runs beside the API: it reads *)
(* payments in one statement and transactions in a second one, and while   *)
(* it does, checkouts and webhooks go on.  Somebody may also edit a status *)
(* by hand, which is what the reconciler is there to notice.               *)
(***************************************************************************)
EXTENDS Payments

CONSTANT Edits     \* whether a status may be edited by hand

ASSUME EditsAssumption == Edits \in BOOLEAN

VARIABLES reading,   \* where the run stands
          seen,      \* seen[p]: the status loadPayments has read
          learned,   \* how many rows the log had at that moment
          report     \* the payments it reports as discrepancies

runVars == <<reading, seen, learned, report>>
rvars == <<vars, runVars>>

RInit ==
  /\ Init
  /\ reading = "idle"
  /\ seen = [p \in Payment |-> "none"]
  /\ learned = 0
  /\ report = {}

-----------------------------------------------------------------------------
(* DeriveStatus *)

\* The rows of a payment, by their place in the log.
Rows(p) == {i \in DOMAIN log : log[i].pay = p}

RefundRows(p) == {i \in Rows(p) : log[i].kind = RefundKind}

SessionRows(p) == Rows(p) \ RefundRows(p)

\* Sorted by when it happened (no two events of a payment at one time), not
\* by when it was learned.  Slip: not sorted.
AsLearned(i, j) == i <= j

Ordered(i, j) == log[i].at <= log[j].at

\* Sorted or not, the last event that is not a refund names the status.
LastStatus(p) ==
  IF SessionRows(p) = {} THEN "none"
  ELSE StatusOf[log[CHOOSE j \in SessionRows(p) :
                      \A i \in SessionRows(p) : Ordered(i, j)].kind]

Refunded(p) ==
  SumFunctionOnSet([i \in DOMAIN log |-> log[i].amount], RefundRows(p))

\* An error is a discrepancy too.
Undeterminable == "undeterminable"

\* Slip: a refund event means a refunded payment.
CryWolf(p) ==
  IF Rows(p) = {} THEN Undeterminable
  ELSE IF RefundRows(p) # {} THEN "refunded"
  ELSE LastStatus(p)

DeriveStatus(p) ==
  LET none    == Rows(p) = {}
      unpaid  == Refunded(p) > 0 /\ LastStatus(p) # "succeeded"
      tooMuch == Refunded(p) > Price[p]
  IN IF none \/ unpaid \/ tooMuch THEN Undeterminable
     ELSE IF Refunded(p) = Price[p] THEN "refunded"
     ELSE LastStatus(p)

\* Check
Discrepancy(p, stored) == DeriveStatus(p) # stored

-----------------------------------------------------------------------------
(* A run *)

LoadPayments ==
  /\ reading = "idle"
  /\ reading' = "payments"
  /\ seen' = status
  /\ learned' = Len(log)
  /\ UNCHANGED <<vars, report>>

LoadEvents ==
  /\ reading = "payments"
  /\ reading' = "done"
  /\ report' = {p \in Payment : seen[p] # "none" /\ Discrepancy(p, seen[p])}
  /\ UNCHANGED <<vars, seen, learned>>

\* UPDATE payments SET status = ... typed into psql.
EditByHand(p) ==
  /\ Edits
  /\ reading = "idle"
  /\ Known(p)
  /\ \E s \in Statuses \ {"none", status[p]} : SetStatus(p, s)
  /\ UNCHANGED <<intent, log, pc, stripeVars, runVars>>

RNext ==
  \/ Next /\ UNCHANGED runVars
  \/ LoadPayments
  \/ LoadEvents
  \/ \E p \in Payment : EditByHand(p)

RSpec == RInit /\ [][RNext]_rvars

-----------------------------------------------------------------------------
(* Properties *)

\* What Stripe knows of a payment.
TrueStatus(p) ==
  CASE session[p] = "paid"     -> IF returned[p] = Price[p] THEN "refunded" ELSE "succeeded"
    [] session[p] = "awaiting" -> "processing"
    [] session[p] = "unpaid"   -> "failed"
    [] session[p] = "expired"  -> "canceled"
    [] OTHER                   -> "none"

FullyLearned(p) == \A e \in events : e.pay = p => Recorded(e)

(***************************************************************************)
(* "Events are sorted rather than assumed ordered": from a complete log    *)
(* with at most one refund, the derivation finds what Stripe knows, in     *)
(* whatever order the events were learned.                                 *)
(***************************************************************************)
DerivesTheTruth ==
  \A p \in Payment :
     /\ HasRows(p)
     /\ FullyLearned(p)
     /\ Cardinality(RefundRows(p)) <= 1
     => DeriveStatus(p) = TrueStatus(p)

\* Nothing was learned between the two reads.
Quiet == Len(log) = learned

(***************************************************************************)
(* A report over a ledger at rest, with at most one refund per payment and *)
(* rows that were learned completely and in order, names exactly the       *)
(* payments whose stored status is not what happened: it catches every     *)
(* edit by hand and raises no false alarm.                                 *)
(***************************************************************************)
ReportIsRight ==
  reading = "done" /\ Quiet =>
    \A p \in Payment :
       /\ HasRows(p)
       /\ FullyLearned(p)
       /\ Cardinality(RefundRows(p)) <= 1
       => (p \in report <=> seen[p] # TrueStatus(p))

-----------------------------------------------------------------------------
(* What the documents say, and the run refutes *)

(***************************************************************************)
(* "A payment is refunded only once the refunded amounts reach what was    *)
(* captured": a payment whose refunds are all in the log, and whose status *)
(* is right, is not reported.                                              *)
(***************************************************************************)
RefundsAddUp ==
  reading = "done" /\ Quiet =>
    \A p \in Payment :
       /\ HasRows(p)
       /\ FullyLearned(p)
       /\ seen[p] = TrueStatus(p)
       => p \notin report
=============================================================================
