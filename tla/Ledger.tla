------------------------------- MODULE Ledger -------------------------------
(***************************************************************************)
(* The ledger tables and the two SQL statements that a Stripe webhook runs *)
(* against them.                                                           *)
(*                                                                         *)
(*   payments      where a payment stands now: status, provider_payment_id *)
(*   transactions  the append-only log, one row per Stripe event, UNIQUE   *)
(*                 on provider_event_id; kept here in the order in which   *)
(*                 the rows were learned                                   *)
(*                                                                         *)
(* Each statement is one data-modifying CTE, so it is one atomic action:   *)
(* the insert into transactions decides whether the event is new, and the  *)
(* update of payments is chained to the inserted row.                      *)
(***************************************************************************)
EXTENDS Integers, Sequences, Functions

CONSTANTS Payment,   \* payment ids
          Price      \* Price[p] = payments.amount_minor of p

ASSUME PriceAssumption == Price \in [Payment -> Nat \ {0}]

VARIABLES status,    \* status[p]: payments.status, "none" while there is no row
          intent,    \* intent[p]: provider_payment_id IS NOT NULL
          log        \* the transactions table, in the order rows were learned

ledgerVars == <<status, intent, log>>

Statuses == {"none", "created", "processing", "succeeded", "failed",
             "canceled", "refunded"}

\* Slips: a completed session counts as paid whatever its payment_status, or
\* never does; an expired one gets a status the schema does not know.
CompletedIsPaid == [completed_paid   |-> "succeeded",
                    completed_unpaid |-> "succeeded",
                    async_succeeded  |-> "succeeded",
                    async_failed     |-> "failed",
                    expired          |-> "canceled"]

CompletedIsOpen == [CompletedIsPaid EXCEPT !.completed_paid   = "processing",
                                           !.completed_unpaid = "processing"]

ExpiredIsExpired == [CompletedIsPaid EXCEPT !.expired = "expired"]

(***************************************************************************)
(* What a Checkout Session event says of its payment: the status the       *)
(* handler derives from the event type and the session's payment_status.   *)
(***************************************************************************)
StatusOf == [completed_paid   |-> "succeeded",
             completed_unpaid |-> "processing",
             async_succeeded  |-> "succeeded",
             async_failed     |-> "failed",
             expired          |-> "canceled"]

SessionKinds == DOMAIN StatusOf
RefundKind   == "charge_refunded"
Kinds        == SessionKinds \cup {RefundKind}

(***************************************************************************)
(* A Stripe event.  at: event.created, when it happened at Stripe; amount  *)
(* is session.amount_total for a session event and charge.amount_refunded, *)
(* the running total of the charge, for a refund; full is charge.refunded. *)
(* No two events of this model agree on every field, so the record stands  *)
(* for the event id.                                                       *)
(***************************************************************************)
Event == [kind : Kinds, pay : Payment, at : Nat, amount : Nat, full : BOOLEAN]

\* An expired session was never paid, so it carries no payment_intent.
CarriesIntent(e) == e.kind # "expired"

\* Slip: the insert without ON CONFLICT on provider_event_id.
NeverRecorded(e) == FALSE

Recorded(e) == e \in Range(log)

\* The foreign key transactions.payment_id.
Known(p) == status[p] # "none"

(***************************************************************************)
(* The statement for the four Checkout Session events.  The foreign key    *)
(* refuses an event that names a payment this system never issued (23503,  *)
(* acknowledged); ON CONFLICT DO NOTHING refuses a known event id.         *)
(***************************************************************************)
RecordSession(e) ==
  \/ /\ Known(e.pay)
     /\ ~Recorded(e)
     /\ log' = Append(log, e)
     /\ status' = [status EXCEPT ![e.pay] = StatusOf[e.kind]]
     /\ intent' = [intent EXCEPT ![e.pay] = CarriesIntent(e) \/ @]
  \/ /\ ~Known(e.pay) \/ Recorded(e)
     /\ UNCHANGED ledgerVars

(***************************************************************************)
(* The statement for charge.refunded.  The payment is looked up by         *)
(* provider_payment_id: an event whose intent no row carries matches       *)
(* nothing, and is acknowledged all the same.                              *)
(***************************************************************************)
\* The CASE of the update: the status a payment gets from a refund event.
\* Slips: a partial refund closes the payment; a partial refund reopens it.
ClosedByAnyRefund(old, full) == "refunded"
ReopenedByPartial(old, full) == IF full THEN "refunded" ELSE "succeeded"

AfterRefund(old, full) == IF full THEN "refunded" ELSE old

RecordRefund(e) ==
  \/ /\ intent[e.pay]
     /\ ~Recorded(e)
     /\ log' = Append(log, e)
     /\ status' = [status EXCEPT ![e.pay] = AfterRefund(@, e.full)]
     /\ UNCHANGED intent
  \/ /\ ~intent[e.pay] \/ Recorded(e)
     /\ UNCHANGED ledgerVars

Apply(e) == IF e.kind = RefundKind THEN RecordRefund(e) ELSE RecordSession(e)

LedgerTypeOK ==
  /\ status \in [Payment -> Statuses]
  /\ intent \in [Payment -> BOOLEAN]
  /\ log \in Seq(Event)
=============================================================================
