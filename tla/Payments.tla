------------------------------ MODULE Payments ------------------------------
(***************************************************************************)
(* A payment from its checkout to its last webhook: the handler of POST    *)
(* /payments/checkout-session, Stripe's Checkout Session behind it, the    *)
(* payer, refunds made in Stripe's dashboard, and the deliveries of the    *)
(* events all this causes to POST /webhooks/stripe.                        *)
(*                                                                         *)
(* One action is one SQL statement or one Stripe call of the handler, one  *)
(* thing that happens at Stripe, or one delivery of one event.             *)
(***************************************************************************)
EXTENDS Ledger, FiniteSets

CONSTANTS Foreign,   \* payments another installation on the same Stripe
                     \* account has issued: their events arrive here too
          Delayed,   \* payments whose session may settle after it has completed
          Refunding, \* whether refunds are made in Stripe's dashboard
          Failures   \* whether handlers may die and Stripe's answers get lost

ASSUME PaymentsAssumption ==
  /\ Foreign \subseteq Payment
  /\ Delayed \subseteq Payment
  /\ Refunding \in BOOLEAN
  /\ Failures \in BOOLEAN

VARIABLES pc,        \* pc[p]: where the checkout handler of p stands
          asked,     \* payments whose sessions.create call is at Stripe
          session,   \* session[p]: the Checkout Session at Stripe
          returned,  \* returned[p]: the charge's amount_refunded at Stripe
          events,    \* the events Stripe has emitted
          acked      \* those a delivery of which was answered with a 2xx

stripeVars == <<asked, session, returned, events, acked>>
vars == <<ledgerVars, pc, stripeVars>>

CheckoutSteps == {"idle", "inserted", "waiting", "answered", "marked",
                  "replied", "failing", "refused", "dead"}

\* The handler is over: it has answered, thrown, or died with its process.
Over == {"replied", "refused", "dead"}

SessionStates == {"none", "open", "awaiting", "paid", "unpaid", "expired"}

TypeOK ==
  /\ LedgerTypeOK
  /\ pc \in [Payment -> CheckoutSteps]
  /\ asked \subseteq Payment
  /\ session \in [Payment -> SessionStates]
  /\ returned \in [Payment -> Nat]
  /\ events \subseteq Event
  /\ acked \subseteq events

Init ==
  /\ status = [p \in Payment |-> "none"]
  /\ intent = [p \in Payment |-> FALSE]
  /\ log = <<>>
  /\ pc = [p \in Payment |-> "idle"]
  /\ asked = {}
  /\ session = [p \in Payment |-> "none"]
  /\ returned = [p \in Payment |-> 0]
  /\ events = {}
  /\ acked = {}

-----------------------------------------------------------------------------
(* POST /payments/checkout-session *)

Goto(p, step) == pc' = [pc EXCEPT ![p] = step]

SetStatus(p, s) == status' = [status EXCEPT ![p] = s]

InsertPayment(p) ==
  /\ p \notin Foreign
  /\ pc[p] = "idle"
  /\ SetStatus(p, "created")
  /\ Goto(p, "inserted")
  /\ UNCHANGED <<intent, log, stripeVars>>

CreateSession(p) ==
  /\ pc[p] = "inserted"
  /\ asked' = asked \cup {p}
  /\ Goto(p, "waiting")
  /\ UNCHANGED <<ledgerVars, session, returned, events, acked>>

SessionAnswers(p) ==
  /\ pc[p] = "waiting"
  /\ session[p] # "none"
  /\ Goto(p, "answered")
  /\ UNCHANGED <<ledgerVars, stripeVars>>

\* The call throws: Stripe refused it, or its answer never came; or the
\* answer carries no url.
SessionThrows(p) ==
  /\ pc[p] = "waiting"
  /\ Failures \/ (p \notin asked /\ session[p] = "none")
  /\ Goto(p, "failing")
  /\ UNCHANGED <<ledgerVars, stripeVars>>

MarkProcessing(p) ==
  /\ pc[p] = "answered"
  /\ SetStatus(p, "processing")
  /\ Goto(p, "marked")
  /\ UNCHANGED <<intent, log, stripeVars>>

\* The statement fails, or commits and its answer is lost.
MarkThrows(p) ==
  /\ Failures
  /\ pc[p] = "answered"
  /\ \/ UNCHANGED status
     \/ SetStatus(p, "processing")
  /\ Goto(p, "failing")
  /\ UNCHANGED <<intent, log, stripeVars>>

Reply(p) ==
  /\ pc[p] = "marked"
  /\ Goto(p, "replied")
  /\ UNCHANGED <<ledgerVars, stripeVars>>

\* Slip: the catch answers without touching the row.
LeftAsItWas(p) == UNCHANGED status

FailedStatus(p) == SetStatus(p, "failed")

MarkFailed(p) ==
  /\ pc[p] = "failing"
  /\ FailedStatus(p)
  /\ Goto(p, "refused")
  /\ UNCHANGED <<intent, log, stripeVars>>

\* The process dies, or a statement outside the try fails.
CheckoutDies(p) ==
  /\ Failures
  /\ pc[p] \notin Over \cup {"idle"}
  /\ Goto(p, "dead")
  /\ UNCHANGED <<ledgerVars, stripeVars>>

-----------------------------------------------------------------------------
(* Stripe and the payer *)

\* The next event of p; events of one payment are told apart by their time.
Emit(p, kind, amount, full) ==
  events' = events \cup
    {[kind |-> kind, pay |-> p, at |-> Cardinality({e \in events : e.pay = p}) + 1,
      amount |-> amount, full |-> full]}

Becomes(p, s) == session' = [session EXCEPT ![p] = s]

StripeOpens(p) ==
  /\ p \in asked
  /\ session[p] = "none"
  /\ asked' = asked \ {p}
  /\ Becomes(p, "open")
  /\ UNCHANGED <<ledgerVars, pc, returned, events, acked>>

StripeDrops(p) ==
  /\ p \in asked
  /\ asked' = asked \ {p}
  /\ UNCHANGED <<ledgerVars, pc, session, returned, events, acked>>

\* The other installation's checkout, as Stripe sees it.
ForeignOpens(p) ==
  /\ p \in Foreign
  /\ session[p] = "none"
  /\ Becomes(p, "open")
  /\ UNCHANGED <<ledgerVars, pc, asked, returned, events, acked>>

\* The payer has the URL of the session only from the handler's answer.
\* Slip: the URL goes out before the payment is marked.
LinkBeforeMark(p) == p \in Foreign \/ pc[p] \in {"answered", "marked", "replied"}

HasLink(p) == p \in Foreign \/ pc[p] = "replied"

Complete(p) ==
  /\ HasLink(p)
  /\ session[p] = "open"
  /\ \/ /\ Becomes(p, "paid")
        /\ Emit(p, "completed_paid", Price[p], FALSE)
     \/ /\ p \in Delayed
        /\ Becomes(p, "awaiting")
        /\ Emit(p, "completed_unpaid", Price[p], FALSE)
  /\ UNCHANGED <<ledgerVars, pc, asked, returned, acked>>

Settle(p) ==
  /\ session[p] = "awaiting"
  /\ \/ /\ Becomes(p, "paid")
        /\ Emit(p, "async_succeeded", Price[p], FALSE)
     \/ /\ Becomes(p, "unpaid")
        /\ Emit(p, "async_failed", Price[p], FALSE)
  /\ UNCHANGED <<ledgerVars, pc, asked, returned, acked>>

\* A day later: no handler of the same session is still running.
Expire(p) ==
  /\ session[p] = "open"
  /\ pc[p] \in Over \/ p \in Foreign
  /\ Becomes(p, "expired")
  /\ Emit(p, "expired", Price[p], FALSE)
  /\ UNCHANGED <<ledgerVars, pc, asked, returned, acked>>

RefundCharge(p) ==
  /\ Refunding
  /\ session[p] = "paid"
  /\ \E n \in 1 .. Price[p] - returned[p] :
       /\ returned' = [returned EXCEPT ![p] = @ + n]
       /\ Emit(p, RefundKind, returned[p] + n, returned[p] + n = Price[p])
  /\ UNCHANGED <<ledgerVars, pc, asked, session, acked>>

\* POST /webhooks/stripe: any event, in any order, any number of times.
Deliver(e) ==
  /\ e \in events
  /\ Apply(e)
  /\ acked' = acked \cup {e}
  /\ UNCHANGED <<pc, asked, session, returned, events>>

-----------------------------------------------------------------------------
CheckoutStep(p) ==
  \/ CreateSession(p) \/ SessionAnswers(p) \/ SessionThrows(p)
  \/ MarkProcessing(p) \/ Reply(p) \/ MarkFailed(p)

StripeStep(p) ==
  \/ Complete(p) \/ Settle(p) \/ Expire(p) \/ RefundCharge(p) \/ ForeignOpens(p)

Next ==
  \/ \E p \in Payment :
       \/ InsertPayment(p) \/ CheckoutStep(p) \/ MarkThrows(p) \/ CheckoutDies(p)
       \/ StripeOpens(p) \/ StripeDrops(p) \/ StripeStep(p)
  \/ \E e \in events : Deliver(e)

Spec == Init /\ [][Next]_vars

\* A handler that does not die runs on, Stripe answers or drops every call,
\* and delivers an event again until the webhook has acknowledged it.
Fairness ==
  /\ \A p \in Payment :
       WF_vars(CheckoutStep(p)) /\ WF_vars(StripeOpens(p) \/ StripeDrops(p))
  /\ WF_vars(\E e \in events \ acked : Deliver(e))

FairSpec == Spec /\ Fairness

-----------------------------------------------------------------------------
(* Safety *)

(***************************************************************************)
(* The ledger never claims money Stripe does not have: a payment shows     *)
(* succeeded only once its session was paid, and refunded only once the    *)
(* whole charge went back, in whatever order its events were delivered.    *)
(***************************************************************************)
NoInventedMoney ==
  \A p \in Payment :
     /\ status[p] \in {"succeeded", "refunded"} => session[p] = "paid"
     /\ status[p] = "refunded" => returned[p] = Price[p]

HasRows(p) == \E e \in Range(log) : e.pay = p

LastSession(p, i) ==
  /\ log[i].pay = p
  /\ log[i].kind # RefundKind
  /\ \A j \in DOMAIN log : j > i /\ log[j].pay = p => log[j].kind = RefundKind

(***************************************************************************)
(* payments is a projection of transactions: once a payment has rows, its  *)
(* status is what its last session event said, or refunded if a full       *)
(* refund was learned after that.                                          *)
(***************************************************************************)
StatusIsLastLearned ==
  \A p \in Payment : HasRows(p) =>
    \E i \in DOMAIN log :
      /\ LastSession(p, i)
      /\ status[p] = IF \E j \in DOMAIN log : j > i /\ log[j].pay = p /\ log[j].full
                     THEN "refunded"
                     ELSE StatusOf[log[i].kind]

(***************************************************************************)
(* When Stripe holds the money and every event about it has been           *)
(* acknowledged, the payment shows it, whatever the order of deliveries.   *)
(***************************************************************************)
SettledShows ==
  \A p \in Payment \ Foreign :
     /\ session[p] = "paid"
     /\ \A e \in events : e.pay = p => e \in acked
     => status[p] \in {"succeeded", "refunded"}

-----------------------------------------------------------------------------
(* What a step may never do *)

(***************************************************************************)
(* "Only the webhook promotes a payment past processing": once Stripe's    *)
(* word on a payment is in the log, the checkout handler, however late its *)
(* updates run, does not write over it.                                    *)
(***************************************************************************)
CheckoutKeepsVerdict ==
  [][\A p \in Payment : HasRows(p) /\ status'[p] # status[p] => log' # log]_vars

-----------------------------------------------------------------------------
(* Refinement *)

Lifecycle == INSTANCE PaymentLifecycle WITH stage <- status

(***************************************************************************)
(* With cards alone, the checkout handler and at-least-once deliveries in  *)
(* any order move the status only along the lifecycle of a payment.        *)
(***************************************************************************)
KeepsLifecycle == Lifecycle!Spec

-----------------------------------------------------------------------------
(* Liveness *)

(***************************************************************************)
(* The outcome of every session reaches its payment: paid shows as         *)
(* succeeded (and later perhaps refunded), expired as canceled.            *)
(***************************************************************************)
OutcomeShows ==
  \A p \in Payment \ Foreign :
     /\ session[p] = "paid" ~> status[p] \in {"succeeded", "refunded"}
     /\ session[p] = "expired" ~> status[p] = "canceled"

(***************************************************************************)
(* "No payment row is left stranded in created": unless its handler died,  *)
(* a payment that was inserted moves on, also when Stripe refuses.         *)
(***************************************************************************)
CreatedIsLeft ==
  \A p \in Payment : status[p] = "created" ~> status[p] # "created" \/ pc[p] = "dead"
=============================================================================
