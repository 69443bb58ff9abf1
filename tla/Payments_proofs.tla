--------------------------- MODULE Payments_proofs ---------------------------
(***************************************************************************)
(* Proofs about Payments and the Reconciler that reads its tables, for any *)
(* number of payments, of any price, with any number of refunds, failures  *)
(* and repeated deliveries in any order.                                   *)
(*                                                                         *)
(* Events are old news when they arrive, so everything rests on what an    *)
(* event says for good: that a session was paid or has expired, or that a  *)
(* charge has gone back (StripeSays), and that by the time there is an     *)
(* event the handler of the checkout is over.  CardSteps adds, for         *)
(* payments that settle at once, what the status can be at each step of    *)
(* the handler and after the one event that ends the session.              *)
(*                                                                         *)
(* The reconciler's part needs none of that, since a status may be edited  *)
(* by hand there: it rests on the times of the events (Told), which order  *)
(* what the log does not.                                                  *)
(***************************************************************************)
EXTENDS Reconciler, FiniteSetTheorems, TLAPS

Types ==
  /\ status \in [Payment -> Statuses]
  /\ intent \in [Payment -> BOOLEAN]
  /\ log \in Seq(Event)
  /\ pc \in [Payment -> CheckoutSteps]
  /\ session \in [Payment -> SessionStates]
  /\ returned \in [Payment -> Nat]
  /\ events \in SUBSET Event
  /\ IsFiniteSet(events)
  /\ Range(log) \subseteq events

PaidKinds == {"completed_paid", "async_succeeded"}
LateKinds == {"completed_unpaid", "async_succeeded", "async_failed"}

StripeSays ==
  /\ \A p \in Payment :
       /\ returned[p] <= Price[p]
       /\ session[p] \in {"awaiting", "unpaid"} => p \in Delayed
       /\ session[p] \in {"awaiting", "paid", "unpaid"} => p \in Foreign \/ pc[p] = "replied"
  /\ \A e \in events :
       /\ e.kind \in PaidKinds => session[e.pay] = "paid"
       /\ e.kind \in LateKinds => e.pay \in Delayed
       /\ e.kind = "expired" => session[e.pay] = "expired"
       /\ e.kind = RefundKind => session[e.pay] = "paid"
       /\ e.kind = RefundKind /\ e.full => returned[e.pay] = Price[e.pay]
       /\ e.pay \in Foreign \/ pc[e.pay] \in Over

\* What another installation issued is not in these tables.
NotOurs == \A p \in Foreign : pc[p] = "idle" /\ status[p] = "none" /\ ~intent[p]

MoneyInductive == Types /\ StripeSays /\ NotOurs /\ NoInventedMoney

-----------------------------------------------------------------------------
LEMMA Prices ==
  /\ \A p \in Payment : Price[p] \in Nat \ {0}
  /\ Foreign \subseteq Payment /\ Delayed \subseteq Payment
BY PriceAssumption, PaymentsAssumption

LEMMA KindsAre ==
  /\ SessionKinds = {"completed_paid", "completed_unpaid", "async_succeeded", "async_failed",
                     "expired"}
  /\ Kinds = SessionKinds \cup {RefundKind}
  /\ RefundKind \notin SessionKinds
  /\ \A k \in SessionKinds : StatusOf[k] \in {"succeeded", "processing", "failed", "canceled"}
  /\ \A k \in SessionKinds : StatusOf[k] = "succeeded" => k \in PaidKinds
BY DEF SessionKinds, Kinds, RefundKind, StatusOf, PaidKinds

LEMMA RangeAppend ==
  ASSUME NEW S, NEW s \in Seq(S), NEW e \in S
  PROVE  /\ Append(s, e) \in Seq(S)
         /\ Range(Append(s, e)) = Range(s) \cup {e}
         /\ Append(s, e) # s
<1>1. /\ Append(s, e) \in Seq(S)
      /\ Len(s) \in Nat /\ DOMAIN s = 1 .. Len(s)
      /\ Len(Append(s, e)) = Len(s) + 1 /\ DOMAIN Append(s, e) = 1 .. Len(s) + 1
      /\ \A i \in 1 .. Len(s) : Append(s, e)[i] = s[i]
      /\ Append(s, e)[Len(s) + 1] = e
  OBVIOUS
<1>2. Range(Append(s, e)) = Range(s) \cup {e}
  BY <1>1 DEF Range
<1>3. Append(s, e) # s
  <2>1. Len(s) \in Nat /\ Len(Append(s, e)) = Len(s) + 1
    BY <1>1
  <2>2. ASSUME NEW n \in Nat PROVE n + 1 # n
    OBVIOUS
  <2>3. QED
    BY <2>1, <2>2, Zenon
<1>4. QED
  BY <1>1, <1>2, <1>3

\* A new event is an event, whatever its time.
LEMMA Emitted ==
  ASSUME Types, NEW p \in Payment, NEW kind \in Kinds, NEW amount \in Nat, NEW full \in BOOLEAN,
         Emit(p, kind, amount, full)
  PROVE  \E e \in Event :
           /\ e.kind = kind /\ e.pay = p /\ (full = FALSE => e.full = FALSE)
           /\ events' = events \cup {e}
           /\ events' \in SUBSET Event /\ IsFiniteSet(events')
<1> DEFINE mine == {e \in events : e.pay = p}
           e == [kind |-> kind, pay |-> p, at |-> Cardinality(mine) + 1, amount |-> amount,
                 full |-> full]
<1>1. IsFiniteSet(mine)
  BY FS_Subset DEF Types
<1>2. Cardinality(mine) \in Nat
  BY <1>1, FS_CardinalityType
<1>3. e \in Event
  BY <1>2 DEF Event
<1>4. events' = events \cup {e}
  BY DEF Emit
<1>5. IsFiniteSet(events')
  BY <1>4, FS_AddElement DEF Types
<1>6. events' \in SUBSET Event
  BY <1>3, <1>4 DEF Types
<1>7. QED
  BY <1>3, <1>4, <1>5, <1>6

LEMMA InitMoney == Init => MoneyInductive
<1> SUFFICES ASSUME Init PROVE MoneyInductive
  OBVIOUS
<1> USE Prices DEF Init
<1>1. Types
  <2>1. IsFiniteSet(events) /\ log \in Seq(Event)
    BY FS_EmptySet
  <2>2. Range(log) \subseteq events
    BY DEF Range
  <2>3. QED
    BY <2>1, <2>2 DEF Types, Statuses, CheckoutSteps, SessionStates
<1>2. StripeSays /\ NotOurs /\ NoInventedMoney
  BY DEF StripeSays, NotOurs, NoInventedMoney
<1>3. QED
  BY <1>1, <1>2 DEF MoneyInductive

-----------------------------------------------------------------------------
(* Steps of the checkout handler: money is only ever set by the webhook *)

HandlerStep(p) ==
  \/ InsertPayment(p) \/ CreateSession(p) \/ SessionAnswers(p) \/ SessionThrows(p)
  \/ MarkProcessing(p) \/ Reply(p) \/ MarkFailed(p) \/ MarkThrows(p) \/ CheckoutDies(p)

LEMMA HandlerWrites ==
  ASSUME Types, NEW p \in Payment, HandlerStep(p)
  PROVE  /\ \E step \in CheckoutSteps : pc' = [pc EXCEPT ![p] = step]
         /\ pc[p] \notin Over
         /\ \/ status' = status
            \/ \E s \in {"created", "processing", "failed"} : status' = [status EXCEPT ![p] = s]
         /\ pc[p] = "idle" => p \notin Foreign
         /\ UNCHANGED <<intent, log, session, returned, events>>
BY DEF HandlerStep, InsertPayment, CreateSession, SessionAnswers, SessionThrows, MarkProcessing,
   Reply, MarkFailed, MarkThrows, CheckoutDies, Goto, SetStatus, FailedStatus, CheckoutSteps, Over,
   stripeVars, ledgerVars, Types

LEMMA HandlerMoney ==
  ASSUME MoneyInductive, NEW p \in Payment, HandlerStep(p)
  PROVE  MoneyInductive'
<1> USE Prices DEF MoneyInductive
<1>1. Types
  OBVIOUS
<1>2. PICK step \in CheckoutSteps : pc' = [pc EXCEPT ![p] = step]
  BY <1>1, HandlerWrites
<1>3. /\ pc[p] \notin Over
      /\ UNCHANGED <<intent, log, session, returned, events>>
      /\ p \notin Foreign
  BY <1>1, HandlerWrites DEF NotOurs
<1>4. PICK s \in {status[p], "created", "processing", "failed"} :
        status' = [status EXCEPT ![p] = s]
  <2>1. CASE status' = status
    BY <2>1, <1>1 DEF Types
  <2>2. CASE status' # status
    BY <2>2, <1>1, HandlerWrites
  <2>3. QED
    BY <2>1, <2>2
<1>5. Types'
  BY <1>1, <1>2, <1>3, <1>4 DEF Types, Statuses
<1>6. StripeSays'
  BY <1>1, <1>2, <1>3 DEF Types, StripeSays, Over
<1>7. NotOurs'
  BY <1>1, <1>2, <1>3, <1>4 DEF Types, NotOurs
<1>8. NoInventedMoney'
  BY <1>1, <1>3, <1>4 DEF Types, NoInventedMoney
<1>9. QED
  BY <1>5, <1>6, <1>7, <1>8

-----------------------------------------------------------------------------
(* Steps of Stripe and the payer *)

LEMMA OpenMoney ==
  ASSUME MoneyInductive, NEW p \in Payment, StripeOpens(p) \/ ForeignOpens(p)
  PROVE  MoneyInductive'
<1>1. /\ session[p] = "none" /\ session' = [session EXCEPT ![p] = "open"]
      /\ UNCHANGED <<status, intent, log, pc, returned, events>>
  BY DEF StripeOpens, ForeignOpens, Becomes, ledgerVars
<1>2. Types'
  BY <1>1 DEF MoneyInductive, Types, SessionStates
<1>3. StripeSays'
  BY <1>1 DEF MoneyInductive, Types, StripeSays
<1>4. NotOurs' /\ NoInventedMoney'
  BY <1>1 DEF MoneyInductive, Types, NotOurs, NoInventedMoney
<1>5. QED
  BY <1>2, <1>3, <1>4 DEF MoneyInductive

\* A session that is open, or awaits its money, comes to another state and an
\* event says so.
Outcome(p, kind, s) ==
  /\ session[p] \in {"open", "awaiting"}
  /\ Becomes(p, s) /\ Emit(p, kind, Price[p], FALSE)
  /\ kind \in PaidKinds => s = "paid"
  /\ kind \in LateKinds => p \in Delayed
  /\ kind = "expired" => s = "expired"
  /\ s \in {"awaiting", "unpaid"} => p \in Delayed
  /\ s \in {"awaiting", "paid", "unpaid"} => p \in Foreign \/ pc[p] = "replied"
  /\ p \in Foreign \/ pc[p] \in Over
  /\ UNCHANGED <<status, intent, log, pc, returned>>

LEMMA Outcomes ==
  ASSUME MoneyInductive, NEW p \in Payment, Complete(p) \/ Settle(p) \/ Expire(p)
  PROVE  \E kind \in SessionKinds, s \in SessionStates : Outcome(p, kind, s)
<1> USE KindsAre DEF Outcome, SessionStates, PaidKinds, LateKinds
<1>1. CASE Complete(p)
  <2>1. p \in Foreign \/ (pc[p] = "replied" /\ pc[p] \in Over)
    BY <1>1 DEF Complete, HasLink, Over
  <2>2. \/ Becomes(p, "paid") /\ Emit(p, "completed_paid", Price[p], FALSE)
        \/ /\ p \in Delayed
           /\ Becomes(p, "awaiting") /\ Emit(p, "completed_unpaid", Price[p], FALSE)
    BY <1>1 DEF Complete
  <2>3. session[p] = "open" /\ UNCHANGED <<status, intent, log, pc, returned>>
    BY <1>1 DEF Complete, ledgerVars
  <2>4. CASE Becomes(p, "paid") /\ Emit(p, "completed_paid", Price[p], FALSE)
    <3>1. Outcome(p, "completed_paid", "paid")
      BY <2>1, <2>3, <2>4
    <3>2. QED
      BY <3>1
  <2>5. CASE /\ p \in Delayed
             /\ Becomes(p, "awaiting") /\ Emit(p, "completed_unpaid", Price[p], FALSE)
    <3>1. Outcome(p, "completed_unpaid", "awaiting")
      BY <2>1, <2>3, <2>5
    <3>2. QED
      BY <3>1
  <2>6. QED
    BY <2>2, <2>4, <2>5
<1>2. CASE Settle(p)
  <2>1. session[p] = "awaiting" /\ UNCHANGED <<status, intent, log, pc, returned>>
    BY <1>2 DEF Settle, ledgerVars
  <2>2. p \in Delayed /\ (p \in Foreign \/ (pc[p] = "replied" /\ pc[p] \in Over))
    BY <2>1 DEF MoneyInductive, StripeSays, Over
  <2>3. CASE Becomes(p, "paid") /\ Emit(p, "async_succeeded", Price[p], FALSE)
    <3>1. Outcome(p, "async_succeeded", "paid")
      BY <2>1, <2>2, <2>3
    <3>2. QED
      BY <3>1
  <2>4. CASE Becomes(p, "unpaid") /\ Emit(p, "async_failed", Price[p], FALSE)
    <3>1. Outcome(p, "async_failed", "unpaid")
      BY <2>1, <2>2, <2>4
    <3>2. QED
      BY <3>1
  <2>5. QED
    BY <1>2, <2>3, <2>4 DEF Settle
<1>3. CASE Expire(p)
  <2>1. Outcome(p, "expired", "expired")
    BY <1>3 DEF Expire, ledgerVars
  <2>2. QED
    BY <2>1
<1>4. QED
  BY <1>1, <1>2, <1>3

LEMMA OutcomeMoney ==
  ASSUME MoneyInductive, NEW p \in Payment, NEW kind \in SessionKinds, NEW s \in SessionStates,
         Outcome(p, kind, s)
  PROVE  MoneyInductive'
<1> USE DEF MoneyInductive
<1>1. PICK e \in Event :
        /\ e.kind = kind /\ e.pay = p /\ events' = events \cup {e}
        /\ events' \in SUBSET Event /\ IsFiniteSet(events')
  <2>1. kind \in Kinds /\ Price[p] \in Nat /\ FALSE \in BOOLEAN
    BY KindsAre, Prices
  <2>2. Types /\ Emit(p, kind, Price[p], FALSE)
    BY DEF Outcome
  <2>3. QED
    BY <2>1, <2>2, Emitted, Zenon
<1>2. /\ session[p] \in {"open", "awaiting"} /\ session' = [session EXCEPT ![p] = s]
      /\ UNCHANGED <<status, intent, log, pc, returned>>
  BY DEF Outcome, Becomes
<1>3. Types'
  BY <1>1, <1>2 DEF Types
<1>4. StripeSays'
  <2>1. \A q \in Payment :
          /\ returned[q] <= Price[q]
          /\ session'[q] \in {"awaiting", "unpaid"} => q \in Delayed
          /\ session'[q] \in {"awaiting", "paid", "unpaid"} => q \in Foreign \/ pc[q] = "replied"
    BY <1>2 DEF Types, StripeSays, Outcome
  <2>2. ASSUME NEW f \in events'
        PROVE  /\ f.kind \in PaidKinds => session'[f.pay] = "paid"
               /\ f.kind \in LateKinds => f.pay \in Delayed
               /\ f.kind = "expired" => session'[f.pay] = "expired"
               /\ f.kind = RefundKind => session'[f.pay] = "paid"
               /\ f.kind = RefundKind /\ f.full => returned[f.pay] = Price[f.pay]
               /\ f.pay \in Foreign \/ pc[f.pay] \in Over
    <3>1. CASE f = e
      BY <3>1, <1>1, <1>2, KindsAre DEF Types, Outcome
    <3>2. CASE f \in events
      BY <3>2, <1>2 DEF Types, StripeSays, Event
    <3>3. QED
      BY <1>1, <3>1, <3>2
  <2>3. QED
    BY <1>2, <2>1, <2>2 DEF StripeSays
<1>5. NotOurs' /\ NoInventedMoney'
  BY <1>2 DEF Types, NotOurs, NoInventedMoney
<1>6. QED
  BY <1>3, <1>4, <1>5

LEMMA RefundMoney ==
  ASSUME MoneyInductive, NEW p \in Payment, RefundCharge(p)
  PROVE  MoneyInductive'
<1> USE DEF MoneyInductive
<1>1. PICK n \in 1 .. Price[p] - returned[p] :
        /\ returned' = [returned EXCEPT ![p] = @ + n]
        /\ Emit(p, RefundKind, returned[p] + n, returned[p] + n = Price[p])
  BY DEF RefundCharge
<1>2. /\ session[p] = "paid" /\ UNCHANGED <<status, intent, log, pc, session>>
      /\ Price[p] \in Nat /\ returned[p] \in Nat /\ n \in Nat \ {0}
      /\ returned[p] + n <= Price[p] /\ returned'[p] = returned[p] + n
  BY <1>1, Prices DEF RefundCharge, ledgerVars, Types
<1>3. PICK amount \in Nat, full \in BOOLEAN :
        /\ Emit(p, RefundKind, amount, full)
        /\ full => returned[p] + n = Price[p]
  <2>1. (returned[p] + n = Price[p]) \in BOOLEAN /\ returned[p] + n \in Nat
    BY <1>2
  <2>2. QED
    BY <1>1, <2>1
<1>4. PICK e \in Event :
        /\ e.kind = RefundKind /\ e.pay = p /\ (e.full => full)
        /\ events' = events \cup {e}
        /\ events' \in SUBSET Event /\ IsFiniteSet(events')
  <2>1. RefundKind \in Kinds /\ Types /\ TRUE \in BOOLEAN /\ FALSE \in BOOLEAN
    BY KindsAre
  <2>2. CASE full = TRUE
    <3>1. Emit(p, RefundKind, amount, TRUE)
      BY <1>3, <2>2
    <3>2. \E e \in Event :
            /\ e.kind = RefundKind /\ e.pay = p
            /\ events' = events \cup {e}
            /\ events' \in SUBSET Event /\ IsFiniteSet(events')
      BY <2>1, <3>1, Emitted, Zenon
    <3>3. QED
      BY <2>2, <3>2
  <2>3. CASE full = FALSE
    <3>1. Emit(p, RefundKind, amount, FALSE)
      BY <1>3, <2>3
    <3>2. \E e \in Event :
            /\ e.kind = RefundKind /\ e.pay = p /\ (FALSE = FALSE => e.full = FALSE)
            /\ events' = events \cup {e}
            /\ events' \in SUBSET Event /\ IsFiniteSet(events')
      BY <2>1, <3>1, Emitted, Zenon
    <3>3. QED
      BY <2>3, <3>2
  <2>4. QED
    BY <2>2, <2>3
<1>5. Types'
  BY <1>1, <1>2, <1>4 DEF Types
<1>6. \A q \in Payment : returned'[q] <= Price[q] /\ (returned[q] = Price[q] => returned'[q] = Price[q])
  BY <1>1, <1>2 DEF Types, StripeSays
<1>7. StripeSays'
  <2>1. ASSUME NEW f \in events'
        PROVE  /\ f.kind \in PaidKinds => session[f.pay] = "paid"
               /\ f.kind \in LateKinds => f.pay \in Delayed
               /\ f.kind = "expired" => session[f.pay] = "expired"
               /\ f.kind = RefundKind => session[f.pay] = "paid"
               /\ f.kind = RefundKind /\ f.full => returned'[f.pay] = Price[f.pay]
               /\ f.pay \in Foreign \/ pc[f.pay] \in Over
    <3>1. CASE f = e
      BY <3>1, <1>2, <1>3, <1>4 DEF StripeSays, PaidKinds, LateKinds, RefundKind, Over
    <3>2. CASE f \in events
      BY <3>2, <1>6 DEF Types, StripeSays, Event
    <3>3. QED
      BY <1>4, <3>1, <3>2
  <2>2. QED
    BY <1>2, <1>6, <2>1 DEF StripeSays
<1>8. NotOurs' /\ NoInventedMoney'
  BY <1>2, <1>6 DEF NotOurs, NoInventedMoney
<1>9. QED
  BY <1>5, <1>7, <1>8

-----------------------------------------------------------------------------
(* Deliveries *)

\* An event that is not refused is written to the log and to its payment.
LEMMA DeliveryWrites ==
  ASSUME Types, NEW e \in events, Deliver(e)
  PROVE  /\ UNCHANGED <<pc, session, returned, events>>
         /\ \/ UNCHANGED <<status, intent, log>>
            \/ /\ e \notin Range(log) /\ log' = Append(log, e)
               /\ \/ /\ e.kind # RefundKind /\ status[e.pay] # "none"
                     /\ status' = [status EXCEPT ![e.pay] = StatusOf[e.kind]]
                     /\ intent' = [intent EXCEPT ![e.pay] = CarriesIntent(e) \/ @]
                  \/ /\ e.kind = RefundKind /\ intent[e.pay]
                     /\ status' = [status EXCEPT ![e.pay] = AfterRefund(@, e.full)]
                     /\ intent' = intent
BY DEF Deliver, Apply, RecordSession, RecordRefund, Recorded, Known, ledgerVars

LEMMA DeliveryTypes ==
  ASSUME Types, NEW e \in events, Deliver(e)
  PROVE  Types'
<1>1. e \in Event /\ e.pay \in Payment /\ e.kind \in Kinds
  BY DEF Types, Event
<1>2. log' = log \/ log' = Append(log, e)
  BY DeliveryWrites
<1>3. log' \in Seq(Event) /\ Range(log') \subseteq events
  <2>1. log \in Seq(Event) /\ Range(log) \subseteq events
    BY DEF Types
  <2>2. CASE log' = Append(log, e)
    <3>1. Append(log, e) \in Seq(Event) /\ Range(Append(log, e)) = Range(log) \cup {e}
      BY <1>1, <2>1, RangeAppend
    <3>2. QED
      BY <2>1, <2>2, <3>1
  <2>3. CASE log' = log
    <3>1. Range(log') = Range(log)
      BY <2>3 DEF Range
    <3>2. QED
      BY <2>1, <2>3, <3>1
  <2>4. QED
    BY <1>2, <2>2, <2>3
<1>4. status' \in [Payment -> Statuses]
  <2>1. CASE status' = status
    BY <2>1 DEF Types
  <2>2. CASE e.kind # RefundKind /\ status' = [status EXCEPT ![e.pay] = StatusOf[e.kind]]
    BY <2>2, <1>1, KindsAre DEF Types, Statuses
  <2>3. CASE status' = [status EXCEPT ![e.pay] = AfterRefund(@, e.full)]
    BY <2>3, <1>1 DEF Types, Statuses, AfterRefund
  <2>4. QED
    BY <2>1, <2>2, <2>3, DeliveryWrites
<1>5. intent' \in [Payment -> BOOLEAN]
  <2>1. CASE intent' = intent
    BY <2>1 DEF Types
  <2>2. CASE intent' = [intent EXCEPT ![e.pay] = CarriesIntent(e) \/ @]
    <3>1. (CarriesIntent(e) \/ intent[e.pay]) \in BOOLEAN
      BY DEF CarriesIntent
    <3>2. intent \in [Payment -> BOOLEAN]
      BY DEF Types
    <3>3. QED
      BY <2>2, <3>1, <3>2, <1>1, Zenon
  <2>3. QED
    BY <2>1, <2>2, DeliveryWrites
<1>6. QED
  BY <1>3, <1>4, <1>5, DeliveryWrites DEF Types

LEMMA DeliverMoney ==
  ASSUME MoneyInductive, NEW e \in events, Deliver(e)
  PROVE  MoneyInductive'
<1> USE DEF MoneyInductive
<1>1. Types' /\ e \in Event /\ e.pay \in Payment /\ e.kind \in Kinds
  BY DeliveryTypes DEF Types, Event
<1>2. UNCHANGED <<pc, session, returned, events>>
  BY DeliveryWrites
<1>3. StripeSays'
  BY <1>2 DEF StripeSays
<1>4. NotOurs'
  <2>1. CASE UNCHANGED <<status, intent, log>>
    BY <2>1, <1>2 DEF NotOurs
  <2>2. CASE e.pay \notin Foreign /\ status' \in [Payment -> Statuses]
             /\ \A q \in Payment \ {e.pay} : status'[q] = status[q] /\ intent'[q] = intent[q]
    BY <2>2, <1>2, Prices DEF NotOurs
  <2>3. CASE ~ UNCHANGED <<status, intent, log>>
    <3>1. e.pay \notin Foreign
      BY <2>3, DeliveryWrites DEF NotOurs
    <3>2. \A q \in Payment \ {e.pay} : status'[q] = status[q] /\ intent'[q] = intent[q]
      BY <2>3, <1>1, DeliveryWrites DEF Types
    <3>3. QED
      BY <1>1, <3>1, <3>2, <2>2 DEF Types
  <2>4. QED
    BY <2>1, <2>3
<1>5. NoInventedMoney'
  <2> SUFFICES ASSUME NEW q \in Payment
               PROVE  /\ status'[q] \in {"succeeded", "refunded"} => session[q] = "paid"
                      /\ status'[q] = "refunded" => returned[q] = Price[q]
    BY <1>2 DEF NoInventedMoney
  <2>1. CASE status'[q] = status[q]
    BY <2>1 DEF NoInventedMoney
  <2>2. CASE status'[q] # status[q]
    <3>1. q = e.pay
      BY <2>2, <1>1, DeliveryWrites DEF Types
    <3>2. \/ e.kind # RefundKind /\ status'[q] = StatusOf[e.kind]
          \/ e.kind = RefundKind /\ e.full /\ status'[q] = "refunded"
      BY <2>2, <3>1, <1>1, DeliveryWrites DEF Types, AfterRefund
    <3>3. QED
      BY <3>1, <3>2, <1>1, KindsAre DEF StripeSays
  <2>3. QED
    BY <2>1, <2>2
<1>6. QED
  BY <1>1, <1>3, <1>4, <1>5

-----------------------------------------------------------------------------
LEMMA MoneyStep == MoneyInductive /\ [Next]_vars => MoneyInductive'
<1> SUFFICES ASSUME MoneyInductive, [Next]_vars PROVE MoneyInductive'
  OBVIOUS
<1>1. ASSUME NEW p \in Payment, HandlerStep(p) PROVE MoneyInductive'
  BY <1>1, HandlerMoney
<1>2. ASSUME NEW p \in Payment, StripeOpens(p) \/ ForeignOpens(p) PROVE MoneyInductive'
  BY <1>2, OpenMoney
<1>3. ASSUME NEW p \in Payment, Complete(p) \/ Settle(p) \/ Expire(p) PROVE MoneyInductive'
  BY <1>3, Outcomes, OutcomeMoney
<1>4. ASSUME NEW p \in Payment, RefundCharge(p) PROVE MoneyInductive'
  BY <1>4, RefundMoney
<1>5. ASSUME NEW e \in events, Deliver(e) PROVE MoneyInductive'
  BY <1>5, DeliverMoney
<1>6. CASE UNCHANGED vars \/ \E p \in Payment : StripeDrops(p)
  <2>1. UNCHANGED <<status, intent, log, pc, session, returned, events>>
    BY <1>6 DEF StripeDrops, vars, ledgerVars, stripeVars
  <2>2. QED
    BY <2>1 DEF MoneyInductive, Types, StripeSays, NotOurs, NoInventedMoney
<1>7. QED
  BY <1>1, <1>2, <1>3, <1>4, <1>5, <1>6 DEF Next, HandlerStep, CheckoutStep, StripeStep

LEMMA MoneyInductiveHolds == Spec => []MoneyInductive
BY InitMoney, MoneyStep, PTL DEF Spec

(***************************************************************************)
(* The ledger never claims money Stripe does not have, for any payments,   *)
(* cards or not, with repeated deliveries in any order.                    *)
(***************************************************************************)
THEOREM NoInventedMoneyHolds == Spec => []NoInventedMoney
<1>1. MoneyInductive => NoInventedMoney
  BY DEF MoneyInductive
<1>2. QED
  BY <1>1, MoneyInductiveHolds, PTL

-----------------------------------------------------------------------------
(* Whose word counts *)

\* What Stripe's steps leave alone.
LEMMA StripeWrites ==
  ASSUME NEW p \in Payment,
         StripeOpens(p) \/ StripeDrops(p) \/ StripeStep(p) \/ UNCHANGED vars
  PROVE  UNCHANGED <<status, intent, log, pc>>
BY DEF StripeOpens, StripeDrops, StripeStep, Complete, Settle, Expire, RefundCharge, ForeignOpens,
   vars, ledgerVars, stripeVars

\* By the time there is an event the handler is over, so only a delivery
\* changes the status of a payment that has rows.
LEMMA VerdictStays ==
  MoneyInductive /\ [Next]_vars =>
    \A p \in Payment : HasRows(p) /\ status'[p] # status[p] => log' # log
<1> SUFFICES ASSUME MoneyInductive, [Next]_vars,
                    NEW p \in Payment, HasRows(p), status'[p] # status[p]
             PROVE  log' # log
  OBVIOUS
<1>1. Types /\ status # status'
  BY DEF MoneyInductive
<1>2. p \in Foreign \/ pc[p] \in Over
  BY DEF HasRows, MoneyInductive, Types, StripeSays
<1>3. ASSUME NEW q \in Payment, HandlerStep(q) PROVE FALSE
  <2>1. pc[q] \notin Over /\ (pc[q] = "idle" => q \notin Foreign)
    BY <1>1, <1>3, HandlerWrites
  <2>2. q \notin Foreign
    BY <2>1 DEF MoneyInductive, NotOurs
  <2>3. q = p
    BY <1>1, <1>3, HandlerWrites DEF Types
  <2>4. QED
    BY <1>2, <2>1, <2>2, <2>3
<1>4. ASSUME NEW e \in events, Deliver(e) PROVE log' # log
  <2>1. log' = Append(log, e)
    BY <1>1, <1>4, DeliveryWrites
  <2>2. log \in Seq(Event) /\ e \in Event
    BY <1>1 DEF Types
  <2>3. QED
    BY <2>1, <2>2, RangeAppend
<1>5. CASE UNCHANGED vars \/ \E q \in Payment : StripeOpens(q) \/ StripeDrops(q) \/ StripeStep(q)
  BY <1>1, <1>5, StripeWrites
<1>6. QED
  BY <1>3, <1>4, <1>5 DEF Next, HandlerStep, CheckoutStep

(***************************************************************************)
(* Once Stripe's word on a payment is in the log, no late update of the    *)
(* checkout handler writes over it: by the time there is an event, the     *)
(* handler is over.                                                        *)
(***************************************************************************)
THEOREM CheckoutKeepsVerdictHolds == Spec => CheckoutKeepsVerdict
BY VerdictStays, MoneyInductiveHolds, PTL DEF Spec, CheckoutKeepsVerdict

-----------------------------------------------------------------------------
(* payments is a projection of transactions *)

\* What the log says of p, with i for its last session event.
Projects(p, i) ==
  /\ LastSession(p, i)
  /\ status[p] = IF \E j \in DOMAIN log : j > i /\ log[j].pay = p /\ log[j].full
                 THEN "refunded"
                 ELSE StatusOf[log[i].kind]

\* A refund finds its payment by the intent a session event brought, so the
\* first row of a payment is never a refund's.
SessionRowFirst == \A p \in Payment : intent[p] => HasRows(p)

Projected == StatusIsLastLearned /\ SessionRowFirst

LEMMA RowsAre == \A p : HasRows(p) <=> \E i \in DOMAIN log : log[i].pay = p
BY DEF HasRows, Range

LEMMA AppendRow ==
  ASSUME NEW S, NEW s \in Seq(S), NEW e \in S
  PROVE  /\ Len(s) \in Nat /\ DOMAIN s = 1 .. Len(s)
         /\ DOMAIN Append(s, e) = 1 .. Len(s) + 1
         /\ \A i \in 1 .. Len(s) : Append(s, e)[i] = s[i]
         /\ Append(s, e)[Len(s) + 1] = e
OBVIOUS

\* Only a delivery writes a row, or the intent that refunds are found by.
LEMMA OnlyDeliveriesWrite ==
  ASSUME Types, [Next]_vars, \A e \in events : ~Deliver(e)
  PROVE  UNCHANGED <<intent, log>>
<1>1. ASSUME NEW p \in Payment, HandlerStep(p) PROVE UNCHANGED <<intent, log>>
  BY <1>1, HandlerWrites
<1>2. CASE UNCHANGED vars \/ \E p \in Payment : StripeOpens(p) \/ StripeDrops(p) \/ StripeStep(p)
  <2>1. CASE UNCHANGED vars
    BY <2>1 DEF vars, ledgerVars
  <2>2. ASSUME NEW p \in Payment, StripeOpens(p) \/ StripeDrops(p) \/ StripeStep(p)
        PROVE  UNCHANGED <<intent, log>>
    BY <2>2, StripeWrites
  <2>3. QED
    BY <1>2, <2>1, <2>2
<1>3. QED
  BY <1>1, <1>2 DEF Next, HandlerStep, CheckoutStep

\* A row of another payment says nothing of p.
LEMMA OthersRow ==
  ASSUME Types, NEW p \in Payment, NEW e \in Event, e.pay # p, log' = Append(log, e),
         status'[p] = status[p], NEW i \in DOMAIN log, Projects(p, i)
  PROVE  i \in DOMAIN log' /\ Projects(p, i)'
<1>1. /\ Len(log) \in Nat /\ DOMAIN log = 1 .. Len(log) /\ DOMAIN log' = 1 .. Len(log) + 1
      /\ \A j \in 1 .. Len(log) : log'[j] = log[j]
      /\ log'[Len(log) + 1] = e
  BY AppendRow DEF Types
<1>2. /\ i \in DOMAIN log' /\ log'[i] = log[i]
      /\ \A j \in DOMAIN log' : log'[j].pay = p => j \in DOMAIN log /\ log'[j] = log[j]
      /\ \A j \in DOMAIN log : j \in DOMAIN log' /\ log'[j] = log[j]
  BY <1>1
<1>3. LastSession(p, i)'
  BY <1>2 DEF Projects, LastSession
<1>4. (\E j \in DOMAIN log' : j > i /\ log'[j].pay = p /\ log'[j].full)
        <=> (\E j \in DOMAIN log : j > i /\ log[j].pay = p /\ log[j].full)
  BY <1>2
<1>5. QED
  BY <1>2, <1>3, <1>4 DEF Projects

\* A session event is its payment's last word.
LEMMA SessionRow ==
  ASSUME Types, NEW e \in Event, e.kind # RefundKind, log' = Append(log, e),
         status'[e.pay] = StatusOf[e.kind]
  PROVE  \E i \in DOMAIN log' : Projects(e.pay, i)'
<1>1. PICK i \in Nat : DOMAIN log' = 1 .. i /\ log'[i] = e
  BY AppendRow DEF Types
<1>2. i \in DOMAIN log' /\ \A j \in DOMAIN log' : ~(j > i)
  <2>1. i # 0
    BY <1>1, AppendRow DEF Types
  <2>2. QED
    BY <1>1, <2>1
<1>3. LastSession(e.pay, i)'
  BY <1>1, <1>2 DEF LastSession
<1>4. Projects(e.pay, i)'
  BY <1>1, <1>2, <1>3 DEF Projects
<1>5. QED
  BY <1>2, <1>4

\* A refund leaves the last word where it was, and closes or does not.
LEMMA RefundRow ==
  ASSUME Types, NEW e \in Event, e.kind = RefundKind, log' = Append(log, e),
         status'[e.pay] = AfterRefund(status[e.pay], e.full),
         NEW i \in DOMAIN log, Projects(e.pay, i)
  PROVE  i \in DOMAIN log' /\ Projects(e.pay, i)'
<1> DEFINE last == Len(log) + 1
<1>1. /\ Len(log) \in Nat /\ DOMAIN log = 1 .. Len(log) /\ DOMAIN log' = 1 .. last
      /\ \A j \in 1 .. Len(log) : log'[j] = log[j]
      /\ log'[last] = e
  BY AppendRow DEF Types
<1>2. /\ i \in DOMAIN log' /\ log'[i] = log[i] /\ last \in DOMAIN log' /\ last > i
      /\ \A j \in DOMAIN log' : j = last \/ (j \in DOMAIN log /\ log'[j] = log[j])
      /\ \A j \in DOMAIN log : j \in DOMAIN log' /\ log'[j] = log[j]
  BY <1>1
<1> HIDE DEF last
<1>3. LastSession(e.pay, i)'
  BY <1>1, <1>2 DEF Projects, LastSession
<1>4. (\E j \in DOMAIN log' : j > i /\ log'[j].pay = e.pay /\ log'[j].full)
        <=> e.full \/ (\E j \in DOMAIN log : j > i /\ log[j].pay = e.pay /\ log[j].full)
  BY <1>1, <1>2
<1>5. QED
  BY <1>2, <1>3, <1>4 DEF Projects, AfterRefund

LEMMA DeliverProjected ==
  ASSUME Types, Projected, NEW e \in events, Deliver(e)
  PROVE  Projected'
<1>1. e \in Event /\ e.pay \in Payment
  BY DEF Types, Event
<1>2. CASE UNCHANGED <<status, intent, log>>
  BY <1>2 DEF Projected, StatusIsLastLearned, SessionRowFirst, HasRows, LastSession, Range
<1>3. CASE ~ UNCHANGED <<status, intent, log>>
  <2>1. log' = Append(log, e)
    BY <1>3, DeliveryWrites
  <2>2. \A p \in Payment : HasRows(p)' <=> HasRows(p) \/ p = e.pay
    <3>1. Range(log') = Range(log) \cup {e}
      BY <1>1, <2>1, RangeAppend DEF Types
    <3>2. QED
      BY <3>1 DEF HasRows
  <2>3. \A p \in Payment \ {e.pay} : status'[p] = status[p] /\ intent'[p] = intent[p]
    BY <1>1, <1>3, DeliveryWrites DEF Types
  <2>4. SessionRowFirst'
    BY <2>2, <2>3 DEF Projected, SessionRowFirst
  <2>5. ASSUME NEW p \in Payment, HasRows(p)'
        PROVE  \E i \in DOMAIN log' : Projects(p, i)'
    <3>1. CASE p # e.pay
      <4>1. PICK i \in DOMAIN log : Projects(p, i)
        BY <2>2, <2>5, <3>1 DEF Projected, StatusIsLastLearned, Projects
      <4>2. QED
        BY <1>1, <2>1, <2>3, <3>1, <4>1, OthersRow
    <3>2. CASE p = e.pay /\ e.kind # RefundKind
      <4>1. status'[e.pay] = StatusOf[e.kind]
        BY <1>1, <1>3, <3>2, DeliveryWrites DEF Types
      <4>2. QED
        BY <1>1, <2>1, <3>2, <4>1, SessionRow
    <3>3. CASE p = e.pay /\ e.kind = RefundKind
      <4>1. intent[e.pay] /\ status'[e.pay] = AfterRefund(status[e.pay], e.full)
        BY <1>1, <1>3, <3>3, DeliveryWrites DEF Types
      <4>2. PICK i \in DOMAIN log : Projects(e.pay, i)
        BY <1>1, <4>1 DEF Projected, StatusIsLastLearned, SessionRowFirst, Projects
      <4>3. QED
        BY <1>1, <2>1, <3>3, <4>1, <4>2, RefundRow
    <3>4. QED
      BY <3>1, <3>2, <3>3
  <2>6. StatusIsLastLearned'
    BY <2>5 DEF StatusIsLastLearned, Projects
  <2>7. QED
    BY <2>4, <2>6 DEF Projected
<1>4. QED
  BY <1>2, <1>3

LEMMA ProjectedStep ==
  ASSUME MoneyInductive, Projected, [Next]_vars
  PROVE  Projected'
<1>1. CASE \E e \in events : Deliver(e)
  BY <1>1, DeliverProjected DEF MoneyInductive
<1>2. CASE \A e \in events : ~Deliver(e)
  <2>1. UNCHANGED <<intent, log>>
    BY <1>2, OnlyDeliveriesWrite DEF MoneyInductive
  <2>2. \A p \in Payment : HasRows(p) => status'[p] = status[p]
    BY <2>1, VerdictStays
  <2>3. QED
    BY <2>1, <2>2 DEF Projected, StatusIsLastLearned, SessionRowFirst, HasRows, LastSession, Range
<1>3. QED
  BY <1>1, <1>2

(***************************************************************************)
(* The payments table is a projection of the transactions log, whatever    *)
(* the handlers, redeliveries and refunds, for cards and delayed methods.  *)
(***************************************************************************)
THEOREM StatusIsLastLearnedHolds == Spec => []StatusIsLastLearned
<1>1. Init => Projected
  BY RowsAre DEF Init, Projected, StatusIsLastLearned, SessionRowFirst
<1>2. MoneyInductive /\ Projected /\ [Next]_vars => Projected'
  BY ProjectedStep
<1>3. Projected => StatusIsLastLearned
  BY DEF Projected
<1>4. QED
  BY <1>1, <1>2, <1>3, MoneyInductiveHolds, PTL DEF Spec

-----------------------------------------------------------------------------
(* Cards: the sessions of this system settle at once *)

\* A row of a session event: what a refund is looked up by, and the last word
\* on how the session ended.
Settled(p) == \E e \in Range(log) : e.pay = p /\ e.kind \in SessionKinds

\* What the status can be at each step of the handler until then.
Possible == [idle     |-> {"none"},
             inserted |-> {"created"},
             waiting  |-> {"created"},
             answered |-> {"created"},
             marked   |-> {"processing"},
             replied  |-> {"processing"},
             failing  |-> {"created", "processing"},
             dead     |-> {"created", "processing"},
             refused  |-> {"failed"}]

CardSteps ==
  \A p \in Payment \ Foreign :
     /\ intent[p] => Settled(p) /\ session[p] = "paid"
     /\ ~Settled(p) => status[p] \in Possible[pc[p]]
     /\ Settled(p) /\ session[p] = "paid" => status[p] \in {"succeeded", "refunded"}
     /\ Settled(p) /\ session[p] # "paid" => status[p] = "canceled"
     /\ \A e, f \in events :
          e.pay = p /\ f.pay = p /\ e.kind \in SessionKinds /\ f.kind \in SessionKinds => e = f

CardInductive == MoneyInductive /\ CardSteps

\* The status of p stays, or follows an edge of the lifecycle.
Follows(p) ==
  \/ status' = status
  \/ \E s \in Statuses : status' = [status EXCEPT ![p] = s] /\ <<status[p], s>> \in Lifecycle!Edge

LEMMA FollowsIsNext ==
  ASSUME NEW p \in Payment, Follows(p)
  PROVE  [Lifecycle!Next]_status
<1>1. CASE status' = status
  BY <1>1
<1>2. CASE \E s \in Statuses :
             status' = [status EXCEPT ![p] = s] /\ <<status[p], s>> \in Lifecycle!Edge
  <2>1. PICK s \in Statuses :
          status' = [status EXCEPT ![p] = s] /\ <<status[p], s>> \in Lifecycle!Edge
    BY <1>2
  <2>2. <<status[p], s>>[2] = s
    OBVIOUS
  <2>3. QED
    BY <2>1, <2>2 DEF Lifecycle!Next, Lifecycle!Move
<1>3. QED
  BY <1>1, <1>2 DEF Follows

\* What an event of a session of ours can say.
LEMMA CardEvent ==
  ASSUME Delayed \subseteq Foreign, Types, StripeSays,
         NEW e \in events, e.pay \notin Foreign, e.kind \in SessionKinds
  PROVE  /\ e.pay \in Payment
         /\ \/ e.kind = "completed_paid" /\ session[e.pay] = "paid" /\ pc[e.pay] = "replied"
            \/ e.kind = "expired" /\ session[e.pay] = "expired" /\ pc[e.pay] \in Over
<1>1. e.pay \in Payment /\ e.kind \notin LateKinds /\ pc[e.pay] \in Over
  BY DEF Types, Event, StripeSays
<1>2. e.kind = "completed_paid" \/ e.kind = "expired"
  BY <1>1, KindsAre DEF LateKinds
<1>3. QED
  BY <1>1, <1>2 DEF StripeSays, PaidKinds

\* Before its session has ended nothing is settled, and while the handler runs.
LEMMA NotSettledYet ==
  ASSUME Delayed \subseteq Foreign, Types, StripeSays, NEW p \in Payment \ Foreign,
         session[p] \notin {"paid", "expired"} \/ pc[p] \notin Over
  PROVE  /\ ~Settled(p)
         /\ \A e \in events : ~(e.pay = p /\ e.kind \in SessionKinds)
<1>1. \A e \in events : ~(e.pay = p /\ e.kind \in SessionKinds)
  BY CardEvent DEF Over
<1>2. Range(log) \subseteq events
  BY DEF Types
<1>3. QED
  BY <1>1, <1>2 DEF Settled

\* Every step of the handler, one by one.
LEMMA HandlerMoves ==
  ASSUME Types, NEW p \in Payment, HandlerStep(p), status[p] \in Possible[pc[p]]
  PROVE  \E step \in CheckoutSteps, s \in Statuses :
           /\ pc' = [pc EXCEPT ![p] = step]
           /\ status' = [status EXCEPT ![p] = s]
           /\ s \in Possible[step]
           /\ s = status[p] \/ <<status[p], s>> \in Lifecycle!Edge
<1> DEFINE Moves(step, s) ==
             /\ pc' = [pc EXCEPT ![p] = step]
             /\ status' = [status EXCEPT ![p] = s]
             /\ s \in Possible[step]
             /\ s = status[p] \/ <<status[p], s>> \in Lifecycle!Edge
<1>1. ASSUME NEW step \in CheckoutSteps, NEW s \in Statuses, Moves(step, s)
      PROVE  \E st \in CheckoutSteps, z \in Statuses : Moves(st, z)
  BY <1>1, Zenon
<1>2. status[p] \in Statuses /\ "created" \in Statuses /\ "processing" \in Statuses
      /\ "failed" \in Statuses
  BY DEF Types, Statuses
<1>3. /\ "inserted" \in CheckoutSteps /\ "waiting" \in CheckoutSteps
      /\ "answered" \in CheckoutSteps /\ "marked" \in CheckoutSteps
      /\ "replied" \in CheckoutSteps /\ "failing" \in CheckoutSteps
      /\ "refused" \in CheckoutSteps /\ "dead" \in CheckoutSteps
  BY DEF CheckoutSteps
<1>4. \/ Moves("inserted", "created") \/ Moves("waiting", status[p])
      \/ Moves("answered", status[p]) \/ Moves("failing", status[p])
      \/ Moves("marked", "processing") \/ Moves("failing", "processing")
      \/ Moves("replied", status[p]) \/ Moves("refused", "failed") \/ Moves("dead", status[p])
  <2> USE DEF Types, Possible, CheckoutSteps, Goto, SetStatus, ledgerVars, Lifecycle!Edge
  <2>1. InsertPayment(p) => Moves("inserted", "created")
    BY DEF InsertPayment
  <2>2. CreateSession(p) => Moves("waiting", status[p])
    BY DEF CreateSession
  <2>3. SessionAnswers(p) => Moves("answered", status[p])
    BY DEF SessionAnswers
  <2>4. SessionThrows(p) => Moves("failing", status[p])
    BY DEF SessionThrows
  <2>5. MarkProcessing(p) => Moves("marked", "processing")
    BY DEF MarkProcessing
  <2>6. MarkThrows(p) => Moves("failing", status[p]) \/ Moves("failing", "processing")
    BY DEF MarkThrows
  <2>7. Reply(p) => Moves("replied", status[p])
    BY DEF Reply
  <2>8. MarkFailed(p) => Moves("refused", "failed")
    BY DEF MarkFailed, FailedStatus
  <2>9. CheckoutDies(p) => Moves("dead", status[p])
    BY DEF CheckoutDies, Over
  <2> HIDE DEF Types, Possible, CheckoutSteps, Goto, SetStatus, ledgerVars, Lifecycle!Edge, Moves
  <2>10. QED
    BY <2>1, <2>2, <2>3, <2>4, <2>5, <2>6, <2>7, <2>8, <2>9 DEF HandlerStep
<1> HIDE DEF Moves
<1>5. \E st \in CheckoutSteps, z \in Statuses : Moves(st, z)
  BY <1>1, <1>2, <1>3, <1>4, Zenon
<1>6. QED
  BY <1>5 DEF Moves

LEMMA InitCards == Init => CardSteps
<1> SUFFICES ASSUME Init PROVE CardSteps
  OBVIOUS
<1>1. Range(log) = {}
  BY DEF Init, Range
<1>2. QED
  BY <1>1 DEF Init, CardSteps, Settled, Possible

\* What is settled depends on the log alone.
LEMMA SameLog == log' = log => \A p \in Payment : Settled(p)' = Settled(p)
BY DEF Settled, Range

LEMMA HandlerCards ==
  ASSUME Delayed \subseteq Foreign, CardInductive, NEW p \in Payment, HandlerStep(p)
  PROVE  CardSteps' /\ Follows(p)
<1>1. Types /\ StripeSays /\ NotOurs
  BY DEF CardInductive, MoneyInductive
<1>2. pc[p] \notin Over /\ p \in Payment \ Foreign /\ UNCHANGED <<intent, log, session, events>>
  BY <1>1, HandlerWrites DEF NotOurs
<1>3. ~Settled(p) /\ status[p] \in Possible[pc[p]]
  BY <1>1, <1>2, NotSettledYet DEF CardInductive, CardSteps
<1>4. PICK step \in CheckoutSteps, s \in Statuses :
        /\ pc' = [pc EXCEPT ![p] = step]
        /\ status' = [status EXCEPT ![p] = s]
        /\ s \in Possible[step]
        /\ s = status[p] \/ <<status[p], s>> \in Lifecycle!Edge
  BY <1>1, <1>3, HandlerMoves
<1>5. \A q \in Payment : Settled(q)' = Settled(q)
  BY <1>2, SameLog
<1>6. CardSteps'
  BY <1>1, <1>2, <1>3, <1>4, <1>5 DEF CardInductive, CardSteps, Types
<1>7. Follows(p)
  BY <1>1, <1>4 DEF Follows, Types
<1>8. QED
  BY <1>6, <1>7

LEMMA OutcomeCards ==
  ASSUME Delayed \subseteq Foreign, CardInductive,
         NEW p \in Payment, NEW kind \in SessionKinds, NEW s \in SessionStates,
         Outcome(p, kind, s)
  PROVE  CardSteps'
<1>1. Types /\ StripeSays /\ CardSteps
  BY DEF CardInductive, MoneyInductive
<1>2. /\ session[p] \in {"open", "awaiting"} /\ session' = [session EXCEPT ![p] = s]
      /\ UNCHANGED <<status, intent, log, pc>>
  BY DEF Outcome, Becomes
<1>3. PICK e \in Event : e.kind = kind /\ e.pay = p /\ events' = events \cup {e}
  <2>1. kind \in Kinds /\ Price[p] \in Nat /\ FALSE \in BOOLEAN
    BY KindsAre, Prices
  <2>2. Emit(p, kind, Price[p], FALSE)
    BY DEF Outcome
  <2>3. QED
    BY <1>1, <2>1, <2>2, Emitted, Zenon
<1>4. \A q \in Payment : Settled(q)' = Settled(q)
  BY <1>2, SameLog
<1> SUFFICES ASSUME NEW q \in Payment \ Foreign
             PROVE  /\ intent'[q] => Settled(q)' /\ session'[q] = "paid"
                    /\ ~Settled(q)' => status'[q] \in Possible[pc'[q]]
                    /\ Settled(q)' /\ session'[q] = "paid" => status'[q] \in {"succeeded", "refunded"}
                    /\ Settled(q)' /\ session'[q] # "paid" => status'[q] = "canceled"
                    /\ \A f, g \in events' :
                         f.pay = q /\ g.pay = q /\ f.kind \in SessionKinds /\ g.kind \in SessionKinds
                         => f = g
  BY DEF CardSteps
<1>5. CASE q # p
  BY <1>5, <1>1, <1>2, <1>3, <1>4 DEF CardSteps, Types
<1>6. CASE q = p
  <2>1. ~Settled(p) /\ \A f \in events : ~(f.pay = p /\ f.kind \in SessionKinds)
    BY <1>6, <1>1, <1>2, NotSettledYet
  <2>2. \A f, g \in events' :
          f.pay = q /\ g.pay = q /\ f.kind \in SessionKinds /\ g.kind \in SessionKinds => f = g
    BY <1>6, <1>3, <2>1
  <2>3. QED
    BY <1>6, <1>1, <1>2, <1>4, <2>1, <2>2 DEF CardSteps
<1>7. QED
  BY <1>5, <1>6

\* A refund adds an event of no session; an opened session had no outcome.
LEMMA OtherCards ==
  ASSUME Delayed \subseteq Foreign, CardInductive, NEW p \in Payment,
         StripeOpens(p) \/ ForeignOpens(p) \/ StripeDrops(p) \/ RefundCharge(p)
  PROVE  CardSteps'
<1>1. Types /\ StripeSays /\ CardSteps
  BY DEF CardInductive, MoneyInductive
<1>2. /\ UNCHANGED <<status, intent, log, pc>>
      /\ \/ session' = session
         \/ session[p] = "none" /\ session' = [session EXCEPT ![p] = "open"]
      /\ \A e \in events' : e \in events \/ e.kind = RefundKind
  <2>1. CASE RefundCharge(p)
    <3>1. UNCHANGED <<status, intent, log, pc, session>>
      BY <2>1 DEF RefundCharge, ledgerVars
    <3>2. PICK n \in 1 .. Price[p] - returned[p] :
            Emit(p, RefundKind, returned[p] + n, returned[p] + n = Price[p])
      BY <2>1 DEF RefundCharge
    <3>3. \A e \in events' : e \in events \/ e.kind = RefundKind
      BY <3>2 DEF Emit
    <3>4. QED
      BY <3>1, <3>3
  <2>2. CASE StripeOpens(p) \/ ForeignOpens(p)
    BY <2>2 DEF StripeOpens, ForeignOpens, Becomes, ledgerVars
  <2>3. CASE StripeDrops(p)
    BY <2>3 DEF StripeDrops, ledgerVars
  <2>4. QED
    BY <2>1, <2>2, <2>3
<1>3. \A q \in Payment : Settled(q)' = Settled(q)
  BY <1>2, SameLog
<1>4. \A q \in Payment \ Foreign : session'[q] = session[q] \/ (session[q] = "none" /\ session'[q] = "open")
  BY <1>1, <1>2 DEF Types
<1>5. \A q \in Payment \ Foreign : session[q] = "none" => ~Settled(q)
  BY <1>1, NotSettledYet
<1>6. \A q \in Payment \ Foreign : \A f, g \in events' :
        f.pay = q /\ g.pay = q /\ f.kind \in SessionKinds /\ g.kind \in SessionKinds => f = g
  BY <1>1, <1>2, KindsAre DEF CardSteps
<1> SUFFICES ASSUME NEW q \in Payment \ Foreign
             PROVE  /\ intent'[q] => Settled(q)' /\ session'[q] = "paid"
                    /\ ~Settled(q)' => status'[q] \in Possible[pc'[q]]
                    /\ Settled(q)' /\ session'[q] = "paid" => status'[q] \in {"succeeded", "refunded"}
                    /\ Settled(q)' /\ session'[q] # "paid" => status'[q] = "canceled"
  BY <1>6 DEF CardSteps
<1>7. CASE session'[q] = session[q]
  BY <1>7, <1>1, <1>2, <1>3 DEF CardSteps
<1>8. CASE session[q] = "none"
  BY <1>8, <1>1, <1>2, <1>3, <1>4, <1>5 DEF CardSteps
<1>9. QED
  BY <1>4, <1>7, <1>8

(***************************************************************************)
(* A delivery that is written: the one event of the session, which the     *)
(* handler has waited for at its last step, or a refund of what was paid.  *)
(***************************************************************************)
LEMMA DeliverCards ==
  ASSUME Delayed \subseteq Foreign, CardInductive, NEW e \in events, Deliver(e)
  PROVE  CardSteps' /\ Follows(e.pay)
<1>1. Types /\ StripeSays /\ NotOurs /\ CardSteps
  BY DEF CardInductive, MoneyInductive
<1>2. e \in Event /\ e.pay \in Payment /\ e.kind \in Kinds
  BY <1>1 DEF Types, Event
<1>3. UNCHANGED <<pc, session, events>>
  BY <1>1, DeliveryWrites
<1>4. CASE UNCHANGED <<status, intent, log>>
  BY <1>4, <1>1, <1>3, SameLog DEF CardSteps, Follows
<1>5. CASE ~ UNCHANGED <<status, intent, log>>
  <2>1. e \notin Range(log) /\ log' = Append(log, e) /\ e.pay \in Payment \ Foreign
    BY <1>1, <1>2, <1>5, DeliveryWrites DEF NotOurs
  <2>2. Range(log') = Range(log) \cup {e}
    BY <1>1, <1>2, <2>1, RangeAppend DEF Types
  <2>3. \A q \in Payment : Settled(q)' <=> Settled(q) \/ (q = e.pay /\ e.kind \in SessionKinds)
    BY <1>2, <2>2 DEF Settled
  <2>4. \A q \in Payment \ {e.pay} : status'[q] = status[q] /\ intent'[q] = intent[q]
    BY <1>1, <1>2, <1>5, DeliveryWrites DEF Types
  <2>5. CASE e.kind \in SessionKinds
    <3>1. ~Settled(e.pay)
      BY <1>1, <1>2, <2>1, <2>5 DEF CardSteps, Settled, Types
    <3>2. status[e.pay] \in Possible[pc[e.pay]] /\ ~intent[e.pay]
      BY <1>1, <2>1, <3>1 DEF CardSteps
    <3>3. /\ status' = [status EXCEPT ![e.pay] = StatusOf[e.kind]]
          /\ intent' = [intent EXCEPT ![e.pay] = CarriesIntent(e) \/ @]
      BY <1>1, <1>5, <2>5, DeliveryWrites, KindsAre
    <3>4. \/ /\ e.kind = "completed_paid" /\ session[e.pay] = "paid"
             /\ status[e.pay] = "processing" /\ status'[e.pay] = "succeeded"
          \/ /\ e.kind = "expired" /\ session[e.pay] = "expired" /\ ~intent'[e.pay]
             /\ status[e.pay] \in {"created", "processing", "failed"}
             /\ status'[e.pay] = "canceled"
      <4>1. CASE e.kind = "completed_paid"
        BY <4>1, <1>1, <2>1, <2>5, <3>2, <3>3, CardEvent DEF Possible, StatusOf, Types
      <4>2. CASE e.kind = "expired"
        <5>1. session[e.pay] = "expired" /\ pc[e.pay] \in Over
          BY <4>2, <1>1, <2>1, <2>5, CardEvent
        <5>2. status[e.pay] \in {"created", "processing", "failed"}
          BY <5>1, <3>2 DEF Possible, Over
        <5>3. ~intent'[e.pay]
          BY <4>2, <1>1, <1>2, <3>2, <3>3 DEF CarriesIntent, Types
        <5>4. status'[e.pay] = "canceled"
          BY <4>2, <1>1, <1>2, <3>3 DEF StatusOf, Types
        <5>5. QED
          BY <4>2, <5>1, <5>2, <5>3, <5>4
      <4>3. QED
        BY <1>1, <2>1, <2>5, <4>1, <4>2, CardEvent
    <3>5. CardSteps'
      <4>1. \A q \in Payment \ Foreign : q # e.pay => (Settled(q)' <=> Settled(q))
        BY <2>3
      <4>2. Settled(e.pay)'
        BY <1>2, <2>3, <2>5
      <4>3. QED
        BY <1>1, <1>3, <2>4, <3>4, <4>1, <4>2 DEF CardSteps
    <3>6. Follows(e.pay)
      <4>1. status' = [status EXCEPT ![e.pay] = status'[e.pay]]
        BY <1>1, <1>2, <3>3 DEF Types
      <4>2. <<status[e.pay], status'[e.pay]>> \in Lifecycle!Edge /\ status'[e.pay] \in Statuses
        BY <3>4 DEF Lifecycle!Edge, Statuses
      <4>3. QED
        BY <4>1, <4>2 DEF Follows
    <3>7. QED
      BY <3>5, <3>6
  <2>6. CASE e.kind = RefundKind
    <3>1. intent[e.pay] /\ status' = [status EXCEPT ![e.pay] = AfterRefund(@, e.full)] /\ intent' = intent
      BY <1>1, <1>5, <2>6, DeliveryWrites
    <3>2. Settled(e.pay) /\ session[e.pay] = "paid" /\ status[e.pay] \in {"succeeded", "refunded"}
      BY <1>1, <2>1, <3>1 DEF CardSteps
    <3>3. status'[e.pay] = status[e.pay] \/ status'[e.pay] = "refunded"
      BY <1>1, <1>2, <3>1 DEF AfterRefund, Types
    <3>4. \A q \in Payment : Settled(q)' <=> Settled(q)
      BY <2>3, <2>6, KindsAre
    <3>5. CardSteps'
      BY <1>1, <1>3, <2>4, <3>1, <3>2, <3>3, <3>4 DEF CardSteps
    <3>6. status' = [status EXCEPT ![e.pay] = status'[e.pay]]
      BY <1>1, <1>2, <3>1 DEF Types
    <3>7. Follows(e.pay)
      <4>1. CASE status'[e.pay] = status[e.pay]
        BY <4>1, <1>1, <3>6 DEF Follows, Types
      <4>2. CASE status[e.pay] = "succeeded" /\ status'[e.pay] = "refunded"
        BY <4>2, <3>6 DEF Follows, Lifecycle!Edge, Statuses
      <4>3. QED
        BY <4>1, <4>2, <3>2, <3>3
    <3>8. QED
      BY <3>5, <3>7
  <2>7. QED
    BY <1>2, <2>5, <2>6, KindsAre
<1>6. QED
  BY <1>4, <1>5

-----------------------------------------------------------------------------
LEMMA CardStep ==
  ASSUME Delayed \subseteq Foreign, CardInductive, [Next]_vars
  PROVE  CardInductive' /\ [Lifecycle!Next]_status
<1>1. MoneyInductive'
  BY MoneyStep DEF CardInductive
<1>2. ASSUME NEW p \in Payment, HandlerStep(p) PROVE CardSteps' /\ [Lifecycle!Next]_status
  BY <1>2, HandlerCards, FollowsIsNext
<1>3. ASSUME NEW p \in Payment, Complete(p) \/ Settle(p) \/ Expire(p)
      PROVE  CardSteps' /\ status' = status
  <2>1. PICK kind \in SessionKinds, s \in SessionStates : Outcome(p, kind, s)
    BY <1>3, Outcomes DEF CardInductive
  <2>2. QED
    BY <2>1, OutcomeCards DEF Outcome
<1>4. ASSUME NEW p \in Payment, StripeOpens(p) \/ ForeignOpens(p) \/ StripeDrops(p) \/ RefundCharge(p)
      PROVE  CardSteps' /\ status' = status
  BY <1>4, OtherCards, StripeWrites DEF StripeStep
<1>5. CASE UNCHANGED vars
  <2>1. UNCHANGED <<status, intent, log, pc, session, events>>
    BY <1>5 DEF vars, ledgerVars, stripeVars
  <2>2. CardSteps'
    BY <2>1, SameLog DEF CardInductive, CardSteps
  <2>3. QED
    BY <1>1, <2>1, <2>2 DEF CardInductive
<1>6. ASSUME NEW e \in events, Deliver(e) PROVE CardSteps' /\ [Lifecycle!Next]_status
  <2>1. CardSteps' /\ Follows(e.pay) /\ e.pay \in Payment
    BY <1>6, DeliverCards DEF CardInductive, MoneyInductive, Types, Event
  <2>2. QED
    BY <2>1, FollowsIsNext
<1>7. QED
  BY <1>1, <1>2, <1>3, <1>4, <1>5, <1>6
     DEF Next, HandlerStep, CheckoutStep, StripeStep, CardInductive

(***************************************************************************)
(* With cards alone, for any number of payments, refunds, failures and     *)
(* repeated deliveries in any order: the status of a payment moves only    *)
(* along its lifecycle.                                                    *)
(***************************************************************************)
THEOREM KeepsLifecycleHolds ==
  ASSUME Delayed \subseteq Foreign
  PROVE  Spec => KeepsLifecycle
<1>1. Init => CardInductive /\ Lifecycle!Init
  BY InitMoney, InitCards DEF CardInductive, Init, Lifecycle!Init
<1>2. CardInductive /\ [Next]_vars => CardInductive' /\ [Lifecycle!Next]_status
  BY CardStep
<1>3. QED
  BY <1>1, <1>2, PTL DEF Spec, KeepsLifecycle, Lifecycle!Spec

-----------------------------------------------------------------------------
(* What has been acknowledged has been written *)

PaidHasEvent ==
  \A p \in Payment : session[p] = "paid" => \E e \in events : e.pay = p /\ e.kind \in SessionKinds

AckedIsRecorded ==
  \A e \in acked : e.pay \in Payment \ Foreign /\ e.kind \in SessionKinds => e \in Range(log)

Acknowledged == PaidHasEvent /\ AckedIsRecorded

\* Only a delivery acknowledges.
LEMMA OnlyDeliveriesAck ==
  ASSUME [Next]_vars, \A e \in events : ~Deliver(e)
  PROVE  acked' = acked /\ events \subseteq events'
<1>1. ASSUME NEW p \in Payment, HandlerStep(p) PROVE UNCHANGED <<acked, events>>
  <2>1. CASE InsertPayment(p) \/ CreateSession(p) \/ SessionAnswers(p) \/ SessionThrows(p)
    BY <2>1 DEF InsertPayment, CreateSession, SessionAnswers, SessionThrows, stripeVars
  <2>2. CASE MarkProcessing(p) \/ Reply(p) \/ MarkFailed(p) \/ MarkThrows(p) \/ CheckoutDies(p)
    BY <2>2 DEF MarkProcessing, Reply, MarkFailed, MarkThrows, CheckoutDies, stripeVars
  <2>3. QED
    BY <1>1, <2>1, <2>2 DEF HandlerStep
<1>2. ASSUME NEW p \in Payment, StripeOpens(p) \/ StripeDrops(p) \/ StripeStep(p)
      PROVE  acked' = acked /\ events \subseteq events'
  BY <1>2 DEF StripeOpens, StripeDrops, StripeStep, Complete, Settle, Expire, RefundCharge,
     ForeignOpens, Emit
<1>3. CASE UNCHANGED vars
  BY <1>3 DEF vars, stripeVars
<1>4. QED
  BY <1>1, <1>2, <1>3 DEF Next, HandlerStep, CheckoutStep

\* A session is paid by an outcome that says so.
LEMMA PaidStep ==
  ASSUME MoneyInductive, PaidHasEvent, [Next]_vars
  PROVE  PaidHasEvent'
<1>1. Types
  BY DEF MoneyInductive
<1>2. events \subseteq events'
  <2>1. CASE \E e \in events : Deliver(e)
    BY <2>1 DEF Deliver
  <2>2. QED
    BY <2>1, OnlyDeliveriesAck
<1>3. ASSUME NEW p \in Payment, Complete(p) \/ Settle(p) \/ Expire(p)
      PROVE  PaidHasEvent'
  <2>1. PICK kind \in SessionKinds, s \in SessionStates : Outcome(p, kind, s)
    BY <1>3, Outcomes
  <2>2. session' = [session EXCEPT ![p] = s] /\ Emit(p, kind, Price[p], FALSE)
    BY <2>1 DEF Outcome, Becomes
  <2>3. PICK e \in Event : e.kind = kind /\ e.pay = p /\ events' = events \cup {e}
    <3>1. kind \in Kinds /\ Price[p] \in Nat /\ FALSE \in BOOLEAN
      BY KindsAre, Prices
    <3>2. QED
      BY <1>1, <2>2, <3>1, Emitted, Zenon
  <2>4. QED
    BY <1>1, <1>2, <2>2, <2>3 DEF PaidHasEvent, Types
<1>4. CASE \A p \in Payment : ~(Complete(p) \/ Settle(p) \/ Expire(p))
  <2>1. \A p \in Payment : session'[p] = "paid" => session[p] = "paid"
    <3> DEFINE Opening == session' = session \/ \E p \in Payment : session' = [session EXCEPT ![p] = "open"]
    <3>1. ASSUME NEW p \in Payment, HandlerStep(p) PROVE Opening
      BY <1>1, <3>1, HandlerWrites
    <3>2. ASSUME NEW p \in Payment, StripeOpens(p) \/ ForeignOpens(p) PROVE Opening
      BY <3>2 DEF StripeOpens, ForeignOpens, Becomes
    <3>3. ASSUME NEW p \in Payment, StripeDrops(p) \/ RefundCharge(p) PROVE Opening
      BY <3>3 DEF StripeDrops, RefundCharge
    <3>4. ASSUME NEW e \in events, Deliver(e) PROVE Opening
      BY <3>4 DEF Deliver
    <3>5. ASSUME UNCHANGED vars PROVE Opening
      BY <3>5 DEF vars, stripeVars
    <3> HIDE DEF Opening
    <3>6. Opening
      BY <1>4, <3>1, <3>2, <3>3, <3>4, <3>5 DEF Next, HandlerStep, CheckoutStep, StripeStep
    <3>7. QED
      BY <1>1, <3>6 DEF Types, Opening
  <2>2. QED
    BY <1>2, <2>1 DEF PaidHasEvent
<1>5. QED
  BY <1>3, <1>4

\* By the time there is an event its payment is in the table, so the foreign
\* key does not refuse it.
LEMMA DeliverRecords ==
  ASSUME Delayed \subseteq Foreign, CardInductive, NEW e \in events, Deliver(e),
         e.pay \in Payment \ Foreign, e.kind \in SessionKinds
  PROVE  e \in Range(log')
<1>1. Types /\ StripeSays /\ CardSteps
  BY DEF CardInductive, MoneyInductive
<1>2. pc[e.pay] \in Over /\ e.kind # RefundKind /\ e \in Event /\ log \in Seq(Event)
  BY <1>1, KindsAre DEF StripeSays, Types
<1>3. Known(e.pay)
  BY <1>1, <1>2 DEF CardSteps, Known, Over, Possible
<1>4. log' = Append(log, e) \/ (Recorded(e) /\ log' = log)
  BY <1>2, <1>3 DEF Deliver, Apply, RecordSession, ledgerVars
<1>5. QED
  BY <1>2, <1>4, RangeAppend DEF Recorded

LEMMA AckStep ==
  ASSUME Delayed \subseteq Foreign, CardInductive, Acknowledged, [Next]_vars
  PROVE  Acknowledged'
<1>1. Types /\ MoneyInductive
  BY DEF CardInductive, MoneyInductive
<1>2. PaidHasEvent'
  BY <1>1, PaidStep DEF Acknowledged
<1>3. AckedIsRecorded'
  <2>1. ASSUME NEW e \in events, Deliver(e) PROVE AckedIsRecorded'
    <3>1. Range(log) \subseteq Range(log')
      <4>1. log' = log \/ log' = Append(log, e)
        BY <1>1, <2>1, DeliveryWrites
      <4>2. e \in Event /\ log \in Seq(Event)
        BY <1>1 DEF Types
      <4>3. Range(Append(log, e)) = Range(log) \cup {e}
        BY <4>2, RangeAppend
      <4>4. CASE log' = log
        BY <4>4
      <4>5. CASE log' = Append(log, e)
        BY <4>3, <4>5
      <4>6. QED
        BY <4>1, <4>4, <4>5
    <3>2. acked' = acked \cup {e}
      BY <2>1 DEF Deliver
    <3>3. e.pay \in Payment \ Foreign /\ e.kind \in SessionKinds => e \in Range(log')
      BY <2>1, DeliverRecords
    <3>4. QED
      BY <3>1, <3>2, <3>3 DEF Acknowledged, AckedIsRecorded
  <2>2. CASE \A e \in events : ~Deliver(e)
    <3>1. acked' = acked /\ log' = log
      BY <1>1, <2>2, OnlyDeliveriesAck, OnlyDeliveriesWrite
    <3>2. QED
      BY <3>1 DEF Acknowledged, AckedIsRecorded, Range
  <2>3. QED
    BY <2>1, <2>2
<1>4. QED
  BY <1>2, <1>3 DEF Acknowledged

(***************************************************************************)
(* With cards alone: when Stripe holds the money and each of its events    *)
(* has been acknowledged, the payment shows it, whatever their order.      *)
(***************************************************************************)
THEOREM SettledShowsHolds ==
  ASSUME Delayed \subseteq Foreign
  PROVE  Spec => []SettledShows
<1>1. Init => CardInductive /\ Acknowledged
  <2>1. Init => Acknowledged
    BY DEF Init, Acknowledged, PaidHasEvent, AckedIsRecorded
  <2>2. QED
    BY <2>1, InitMoney, InitCards DEF CardInductive
<1>2. CardInductive /\ Acknowledged /\ [Next]_vars => CardInductive' /\ Acknowledged'
  BY CardStep, AckStep
<1>3. CardInductive /\ Acknowledged => SettledShows
  <2> SUFFICES ASSUME CardInductive, Acknowledged, NEW p \in Payment \ Foreign, session[p] = "paid",
                      \A e \in events : e.pay = p => e \in acked
               PROVE  status[p] \in {"succeeded", "refunded"}
    BY DEF SettledShows
  <2>1. PICK e \in events : e.pay = p /\ e.kind \in SessionKinds
    BY DEF Acknowledged, PaidHasEvent
  <2>2. Settled(p)
    BY <2>1 DEF Acknowledged, AckedIsRecorded, Settled
  <2>3. QED
    BY <2>2 DEF CardInductive, CardSteps
<1>4. QED
  BY <1>1, <1>2, <1>3, PTL DEF Spec

-----------------------------------------------------------------------------
(* The reconciler: sums and sets of rows *)

LEMMA SumNone ==
  ASSUME NEW f
  PROVE  SumFunctionOnSet(f, {}) = 0
<1> DEFINE step(h) == [s \in SUBSET {} |-> IF s = {} THEN 0
                         ELSE f[CHOOSE x \in s : TRUE] + h[s \ {CHOOSE x \in s : TRUE}]]
           none == [s \in SUBSET {} |-> 0]
<1>1. none = step(none)
  OBVIOUS
<1>2. \E h : h = step(h)
  BY <1>1
<1>3. (CHOOSE h : h = step(h)) = step(CHOOSE h : h = step(h))
  BY <1>2
<1>4. (CHOOSE h : h = step(h))[{}] = 0
  BY <1>3
<1>5. QED
  BY <1>4 DEF SumFunctionOnSet, FoldFunctionOnSet, MapThenFoldSet

LEMMA SumOne ==
  ASSUME NEW f, NEW i, f[i] \in Nat
  PROVE  SumFunctionOnSet(f, {i}) = f[i]
<1> DEFINE step(h) == [s \in SUBSET {i} |-> IF s = {} THEN 0
                         ELSE f[CHOOSE x \in s : TRUE] + h[s \ {CHOOSE x \in s : TRUE}]]
           one == [s \in SUBSET {i} |-> IF s = {} THEN 0 ELSE f[i]]
<1>1. /\ \A s \in SUBSET {i} : s = {} \/ s = {i}
      /\ {i} \ {i} = {} /\ {i} # {} /\ {} \in SUBSET {i} /\ {i} \in SUBSET {i}
      /\ (CHOOSE x \in {i} : TRUE) = i
  OBVIOUS
<1>2. one = step(one)
  BY <1>1
<1>3. \E h : h = step(h)
  BY <1>2
<1>4. (CHOOSE h : h = step(h)) = step(CHOOSE h : h = step(h))
  BY <1>3
<1>5. ASSUME NEW h, h = step(h) PROVE h[{i}] = f[i]
  <2>1. h[{}] = 0
    BY <1>1, <1>5
  <2>2. h[{i}] = f[i] + h[{i} \ {i}]
    BY <1>1, <1>5
  <2>3. QED
    BY <1>1, <2>1, <2>2
<1>6. (CHOOSE h : h = step(h))[{i}] = f[i]
  BY <1>4, <1>5
<1>7. QED
  BY <1>6 DEF SumFunctionOnSet, FoldFunctionOnSet, MapThenFoldSet

\* What Stripe has said of p.
Mine(p) == {e \in events : e.pay = p}

Sessions(p) == {e \in Mine(p) : e.kind \in SessionKinds}

\* The status each end of a session stands for.
Shows == [awaiting |-> "processing", paid |-> "succeeded", unpaid |-> "failed",
          expired |-> "canceled"]

LEMMA ShowsAre == DOMAIN Shows = {"awaiting", "paid", "unpaid", "expired"}
BY DEF Shows

(***************************************************************************)
(* Stripe's events of a payment tell what became of it: later events carry *)
(* later times, the latest one of its session says how the session stands, *)
(* and one of its refunds says how much has gone back.                     *)
(***************************************************************************)
LatestIs(p, e) ==
  /\ e \in Sessions(p) /\ StatusOf[e.kind] = Shows[session[p]]
  /\ \A d \in Sessions(p) : d = e \/ d.at < e.at

Told(p) ==
  /\ \A e \in Mine(p) : e.at <= Cardinality(Mine(p))
  /\ session[p] \in DOMAIN Shows => \E e \in events : LatestIs(p, e)
  /\ session[p] \notin DOMAIN Shows => Sessions(p) = {}
  /\ returned[p] <= Price[p]
  /\ returned[p] # 0 => \E e \in Mine(p) : e.kind = RefundKind /\ e.amount = returned[p]
  /\ \A e \in Mine(p) : e.kind = RefundKind => session[p] = "paid" /\ returned[p] # 0

LEMMA RowsOfEvents ==
  ASSUME Types, NEW p \in Payment
  PROVE  /\ \A i \in Rows(p) : log[i] \in Mine(p)
         /\ \A i \in Rows(p) : log[i] \in Event
         /\ \A i \in RefundRows(p) : log[i] \in Mine(p) /\ log[i].kind = RefundKind
         /\ \A i \in SessionRows(p) : log[i] \in Sessions(p)
         /\ FullyLearned(p) => \A e \in Mine(p) : \E i \in Rows(p) : log[i] = e
         /\ FullyLearned(p) => \A e \in Sessions(p) : \E i \in SessionRows(p) : log[i] = e
         /\ FullyLearned(p) =>
              \A e \in Mine(p) : e.kind = RefundKind => \E i \in RefundRows(p) : log[i] = e
         /\ HasRows(p) <=> Rows(p) # {}
<1>1. /\ log \in Seq(Event) /\ \A i \in DOMAIN log : log[i] \in events /\ log[i] \in Event
  BY DEF Types, Range
<1>2. \A i \in Rows(p) : log[i] \in Mine(p) /\ log[i] \in Event
  BY <1>1 DEF Rows, Mine
<1>3. FullyLearned(p) => \A e \in Mine(p) : \E i \in Rows(p) : log[i] = e
  BY DEF FullyLearned, Recorded, Range, Rows, Mine
<1>4. \A i \in Rows(p) : log[i].kind # RefundKind <=> log[i].kind \in SessionKinds
  BY <1>2, KindsAre DEF Event
<1>5. HasRows(p) <=> Rows(p) # {}
  BY RowsAre DEF Rows
<1>6. QED
  BY <1>2, <1>3, <1>4, <1>5, KindsAre DEF RefundRows, SessionRows, Sessions

LEMMA LastStatusIs ==
  ASSUME Types, NEW p \in Payment, Told(p), HasRows(p), FullyLearned(p)
  PROVE  session[p] \in DOMAIN Shows /\ LastStatus(p) = Shows[session[p]]
<1>1. session[p] \in DOMAIN Shows
  <2>1. PICK i \in Rows(p) : log[i] \in Mine(p) /\ log[i] \in Event
    BY RowsOfEvents
  <2>2. CASE log[i].kind = RefundKind
    BY <2>1, <2>2, ShowsAre DEF Told
  <2>3. CASE log[i].kind # RefundKind
    BY <2>1, <2>3, KindsAre DEF Told, Sessions, Event
  <2>4. QED
    BY <2>2, <2>3
<1>2. PICK e \in events : LatestIs(p, e)
  BY <1>1 DEF Told
<1>3. \A d \in Sessions(p) : d.at \in Nat
  BY DEF Sessions, Mine, Types, Event
<1>4. PICK i \in SessionRows(p) : log[i] = e
  BY <1>2, RowsOfEvents DEF LatestIs
<1>5. \A j \in SessionRows(p) : Ordered(j, i)
  <2>1. ASSUME NEW j \in SessionRows(p) PROVE log[j].at <= log[i].at
    <3>1. log[j] \in Sessions(p)
      BY RowsOfEvents
    <3>2. log[j] = e \/ log[j].at < e.at
      BY <1>2, <3>1 DEF LatestIs
    <3>3. log[j].at \in Nat /\ e.at \in Nat
      BY <1>2, <1>3, <3>1 DEF LatestIs
    <3>4. QED
      BY <1>4, <3>2, <3>3
  <2>2. QED
    BY <2>1 DEF Ordered
<1>6. ASSUME NEW j \in SessionRows(p), \A k \in SessionRows(p) : Ordered(k, j)
      PROVE  log[j] = e
  <2>1. e.at <= log[j].at /\ log[j] \in Sessions(p)
    BY <1>4, <1>6, RowsOfEvents DEF Ordered
  <2>2. log[j] = e \/ log[j].at < e.at
    BY <1>2, <2>1 DEF LatestIs
  <2>3. log[j].at \in Nat /\ e.at \in Nat
    BY <1>2, <1>3, <2>1 DEF LatestIs
  <2>4. QED
    BY <2>1, <2>2, <2>3
<1>7. log[CHOOSE j \in SessionRows(p) : \A k \in SessionRows(p) : Ordered(k, j)] = e
  BY <1>5, <1>6
<1>8. QED
  BY <1>1, <1>2, <1>4, <1>7 DEF LastStatus, LatestIs

LEMMA RefundedIs ==
  ASSUME Types, NEW p \in Payment, Told(p), FullyLearned(p), Cardinality(RefundRows(p)) <= 1
  PROVE  Refunded(p) = returned[p] /\ (returned[p] # 0 => session[p] = "paid")
<1> DEFINE amounts == [i \in DOMAIN log |-> log[i].amount]
<1>1. returned[p] \in Nat
  BY DEF Types
<1>2. IsFiniteSet(RefundRows(p))
  <2>1. RefundRows(p) \in SUBSET (1 .. Len(log)) /\ Len(log) \in Nat
    BY DEF RefundRows, Rows, Types
  <2>2. IsFiniteSet(1 .. Len(log))
    BY <2>1, FS_Interval
  <2>3. QED
    BY <2>1, <2>2, FS_Subset
<1>3. RefundRows(p) = {} \/ \E i : RefundRows(p) = {i}
  <2>1. Cardinality(RefundRows(p)) \in Nat
    BY <1>2, FS_CardinalityType
  <2>2. Cardinality(RefundRows(p)) = 0 \/ Cardinality(RefundRows(p)) = 1
    BY <2>1
  <2>3. QED
    BY <1>2, <2>2, FS_EmptySet, FS_Singleton
<1>4. CASE RefundRows(p) = {}
  <2>1. Refunded(p) = 0
    BY <1>4, SumNone DEF Refunded
  <2>2. returned[p] = 0
    BY <1>4, RowsOfEvents DEF Told
  <2>3. QED
    BY <2>1, <2>2
<1>5. ASSUME NEW i, RefundRows(p) = {i} PROVE Refunded(p) = returned[p] /\ session[p] = "paid"
  <2>1. /\ log[i] \in Mine(p) /\ log[i].kind = RefundKind
        /\ i \in DOMAIN log /\ log[i] \in Event
    BY <1>5, RowsOfEvents DEF RefundRows, Rows
  <2>2. returned[p] # 0 /\ session[p] = "paid"
    BY <2>1 DEF Told
  <2>3. PICK e \in Mine(p) : e.kind = RefundKind /\ e.amount = returned[p]
    BY <2>2 DEF Told
  <2>4. log[i] = e
    BY <1>5, <2>3, RowsOfEvents
  <2>5. amounts[i] = returned[p]
    BY <2>1, <2>3, <2>4
  <2>6. SumFunctionOnSet(amounts, {i}) = amounts[i]
    BY <1>1, <2>5, SumOne
  <2>7. QED
    BY <1>5, <2>2, <2>5, <2>6 DEF Refunded
<1>6. QED
  BY <1>3, <1>4, <1>5

\* From a complete log with at most one refund, the derivation finds what
\* Stripe knows, whatever the order of its rows.
LEMMA Derives ==
  ASSUME Types, NEW p \in Payment, Told(p), HasRows(p), FullyLearned(p),
         Cardinality(RefundRows(p)) <= 1
  PROVE  DeriveStatus(p) = TrueStatus(p)
<1>1. session[p] \in {"awaiting", "paid", "unpaid", "expired"} /\ LastStatus(p) = Shows[session[p]]
  BY LastStatusIs, ShowsAre
<1>2. /\ Refunded(p) = returned[p] /\ (returned[p] # 0 => session[p] = "paid")
      /\ returned[p] \in Nat /\ Price[p] \in Nat \ {0} /\ returned[p] <= Price[p]
  BY RefundedIs, Prices DEF Types, Told
<1>3. Rows(p) # {}
  BY RowsOfEvents
<1>4. CASE session[p] = "paid"
  <2>1. LastStatus(p) = "succeeded"
    BY <1>1, <1>4 DEF Shows
  <2>2. TrueStatus(p) = IF returned[p] = Price[p] THEN "refunded" ELSE "succeeded"
    BY <1>4 DEF TrueStatus
  <2>3. QED
    BY <1>2, <1>3, <2>1, <2>2 DEF DeriveStatus
<1>5. CASE session[p] # "paid"
  <2>1. Refunded(p) = 0
    BY <1>2, <1>5
  <2>2. DeriveStatus(p) = LastStatus(p)
    BY <1>2, <1>3, <2>1 DEF DeriveStatus
  <2>3. LastStatus(p) = TrueStatus(p)
    BY <1>1, <1>5 DEF TrueStatus, Shows
  <2>4. QED
    BY <2>2, <2>3
<1>6. QED
  BY <1>4, <1>5

-----------------------------------------------------------------------------
(* The reconciler: what a step says *)

\* A session comes to an end, or to wait for its money, and an event says so.
Says(p, kind, s) ==
  /\ session[p] \in {"open", "awaiting"} /\ session' = [session EXCEPT ![p] = s]
  /\ Emit(p, kind, Price[p], FALSE) /\ StatusOf[kind] = Shows[s]
  /\ returned' = returned

\* Nothing is said.
Silent ==
  /\ UNCHANGED <<events, returned>>
  /\ \/ session' = session
     \/ \E p \in Payment : session[p] = "none" /\ session' = [session EXCEPT ![p] = "open"]

LEMMA SaysOne ==
  ASSUME NEW p \in Payment, Complete(p) \/ Settle(p) \/ Expire(p)
  PROVE  \E kind \in SessionKinds, s \in DOMAIN Shows : Says(p, kind, s)
<1> USE KindsAre, ShowsAre DEF Says, Becomes
<1>1. ASSUME NEW kind \in SessionKinds, NEW s \in DOMAIN Shows, Says(p, kind, s)
      PROVE  \E k \in SessionKinds, r \in DOMAIN Shows : Says(p, k, r)
  BY <1>1
<1>2. /\ StatusOf["completed_paid"] = Shows["paid"] /\ StatusOf["async_succeeded"] = Shows["paid"]
      /\ StatusOf["completed_unpaid"] = Shows["awaiting"]
      /\ StatusOf["async_failed"] = Shows["unpaid"] /\ StatusOf["expired"] = Shows["expired"]
  BY DEF StatusOf, Shows
<1>3. CASE Complete(p)
  <2>1. Says(p, "completed_paid", "paid") \/ Says(p, "completed_unpaid", "awaiting")
    BY <1>2, <1>3 DEF Complete
  <2>2. QED
    BY <1>1, <2>1
<1>4. CASE Settle(p)
  <2>1. Says(p, "async_succeeded", "paid") \/ Says(p, "async_failed", "unpaid")
    BY <1>2, <1>4 DEF Settle
  <2>2. QED
    BY <1>1, <2>1
<1>5. CASE Expire(p)
  <2>1. Says(p, "expired", "expired")
    BY <1>2, <1>5 DEF Expire
  <2>2. QED
    BY <1>1, <2>1
<1>6. QED
  BY <1>3, <1>4, <1>5

LEMMA SilentOr ==
  ASSUME Types, [RNext]_rvars
  PROVE  \/ Silent
         \/ \E p \in Payment, kind \in SessionKinds, s \in DOMAIN Shows : Says(p, kind, s)
         \/ \E p \in Payment : RefundCharge(p)
<1>1. ASSUME NEW p \in Payment, HandlerStep(p) PROVE Silent
  BY <1>1, HandlerWrites DEF Silent
<1>2. ASSUME NEW p \in Payment, StripeOpens(p) \/ ForeignOpens(p) \/ StripeDrops(p) PROVE Silent
  BY <1>2 DEF StripeOpens, ForeignOpens, StripeDrops, Becomes, Silent
<1>3. CASE \/ \E e \in events : Deliver(e)
           \/ UNCHANGED vars \/ LoadPayments \/ LoadEvents
           \/ \E p \in Payment : EditByHand(p)
  BY <1>3 DEF Deliver, vars, stripeVars, LoadPayments, LoadEvents, EditByHand, Silent
<1>4. ASSUME NEW p \in Payment, Complete(p) \/ Settle(p) \/ Expire(p)
      PROVE  \E q \in Payment, kind \in SessionKinds, s \in DOMAIN Shows : Says(q, kind, s)
  BY <1>4, SaysOne
<1>5. CASE Next
  BY <1>1, <1>2, <1>3, <1>4, <1>5 DEF Next, HandlerStep, CheckoutStep, StripeStep
<1>6. CASE UNCHANGED rvars
  BY <1>3, <1>6 DEF rvars
<1>7. QED
  BY <1>3, <1>5, <1>6 DEF RNext

\* A new event of p comes after its others.
LEMMA EmittedLast ==
  ASSUME Types, NEW p \in Payment, NEW kind \in Kinds, NEW amount \in Nat, NEW full \in BOOLEAN,
         Emit(p, kind, amount, full), \A d \in Mine(p) : d.at <= Cardinality(Mine(p))
  PROVE  \E e \in Event :
           /\ e.kind = kind /\ e.pay = p /\ e.amount = amount
           /\ events' = events \cup {e} /\ IsFiniteSet(events')
           /\ Mine(p)' = Mine(p) \cup {e}
           /\ \A d \in Mine(p) : d.at < e.at
           /\ \A d \in Mine(p)' : d.at <= Cardinality(Mine(p)')
           /\ \A q \in Payment \ {p} : Mine(q)' = Mine(q)
<1> DEFINE n == Cardinality(Mine(p))
           e == [kind |-> kind, pay |-> p, at |-> n + 1, amount |-> amount, full |-> full]
<1>1. IsFiniteSet(Mine(p)) /\ n \in Nat
  BY FS_Subset, FS_CardinalityType DEF Types, Mine
<1>2. e \in Event /\ events' = events \cup {e}
  BY <1>1 DEF Event, Emit, Mine
<1>3. IsFiniteSet(events')
  BY <1>2, FS_AddElement DEF Types
<1>4. \A d \in Mine(p) : d.at \in Nat
  BY DEF Types, Mine, Event
<1>5. \A d \in Mine(p) : d.at < e.at
  BY <1>1, <1>4
<1>6. e \notin Mine(p)
  BY <1>1
<1>7. Mine(p)' = Mine(p) \cup {e}
  BY <1>2 DEF Mine
<1>8. Cardinality(Mine(p) \cup {e}) = n + 1
  BY <1>1, <1>6, FS_AddElement
<1>9. \A d \in Mine(p) \cup {e} : d.at <= n + 1
  BY <1>1, <1>4
<1>10. \A d \in Mine(p)' : d.at <= Cardinality(Mine(p)')
  BY <1>7, <1>8, <1>9
<1>11. \A q \in Payment \ {p} : Mine(q)' = Mine(q)
  BY <1>2 DEF Mine
<1> HIDE DEF e
<1>12. e.kind = kind /\ e.pay = p /\ e.amount = amount
  BY DEF e
<1>13. QED
  BY <1>2, <1>3, <1>5, <1>7, <1>10, <1>11, <1>12

\* What has been told of one payment stays told while nothing of it changes.
LEMMA ToldAlready ==
  ASSUME NEW q \in Payment, Told(q), Mine(q)' = Mine(q), returned'[q] = returned[q],
         \/ session'[q] = session[q]
         \/ session[q] = "none" /\ session'[q] = "open"
  PROVE  Told(q)'
<1>1. Sessions(q)' = Sessions(q)
  BY DEF Sessions
<1>2. CASE session'[q] = session[q]
  <2>1. \A e : LatestIs(q, e) => LatestIs(q, e)'
    BY <1>1, <1>2 DEF LatestIs
  <2>2. session'[q] \in DOMAIN Shows => \E e \in events' : LatestIs(q, e)'
    BY <1>2, <2>1 DEF Told, LatestIs, Sessions, Mine
  <2>3. QED
    BY <1>1, <1>2, <2>2 DEF Told
<1>3. CASE session[q] = "none" /\ session'[q] = "open"
  <2>1. session[q] \notin DOMAIN Shows /\ session'[q] \notin DOMAIN Shows
    BY <1>3, ShowsAre
  <2>2. \A e \in Mine(q) : e.kind # RefundKind
    BY <1>3 DEF Told
  <2>3. QED
    BY <1>1, <2>1, <2>2 DEF Told
<1>4. QED
  BY <1>2, <1>3

LEMMA SaysTold ==
  ASSUME Types, \A q \in Payment : Told(q),
         NEW p \in Payment, NEW kind \in SessionKinds, NEW s \in DOMAIN Shows, Says(p, kind, s)
  PROVE  \A q \in Payment : Told(q)'
<1>1. /\ session[p] \in {"open", "awaiting"} /\ session' = [session EXCEPT ![p] = s]
      /\ Emit(p, kind, Price[p], FALSE) /\ StatusOf[kind] = Shows[s] /\ returned' = returned
      /\ session \in [Payment -> SessionStates]
  BY DEF Says, Types
<1>2. PICK e \in Event :
        /\ e.kind = kind /\ e.pay = p /\ events' = events \cup {e}
        /\ Mine(p)' = Mine(p) \cup {e}
        /\ \A d \in Mine(p) : d.at < e.at
        /\ \A d \in Mine(p)' : d.at <= Cardinality(Mine(p)')
        /\ \A q \in Payment \ {p} : Mine(q)' = Mine(q)
  <2>1. kind \in Kinds /\ Price[p] \in Nat /\ FALSE \in BOOLEAN
    BY KindsAre, Prices
  <2>2. \A d \in Mine(p) : d.at <= Cardinality(Mine(p))
    BY DEF Told
  <2>3. PICK full \in BOOLEAN, amount \in Nat : Emit(p, kind, amount, full)
    BY <1>1, <2>1
  <2>4. QED
    BY <2>1, <2>2, <2>3, EmittedLast
<1>3. \A d \in Mine(p) : d.kind # RefundKind
  BY <1>1 DEF Told
<1>4. session'[p] = s /\ session'[p] \in DOMAIN Shows /\ \A q \in Payment \ {p} : session'[q] = session[q]
  BY <1>1
<1>5. Sessions(p)' = Sessions(p) \cup {e}
  BY <1>2 DEF Sessions
<1>6. e \in events' /\ LatestIs(p, e)'
  <2>1. \A d \in Sessions(p)' : d = e \/ d.at < e.at
    BY <1>2, <1>5 DEF Sessions
  <2>2. QED
    BY <1>1, <1>2, <1>4, <1>5, <2>1 DEF LatestIs
<1>7. Told(p)'
  <2>1. \A d \in Mine(p)' : d.kind # RefundKind
    BY <1>2, <1>3, KindsAre
  <2>2. returned'[p] = returned[p] /\ returned[p] <= Price[p] /\ returned[p] = 0
    BY <1>1, <1>3 DEF Told
  <2>3. QED
    BY <1>2, <1>4, <1>6, <2>1, <2>2 DEF Told
<1>8. ASSUME NEW q \in Payment \ {p} PROVE Told(q)'
  BY <1>1, <1>2, <1>4, ToldAlready
<1>9. QED
  BY <1>7, <1>8

LEMMA RefundTold ==
  ASSUME Types, \A q \in Payment : Told(q), NEW p \in Payment, RefundCharge(p)
  PROVE  \A q \in Payment : Told(q)'
<1>1. PICK n \in 1 .. Price[p] - returned[p] :
        /\ returned' = [returned EXCEPT ![p] = @ + n]
        /\ Emit(p, RefundKind, returned[p] + n, returned[p] + n = Price[p])
  BY DEF RefundCharge
<1>2. /\ session[p] = "paid" /\ session' = session
      /\ returned[p] \in Nat /\ Price[p] \in Nat /\ n \in Nat \ {0}
      /\ returned[p] + n <= Price[p] /\ returned[p] + n \in Nat \ {0}
      /\ returned'[p] = returned[p] + n
      /\ \A q \in Payment \ {p} : returned'[q] = returned[q]
  BY <1>1, Prices DEF RefundCharge, Types
<1>3. PICK full \in BOOLEAN : Emit(p, RefundKind, returned'[p], full)
  <2>1. (returned[p] + n = Price[p]) \in BOOLEAN
    OBVIOUS
  <2>2. QED
    BY <1>1, <1>2, <2>1
<1>4. PICK e \in Event :
        /\ e.kind = RefundKind /\ e.pay = p /\ e.amount = returned'[p]
        /\ events' = events \cup {e}
        /\ Mine(p)' = Mine(p) \cup {e}
        /\ \A d \in Mine(p)' : d.at <= Cardinality(Mine(p)')
        /\ \A q \in Payment \ {p} : Mine(q)' = Mine(q)
  <2>1. RefundKind \in Kinds /\ returned'[p] \in Nat
    BY <1>2, KindsAre
  <2>2. \A d \in Mine(p) : d.at <= Cardinality(Mine(p))
    BY DEF Told
  <2>3. QED
    BY <1>3, <2>1, <2>2, EmittedLast
<1>5. Sessions(p)' = Sessions(p)
  BY <1>4, KindsAre DEF Sessions
<1>6. "paid" \in DOMAIN Shows
  BY ShowsAre
<1>7. \E d \in events' : LatestIs(p, d)'
  <2>1. PICK d \in events : LatestIs(p, d)
    BY <1>2, <1>6 DEF Told
  <2>2. LatestIs(p, d)' /\ d \in events'
    BY <1>2, <1>4, <1>5, <2>1 DEF LatestIs
  <2>3. QED
    BY <2>2
<1>8. Told(p)'
  <2>1. returned'[p] <= Price[p] /\ returned'[p] # 0 /\ session'[p] = "paid"
    BY <1>2
  <2>2. e \in Mine(p)'
    BY <1>4
  <2>3. QED
    BY <1>4, <1>6, <1>7, <2>1, <2>2 DEF Told
<1>9. ASSUME NEW q \in Payment \ {p} PROVE Told(q)'
  BY <1>2, <1>4, ToldAlready
<1>10. QED
  BY <1>8, <1>9

LEMMA ToldStep ==
  ASSUME Types, \A q \in Payment : Told(q), [RNext]_rvars
  PROVE  \A q \in Payment : Told(q)'
<1>1. CASE Silent
  <2>1. ASSUME NEW q \in Payment PROVE Told(q)'
    <3>1. Mine(q)' = Mine(q) /\ returned'[q] = returned[q]
      BY <1>1 DEF Silent, Mine
    <3>2. session'[q] = session[q] \/ (session[q] = "none" /\ session'[q] = "open")
      BY <1>1 DEF Silent, Types
    <3>3. QED
      BY <3>1, <3>2, ToldAlready
  <2>2. QED
    BY <2>1
<1>2. QED
  BY <1>1, SilentOr, SaysTold, RefundTold

LEMMA TypesStep == Types /\ (\A q \in Payment : Told(q)) /\ [RNext]_rvars => Types'
<1> SUFFICES ASSUME Types, \A q \in Payment : Told(q), [RNext]_rvars PROVE Types'
  OBVIOUS
<1>1. ASSUME NEW p \in Payment, HandlerStep(p) PROVE Types'
  <2>1. PICK step \in CheckoutSteps : pc' = [pc EXCEPT ![p] = step]
    BY <1>1, HandlerWrites
  <2>2. /\ UNCHANGED <<intent, log, session, returned, events>>
        /\ \/ status' = status
           \/ \E s \in {"created", "processing", "failed"} : status' = [status EXCEPT ![p] = s]
    BY <1>1, HandlerWrites
  <2>3. status' \in [Payment -> Statuses]
    BY <2>2 DEF Types, Statuses
  <2>4. QED
    BY <2>1, <2>2, <2>3 DEF Types
<1>2. ASSUME NEW e \in events, Deliver(e) PROVE Types'
  BY <1>2, DeliveryTypes
<1>3. ASSUME NEW p \in Payment, StripeOpens(p) \/ ForeignOpens(p) \/ StripeDrops(p) PROVE Types'
  BY <1>3 DEF StripeOpens, ForeignOpens, StripeDrops, Becomes, ledgerVars, Types, SessionStates
<1>4. ASSUME NEW p \in Payment, Complete(p) \/ Settle(p) \/ Expire(p) PROVE Types'
  <2>1. UNCHANGED <<status, intent, log, pc, returned>>
    BY <1>4 DEF Complete, Settle, Expire, ledgerVars
  <2>2. PICK kind \in SessionKinds, s \in DOMAIN Shows : Says(p, kind, s)
    BY <1>4, SaysOne
  <2>3. session' \in [Payment -> SessionStates]
    BY <2>2, ShowsAre DEF Says, Types, SessionStates
  <2>4. events' \in SUBSET Event /\ IsFiniteSet(events') /\ events \subseteq events'
    <3>1. kind \in Kinds /\ Price[p] \in Nat /\ FALSE \in BOOLEAN /\ Emit(p, kind, Price[p], FALSE)
      BY <2>2, KindsAre, Prices DEF Says
    <3>2. QED
      BY <3>1, Emitted
  <2>5. QED
    BY <2>1, <2>3, <2>4 DEF Types
<1>5. ASSUME NEW p \in Payment, RefundCharge(p) PROVE Types'
  <2>1. UNCHANGED <<status, intent, log, pc, session>>
    BY <1>5 DEF RefundCharge, ledgerVars
  <2>2. PICK n \in 1 .. Price[p] - returned[p] :
          /\ returned' = [returned EXCEPT ![p] = @ + n]
          /\ Emit(p, RefundKind, returned[p] + n, returned[p] + n = Price[p])
    BY <1>5 DEF RefundCharge
  <2>3. returned[p] \in Nat /\ n \in Nat /\ returned[p] + n \in Nat
    BY <2>2, Prices DEF Types
  <2>4. returned' \in [Payment -> Nat]
    BY <2>2, <2>3 DEF Types
  <2>5. PICK full \in BOOLEAN : Emit(p, RefundKind, returned[p] + n, full)
    <3>1. (returned[p] + n = Price[p]) \in BOOLEAN
      OBVIOUS
    <3>2. QED
      BY <2>2, <3>1
  <2>6. events' \in SUBSET Event /\ IsFiniteSet(events') /\ events \subseteq events'
    <3>1. RefundKind \in Kinds
      BY KindsAre
    <3>2. QED
      BY <2>3, <2>5, <3>1, Emitted, Zenon
  <2>7. QED
    BY <2>1, <2>4, <2>6 DEF Types
<1>6. CASE LoadPayments \/ LoadEvents \/ UNCHANGED vars
  BY <1>6 DEF LoadPayments, LoadEvents, vars, ledgerVars, stripeVars, Types
<1>7. ASSUME NEW p \in Payment, EditByHand(p) PROVE Types'
  BY <1>7 DEF EditByHand, SetStatus, stripeVars, Types
<1>8. CASE Next
  BY <1>1, <1>2, <1>3, <1>4, <1>5, <1>8 DEF Next, HandlerStep, CheckoutStep, StripeStep
<1>9. QED
  BY <1>6, <1>7, <1>8 DEF RNext, rvars

-----------------------------------------------------------------------------
(* The reconciler: what a run knows *)

\* What a run has read is what it reports on, for as long as no row is added.
RunKnows ==
  /\ \A p \in Payment : intent[p] \/ HasRows(p) => status[p] # "none"
  /\ reading # "idle" =>
       /\ learned \in Nat /\ learned <= Len(log)
       /\ Quiet => \A p \in Payment : HasRows(p) => seen[p] # "none"
  /\ reading = "done" /\ Quiet =>
       report = {p \in Payment : seen[p] # "none" /\ Discrepancy(p, seen[p])}

ReportInductive == Types /\ (\A p \in Payment : Told(p)) /\ RunKnows

\* A payment that is in the table stays there, and only a delivery gives it
\* rows or an intent.
LEMMA StaysKnown ==
  ASSUME Types, [RNext]_rvars
  PROVE  /\ \A q \in Payment : status[q] # "none" => status'[q] # "none"
         /\ \/ UNCHANGED <<intent, log>>
            \/ \E e \in events :
                 /\ log' = Append(log, e) /\ UNCHANGED runVars
                 /\ status[e.pay] # "none" \/ intent[e.pay]
                 /\ \A q \in Payment \ {e.pay} : intent'[q] = intent[q]
<1> DEFINE Known1 == \A q \in Payment : status[q] # "none" => status'[q] # "none"
           Row == \E e \in events :
                    /\ log' = Append(log, e)
                    /\ status[e.pay] # "none" \/ intent[e.pay]
                    /\ \A q \in Payment \ {e.pay} : intent'[q] = intent[q]
<1>1. ASSUME NEW p \in Payment, HandlerStep(p) PROVE Known1 /\ UNCHANGED <<intent, log>>
  BY <1>1, HandlerWrites DEF Types
<1>2. ASSUME NEW p \in Payment, StripeOpens(p) \/ StripeDrops(p) \/ StripeStep(p)
      PROVE  Known1 /\ UNCHANGED <<intent, log>>
  BY <1>2, StripeWrites
<1>3. ASSUME NEW e \in events, Deliver(e)
      PROVE  Known1 /\ (UNCHANGED <<intent, log>> \/ Row)
  <2>1. e.pay \in Payment /\ e.kind \in Kinds
    BY DEF Types, Event
  <2>2. Known1
    <3>1. CASE status' = status
      BY <3>1
    <3>2. CASE e.kind # RefundKind /\ status' = [status EXCEPT ![e.pay] = StatusOf[e.kind]]
      BY <2>1, <3>2, KindsAre DEF Types
    <3>3. CASE status' = [status EXCEPT ![e.pay] = AfterRefund(@, e.full)]
      BY <2>1, <3>3 DEF Types, AfterRefund
    <3>4. QED
      BY <1>3, <3>1, <3>2, <3>3, DeliveryWrites
  <2>3. UNCHANGED <<intent, log>> \/ Row
    BY <1>3, <2>1, DeliveryWrites DEF Types
  <2>4. QED
    BY <2>2, <2>3
<1>4. CASE LoadPayments \/ LoadEvents \/ UNCHANGED rvars
  BY <1>4 DEF LoadPayments, LoadEvents, rvars, vars, ledgerVars
<1>5. ASSUME NEW p \in Payment, EditByHand(p) PROVE Known1 /\ UNCHANGED <<intent, log>>
  BY <1>5 DEF EditByHand, SetStatus, Types
<1>6. CASE Next /\ UNCHANGED runVars
  <2> HIDE DEF Known1, Row
  <2>1. Known1 /\ (UNCHANGED <<intent, log>> \/ Row)
    BY <1>1, <1>2, <1>3, <1>6 DEF Next, HandlerStep, CheckoutStep
  <2>2. QED
    BY <1>6, <2>1 DEF Known1, Row
<1>7. QED
  BY <1>4, <1>5, <1>6 DEF RNext

\* What a run would say of a payment depends on the log and on what it has
\* seen, on nothing else.
LEMMA SameVerdict ==
  ASSUME UNCHANGED <<log, seen>>
  PROVE  \A p \in Payment : Discrepancy(p, seen[p])' = Discrepancy(p, seen[p])
<1> SUFFICES ASSUME NEW p \in Payment
             PROVE  Discrepancy(p, seen[p])' = Discrepancy(p, seen[p])
  OBVIOUS
<1>1. Rows(p)' = Rows(p)
  BY DEF Rows
<1>2. RefundRows(p)' = RefundRows(p)
  BY <1>1 DEF RefundRows
<1>3. SessionRows(p)' = SessionRows(p)
  BY <1>1, <1>2 DEF SessionRows
<1>4. LastStatus(p)' = LastStatus(p)
  BY <1>3 DEF LastStatus, Ordered
<1>5. Refunded(p)' = Refunded(p)
  BY <1>2 DEF Refunded
<1>6. DeriveStatus(p)' = DeriveStatus(p)
  BY <1>1, <1>4, <1>5 DEF DeriveStatus
<1>7. QED
  BY <1>6 DEF Discrepancy

LEMMA RunStep ==
  ASSUME Types, RunKnows, [RNext]_rvars
  PROVE  RunKnows'
<1>1. /\ \A q \in Payment : status[q] # "none" => status'[q] # "none"
      /\ log \in Seq(Event) /\ Len(log) \in Nat
  BY StaysKnown DEF Types
<1>2. CASE UNCHANGED <<intent, log>>
  <2>1. \A p \in Payment : HasRows(p)' = HasRows(p)
    BY <1>2 DEF HasRows, Range
  <2>2. \A p \in Payment : intent'[p] \/ HasRows(p)' => status'[p] # "none"
    BY <1>1, <1>2, <2>1 DEF RunKnows
  <2>3. CASE UNCHANGED runVars
    <3>1. Quiet' = Quiet
      BY <1>2, <2>3 DEF Quiet, runVars
    <3>2. \A p \in Payment : Discrepancy(p, seen[p])' = Discrepancy(p, seen[p])
      BY <1>2, <2>3, SameVerdict DEF runVars
    <3>3. QED
      BY <1>2, <2>1, <2>2, <2>3, <3>1, <3>2 DEF RunKnows, runVars
  <2>4. CASE LoadPayments
    <3>1. \A p \in Payment : HasRows(p)' => seen'[p] # "none"
      BY <2>1, <2>4 DEF LoadPayments, RunKnows
    <3>2. reading' = "payments" /\ learned' = Len(log)
      BY <2>4 DEF LoadPayments
    <3>3. QED
      BY <1>1, <1>2, <2>2, <3>1, <3>2 DEF RunKnows
  <2>5. CASE LoadEvents
    <3>1. /\ reading = "payments" /\ reading' = "done" /\ UNCHANGED <<seen, learned>>
          /\ report' = {p \in Payment : seen[p] # "none" /\ Discrepancy(p, seen[p])}
      BY <2>5 DEF LoadEvents
    <3>2. Quiet' = Quiet
      BY <1>2, <3>1 DEF Quiet
    <3>3. \A p \in Payment : Discrepancy(p, seen[p])' = Discrepancy(p, seen[p])
      BY <1>2, <3>1, SameVerdict
    <3>4. QED
      BY <1>2, <2>1, <2>2, <3>1, <3>2, <3>3 DEF RunKnows
  <2>6. QED
    BY <2>3, <2>4, <2>5 DEF RNext, rvars, EditByHand
<1>3. ASSUME NEW e \in events, log' = Append(log, e), UNCHANGED runVars,
             status[e.pay] # "none" \/ intent[e.pay],
             \A q \in Payment \ {e.pay} : intent'[q] = intent[q]
      PROVE  RunKnows'
  <2>1. e \in Event /\ e.pay \in Payment
    BY DEF Types, Event
  <2>2. Range(log') = Range(log) \cup {e} /\ Len(log') = Len(log) + 1
    BY <1>1, <1>3, <2>1, RangeAppend
  <2>3. \A p \in Payment \ {e.pay} : HasRows(p)' => HasRows(p)
    BY <2>2 DEF HasRows
  <2>4. status[e.pay] # "none"
    BY <1>3, <2>1 DEF RunKnows
  <2>5. \A p \in Payment : intent'[p] \/ HasRows(p)' => status'[p] # "none"
    BY <1>1, <1>3, <2>1, <2>3, <2>4 DEF RunKnows
  <2>6. reading' # "idle" => learned' \in Nat /\ learned' <= Len(log') /\ ~Quiet'
    BY <1>1, <1>3, <2>2 DEF RunKnows, Quiet, runVars
  <2>7. QED
    BY <2>5, <2>6 DEF RunKnows
<1>4. QED
  BY <1>2, <1>3, StaysKnown

LEMMA InitReport == RInit => ReportInductive
<1> SUFFICES ASSUME RInit PROVE ReportInductive
  OBVIOUS
<1>1. Init /\ reading = "idle"
  BY DEF RInit
<1>2. Types
  BY <1>1, InitMoney DEF MoneyInductive
<1>3. RunKnows
  BY <1>1, RowsAre DEF Init, RunKnows
<1>4. ASSUME NEW p \in Payment PROVE Told(p)
  <2>1. Mine(p) = {} /\ Sessions(p) = {} /\ session[p] = "none" /\ returned[p] = 0
    BY <1>1 DEF Init, Mine, Sessions
  <2>2. "none" \notin DOMAIN Shows /\ 0 <= Price[p]
    BY ShowsAre, Prices
  <2>3. QED
    BY <2>1, <2>2 DEF Told
<1>5. QED
  BY <1>2, <1>3, <1>4 DEF ReportInductive

LEMMA ReportStep == ReportInductive /\ [RNext]_rvars => ReportInductive'
<1> SUFFICES ASSUME ReportInductive, [RNext]_rvars PROVE ReportInductive'
  OBVIOUS
<1>1. Types /\ (\A p \in Payment : Told(p)) /\ RunKnows
  BY DEF ReportInductive
<1>2. Types' /\ (\A p \in Payment : Told(p)') /\ RunKnows'
  BY <1>1, TypesStep, ToldStep, RunStep
<1>3. QED
  BY <1>2 DEF ReportInductive

LEMMA ReportInductiveHolds == RSpec => []ReportInductive
BY InitReport, ReportStep, PTL DEF RSpec

(***************************************************************************)
(* DeriveStatus finds what Stripe knows of a payment from a complete log   *)
(* with at most one refund, for any payments and prices, in whatever order *)
(* the rows were learned and whatever was typed into the other table.      *)
(***************************************************************************)
THEOREM DerivesTheTruthHolds == RSpec => []DerivesTheTruth
<1>1. ReportInductive => DerivesTheTruth
  BY Derives DEF ReportInductive, DerivesTheTruth
<1>2. QED
  BY <1>1, ReportInductiveHolds, PTL

(***************************************************************************)
(* A run that no row arrived during names exactly the payments whose       *)
(* stored status is not what happened, among those whose rows are complete *)
(* with at most one refund, for any number of payments and edits by hand.  *)
(***************************************************************************)
THEOREM ReportIsRightHolds == RSpec => []ReportIsRight
<1>1. ReportInductive => ReportIsRight
  <2> SUFFICES ASSUME ReportInductive, reading = "done", Quiet, NEW p \in Payment, HasRows(p),
                      FullyLearned(p), Cardinality(RefundRows(p)) <= 1
               PROVE  p \in report <=> seen[p] # TrueStatus(p)
    BY DEF ReportIsRight
  <2>1. DeriveStatus(p) = TrueStatus(p)
    BY Derives DEF ReportInductive
  <2>2. seen[p] # "none" /\ report = {q \in Payment : seen[q] # "none" /\ Discrepancy(q, seen[q])}
    BY DEF ReportInductive, RunKnows
  <2>3. QED
    BY <2>1, <2>2 DEF Discrepancy
<1>2. QED
  BY <1>1, ReportInductiveHolds, PTL

(***************************************************************************)
(* The reconciler only reads: what is proved of Payments holds beside a    *)
(* run of it, unless somebody edits a status by hand.                      *)
(***************************************************************************)
THEOREM RunOnlyReads ==
  ASSUME ~Edits
  PROVE  RSpec => Spec
<1>1. RInit => Init
  BY DEF RInit
<1>2. [RNext]_rvars => [Next]_vars
  BY DEF RNext, rvars, LoadPayments, LoadEvents, EditByHand
<1>3. QED
  BY <1>1, <1>2, PTL DEF RSpec, Spec
==============================================================================
