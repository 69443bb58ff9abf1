------------------------------ MODULE Refunds ------------------------------
(***************************************************************************)
(* Refunds with a four-eyes rule: refund_requests, the four route handlers *)
(* that move its rows, Stripe's side of a refund, and the charge.refunded  *)
(* webhook that tells the ledger.                                          *)
(*                                                                         *)
(* A handler runs one SQL statement or one Stripe call at a time and       *)
(* awaits it, so every await is a point where other handlers, the webhook, *)
(* or a crash may come in between.  One action is one such step.           *)
(***************************************************************************)
EXTENDS Ledger

CONSTANTS User,       \* staff accounts
          Admin,      \* those whose role lets them approve and reject
          Request,    \* refund requests; each is one POST and its body:
          For,        \*   For[r]: the payment it names
          Asked,      \*   Asked[r]: amountMinor, Whole when the body has none
          By,         \*   By[r]: the session's user, requested_by
          NoUser,     \* NULL in decided_by
          Failures    \* whether handlers may die and Stripe's answers get lost

Whole == 0

ASSUME RefundAssumption ==
  /\ Request # {}
  /\ Admin \subseteq User
  /\ NoUser \notin User
  /\ For \in [Request -> Payment]
  /\ Asked \in [Request -> Nat]
  /\ By \in [Request -> User]
  /\ Failures \in BOOLEAN

VARIABLES rstat,     \* rstat[r]: refund_requests.status, "absent" without a row
          decider,   \* decider[r]: decided_by
          refundId,  \* refundId[r]: provider_refund_id IS NOT NULL
          audit,     \* the refund.* rows of audit_logs
          filing,    \* filing[r]: where the handler of r's own POST stands
          at,        \* at[u]: where u's decision call stands
          on,        \* on[u]: the request that call is about
          inflight,  \* refund calls that have left for Stripe
          refunds,   \* the refunds Stripe has made
          returned,  \* returned[p]: the charge's amount_refunded at Stripe
          events     \* the charge.refunded events Stripe has emitted

requestVars == <<rstat, decider, refundId>>
handlerVars == <<filing, at, on>>
stripeVars  == <<inflight, refunds, returned, events>>
vars == <<ledgerVars, requestVars, audit, handlerVars, stripeVars>>

-----------------------------------------------------------------------------
(* Types *)

RequestStatuses == {"absent", "pending", "approved", "rejected", "withdrawn"}

FilingSteps == {"idle", "checked", "inserted", "done"}

\* Where an approve, reject or withdraw call stands between two awaits.
DecisionSteps ==
  {"idle", "noIntent", "calling", "awaiting", "reverting", "auditingFailure",
   "storing", "auditingApproval", "auditingRejection", "auditingWithdrawal"}

\* The steps at which an approve call owns its row.
Holding == {"noIntent", "calling", "awaiting", "reverting", "storing"}

AuditEntry == [action : {"requested", "approved", "approve_failed", "rejected",
                         "withdrawn"},
               req : Request, by : User, amount : Nat]

Call == [key : Request, req : Request, by : User]

StripeRefund == [key : Request, req : Request, by : User, amount : Nat \ {0}]

TypeOK ==
  /\ LedgerTypeOK
  /\ rstat \in [Request -> RequestStatuses]
  /\ decider \in [Request -> User \cup {NoUser}]
  /\ refundId \in [Request -> BOOLEAN]
  /\ audit \subseteq AuditEntry
  /\ filing \in [Request -> FilingSteps]
  /\ at \in [User -> DecisionSteps]
  /\ on \in [User -> Request]
  /\ inflight \subseteq Call
  /\ refunds \subseteq StripeRefund
  /\ returned \in [Payment -> Nat]
  /\ events \subseteq Event

Init ==
  /\ status = [p \in Payment |-> "succeeded"]
  /\ intent \in [Payment -> BOOLEAN]   \* seeded payments carry no intent
  /\ log = <<>>
  /\ rstat = [r \in Request |-> "absent"]
  /\ decider = [r \in Request |-> NoUser]
  /\ refundId = [r \in Request |-> FALSE]
  /\ audit = {}
  /\ filing = [r \in Request |-> "idle"]
  /\ at = [u \in User |-> "idle"]
  /\ on = [u \in User |-> CHOOSE r \in Request : TRUE]
  /\ inflight = {}
  /\ refunds = {}
  /\ returned = [p \in Payment |-> 0]
  /\ events = {}

Audited(action, r, u, n) ==
  audit' = audit \cup {[action |-> action, req |-> r, by |-> u, amount |-> n]}

-----------------------------------------------------------------------------
(* POST /admin/payments/:id/refund-requests *)

FileCheck(r) ==
  /\ filing[r] = "idle"
  /\ status[For[r]] = "succeeded"
  /\ Asked[r] <= Price[For[r]]
  /\ filing' = [filing EXCEPT ![r] = "checked"]
  /\ UNCHANGED <<ledgerVars, requestVars, audit, at, on, stripeVars>>

\* The partial unique index refund_requests_one_pending_per_payment.
\* Slip: no such index.
NoIndex(p, r) == TRUE

SlotFree(p, r) == \A q \in Request \ {r} : For[q] = p => rstat[q] # "pending"

FileInsert(r) ==
  /\ filing[r] = "checked"
  /\ \/ /\ SlotFree(For[r], r)
        /\ rstat' = [rstat EXCEPT ![r] = "pending"]
        /\ filing' = [filing EXCEPT ![r] = "inserted"]
     \/ /\ ~SlotFree(For[r], r)          \* 23505, answered 409
        /\ filing' = [filing EXCEPT ![r] = "done"]
        /\ UNCHANGED rstat
  /\ UNCHANGED <<ledgerVars, decider, refundId, audit, at, on, stripeVars>>

FileAudit(r) ==
  /\ filing[r] = "inserted"
  /\ Audited("requested", r, By[r], Asked[r])
  /\ filing' = [filing EXCEPT ![r] = "done"]
  /\ UNCHANGED <<ledgerVars, requestVars, at, on, stripeVars>>

\* The process dies, or a statement fails and the handler throws.
FileDies(r) ==
  /\ Failures
  /\ filing[r] \in {"checked", "inserted"}
  /\ filing' = [filing EXCEPT ![r] = "done"]
  /\ UNCHANGED <<ledgerVars, requestVars, audit, at, on, stripeVars>>

-----------------------------------------------------------------------------
(* POST /admin/refund-requests/:id/approve *)

Goto(u, step) == at' = [at EXCEPT ![u] = step]

\* The claim: one UPDATE whose WHERE is the whole guard.
\* Slips: the author may approve; a row already claimed is claimed again.
ClaimableByAuthor(u, r) == rstat[r] = "pending"
ClaimableTwice(u, r) == rstat[r] \in {"pending", "approved"} /\ By[r] # u

Claimable(u, r) == rstat[r] = "pending" /\ By[r] # u

\* A payment without a provider_payment_id has nothing to refund against.
\* Slip: the check is left out.
AlwaysCall(r) == "calling"

AfterClaim(r) == IF intent[For[r]] THEN "calling" ELSE "noIntent"

Claim(u, r) ==
  /\ u \in Admin
  /\ at[u] = "idle"
  /\ Claimable(u, r)
  /\ rstat' = [rstat EXCEPT ![r] = "approved"]
  /\ decider' = [decider EXCEPT ![r] = u]
  /\ Goto(u, AfterClaim(r))
  /\ on' = [on EXCEPT ![u] = r]
  /\ UNCHANGED <<ledgerVars, refundId, audit, filing, stripeVars>>

\* revert(): the claim is released, if the row still is the claim's.  Putting
\* the row back takes the pending slot of its payment again, and the index
\* refuses that when another request has been filed meanwhile.
Revertible(r) == rstat[r] = "approved" /\ ~refundId[r]

RevertRow(r) ==
  IF Revertible(r)
  THEN /\ rstat' = [rstat EXCEPT ![r] = "pending"]
       /\ decider' = [decider EXCEPT ![r] = NoUser]
  ELSE UNCHANGED <<rstat, decider>>

RevertRefused(r) == Revertible(r) /\ ~SlotFree(For[r], r)

\* No payment intent to refund against: revert, 409.
GiveUpNoIntent(u) ==
  /\ at[u] = "noIntent"
  /\ IF RevertRefused(on[u]) THEN UNCHANGED <<rstat, decider>> ELSE RevertRow(on[u])
  /\ Goto(u, "idle")
  /\ UNCHANGED <<ledgerVars, refundId, audit, filing, on, stripeVars>>

\* The idempotency key of the refund call: `refund-request-${row.id}`.
\* Slip: a key for each attempt.
KeyPerApprover(u, r) == <<u, r>>

IdempotencyKey(u, r) == r

CallStripe(u) ==
  /\ at[u] = "calling"
  /\ inflight' = inflight \cup
       {[key |-> IdempotencyKey(u, on[u]), req |-> on[u], by |-> u]}
  /\ Goto(u, "awaiting")
  /\ UNCHANGED <<ledgerVars, requestVars, audit, filing, on, refunds, returned, events>>

StripeAnswers(u) ==
  /\ at[u] = "awaiting"
  /\ \E f \in refunds : f.key = IdempotencyKey(u, on[u])
  /\ Goto(u, "storing")
  /\ UNCHANGED <<ledgerVars, requestVars, audit, filing, on, stripeVars>>

\* The call throws: Stripe refused it, or the answer never came.
StripeThrows(u) ==
  /\ at[u] = "awaiting"
  /\ \/ Failures
     \/ /\ \A m \in inflight : m.key # IdempotencyKey(u, on[u])
        /\ \A f \in refunds : f.key # IdempotencyKey(u, on[u])
  /\ Goto(u, "reverting")
  /\ UNCHANGED <<ledgerVars, requestVars, audit, filing, on, stripeVars>>

\* await revert() inside the catch: when the index refuses it, the error
\* leaves the handler before the failed attempt is audited.
Revert(u) ==
  /\ at[u] = "reverting"
  /\ \/ /\ ~RevertRefused(on[u])
        /\ RevertRow(on[u])
        /\ Goto(u, "auditingFailure")
     \/ /\ RevertRefused(on[u])
        /\ Goto(u, "idle")
        /\ UNCHANGED <<rstat, decider>>
  /\ UNCHANGED <<ledgerVars, refundId, audit, filing, on, stripeVars>>

\* recordAuditSafely: the write may fail, and the handler carries on.
AuditFailure(u) ==
  /\ at[u] = "auditingFailure"
  /\ \/ Audited("approve_failed", on[u], u, 0)
     \/ Failures /\ UNCHANGED audit
  /\ Goto(u, "idle")
  /\ UNCHANGED <<ledgerVars, requestVars, filing, on, stripeVars>>

StoreRefundId(u) ==
  /\ at[u] = "storing"
  /\ refundId' = [refundId EXCEPT ![on[u]] = TRUE]
  /\ Goto(u, "auditingApproval")
  /\ UNCHANGED <<ledgerVars, rstat, decider, audit, filing, on, stripeVars>>

\* amountMinor ?? Number(row.payment_amount_minor)
AuditedAmount(r) == IF Asked[r] = Whole THEN Price[For[r]] ELSE Asked[r]

AuditApproval(u) ==
  /\ at[u] = "auditingApproval"
  /\ Audited("approved", on[u], u, AuditedAmount(on[u]))
  /\ Goto(u, "idle")
  /\ UNCHANGED <<ledgerVars, requestVars, filing, on, stripeVars>>

-----------------------------------------------------------------------------
(* POST /admin/refund-requests/:id/withdraw and .../reject *)

\* Slips: withdrawing or rejecting without the guard on status.
WithdrawableAnyTime(u, r) == rstat[r] \in {"pending", "approved"} /\ By[r] = u
RejectableAnyTime(u, r) == rstat[r] \in {"pending", "approved"} /\ By[r] # u

Withdrawable(u, r) == rstat[r] = "pending" /\ By[r] = u
Rejectable(u, r)   == rstat[r] = "pending" /\ By[r] # u

TakenBack == "withdrawn"

Withdraw(u, r) ==
  /\ at[u] = "idle"
  /\ Withdrawable(u, r)
  /\ rstat' = [rstat EXCEPT ![r] = TakenBack]
  /\ decider' = [decider EXCEPT ![r] = u]
  /\ Goto(u, "auditingWithdrawal")
  /\ on' = [on EXCEPT ![u] = r]
  /\ UNCHANGED <<ledgerVars, refundId, audit, filing, stripeVars>>

Reject(u, r) ==
  /\ u \in Admin
  /\ at[u] = "idle"
  /\ Rejectable(u, r)
  /\ rstat' = [rstat EXCEPT ![r] = "rejected"]
  /\ decider' = [decider EXCEPT ![r] = u]
  /\ Goto(u, "auditingRejection")
  /\ on' = [on EXCEPT ![u] = r]
  /\ UNCHANGED <<ledgerVars, refundId, audit, filing, stripeVars>>

AuditDecision(u) ==
  /\ \/ at[u] = "auditingWithdrawal" /\ Audited("withdrawn", on[u], u, 0)
     \/ at[u] = "auditingRejection" /\ Audited("rejected", on[u], u, 0)
  /\ Goto(u, "idle")
  /\ UNCHANGED <<ledgerVars, requestVars, filing, on, stripeVars>>

\* The process dies, or a statement fails and the handler throws.
DecisionDies(u) ==
  /\ Failures
  /\ at[u] # "idle"
  /\ Goto(u, "idle")
  /\ UNCHANGED <<ledgerVars, requestVars, audit, filing, on, stripeVars>>

-----------------------------------------------------------------------------
(* Stripe: one refund per idempotency key, never more than the charge. *)

AmountOf(m) ==
  IF Asked[m.req] = Whole
  THEN Price[For[m.req]] - returned[For[m.req]]
  ELSE Asked[m.req]

StripeRefunds(m) ==
  LET p     == For[m.req]
      total == returned[p] + AmountOf(m)
  IN /\ m \in inflight
     /\ \A f \in refunds : f.key # m.key
     /\ AmountOf(m) > 0
     /\ total <= Price[p]
     /\ refunds' = refunds \cup
          {[key |-> m.key, req |-> m.req, by |-> m.by, amount |-> AmountOf(m)]}
     /\ returned' = [returned EXCEPT ![p] = total]
     /\ events' = events \cup
          {[kind |-> RefundKind, pay |-> p, at |-> total, amount |-> total,
            full |-> total = Price[p]]}
     /\ inflight' = inflight \ {m}
     /\ UNCHANGED <<ledgerVars, requestVars, audit, handlerVars>>

\* Refused, or lost on the way; or a replay of a key already answered.
StripeDrops(m) ==
  /\ m \in inflight
  /\ inflight' = inflight \ {m}
  /\ UNCHANGED <<ledgerVars, requestVars, audit, handlerVars, refunds, returned, events>>

\* POST /webhooks/stripe: any event, at any time, any number of times.
Deliver(e) ==
  /\ e \in events
  /\ RecordRefund(e)
  /\ UNCHANGED <<requestVars, audit, handlerVars, stripeVars>>

-----------------------------------------------------------------------------
Filing(r) == FileCheck(r) \/ FileInsert(r) \/ FileAudit(r)

ApproveStep(u) ==
  \/ GiveUpNoIntent(u) \/ CallStripe(u) \/ StripeAnswers(u) \/ StripeThrows(u)
  \/ Revert(u) \/ AuditFailure(u) \/ StoreRefundId(u) \/ AuditApproval(u)

Next ==
  \/ \E r \in Request : Filing(r) \/ FileDies(r)
  \/ \E u \in User, r \in Request : Claim(u, r) \/ Withdraw(u, r) \/ Reject(u, r)
  \/ \E u \in User : ApproveStep(u) \/ AuditDecision(u) \/ DecisionDies(u)
  \/ \E m \in inflight : StripeRefunds(m) \/ StripeDrops(m)
  \/ \E e \in events : Deliver(e)

Spec == Init /\ [][Next]_vars

\* A handler that does not die runs on, Stripe answers or drops every call,
\* and redelivers an event until the webhook has answered it.
Fairness ==
  /\ \A u \in User : WF_vars(ApproveStep(u)) /\ WF_vars(AuditDecision(u))
  /\ WF_vars(\E m \in inflight : StripeRefunds(m) \/ StripeDrops(m))
  /\ WF_vars(\E e \in events : Deliver(e))

FairSpec == Spec /\ Fairness

-----------------------------------------------------------------------------
(* Safety *)

(***************************************************************************)
(* Four eyes, at the point where it matters: whoever's call made Stripe    *)
(* move money, or may still make it do so, is not the requester.           *)
(***************************************************************************)
MoneyMovedByAnother ==
  \A m \in inflight \cup refunds : m.by # By[m.req] /\ m.by \in Admin

(***************************************************************************)
(* However often a request is approved, reverted, retried, or its handler  *)
(* dies, Stripe makes at most one refund for it.                           *)
(***************************************************************************)
OneRefundPerRequest == \A f, g \in refunds : f.req = g.req => f = g

(***************************************************************************)
(* refund_requests_one_pending_per_payment: check-then-insert by several   *)
(* operators and reverts of failed approvals never leave two requests of   *)
(* one payment awaiting a decision.                                        *)
(***************************************************************************)
OnePending ==
  \A q, r \in Request :
     rstat[q] = "pending" /\ rstat[r] = "pending" /\ For[q] = For[r] => q = r

(***************************************************************************)
(* The CHECK constraints of migrations 004 and 005: a decision is complete *)
(* or absent, a withdrawal is the requester's, any other decision is not.  *)
(***************************************************************************)
DecisionsComplete ==
  \A r \in Request :
     /\ rstat[r] \in {"absent", "pending"} <=> decider[r] = NoUser
     /\ rstat[r] = "withdrawn" => decider[r] = By[r]
     /\ rstat[r] \in {"approved", "rejected"} => decider[r] # By[r]

(***************************************************************************)
(* "Whoever moves the row out of 'pending' wins": an approve call between  *)
(* its claim and its outcome owns the row, and no two own the same one.    *)
(***************************************************************************)
WinnerOwnsRow ==
  \A u \in User : at[u] \in Holding =>
     /\ rstat[on[u]] = "approved"
     /\ decider[on[u]] = u
     /\ ~refundId[on[u]]

(***************************************************************************)
(* A provider_refund_id on a row names a refund Stripe made for that very  *)
(* request, and the row is approved.                                       *)
(***************************************************************************)
RefundIdIsReal ==
  \A r \in Request : refundId[r] =>
     /\ rstat[r] = "approved"
     /\ \E f \in refunds : f.req = r

(***************************************************************************)
(* The audit log tells the truth for good: an entry is written by a later  *)
(* statement than the decision it reports, and may be missing after a      *)
(* crash, but the row still is what it says, decided by whom it names, and *)
(* an approval's has its refund id.                                        *)
(***************************************************************************)
AuditIsTrue ==
  \A a \in audit : a.action \in {"approved", "rejected", "withdrawn"} =>
     /\ rstat[a.req] = a.action
     /\ decider[a.req] = a.by
     /\ a.action = "approved" => refundId[a.req]

(***************************************************************************)
(* The ledger never runs ahead of Stripe: it shows a payment refunded only *)
(* when the whole charge has gone back, and books no more than was moved.  *)
(***************************************************************************)
LedgerBehindStripe ==
  /\ \A p \in Payment : status[p] = "refunded" => returned[p] = Price[p]
  /\ \A e \in Range(log) : e.amount <= returned[e.pay]

-----------------------------------------------------------------------------
(* What a step may never do *)

(***************************************************************************)
(* A decision that is out of the door stays: rejected and withdrawn rows,  *)
(* and approved rows that carry their refund id, never change again.       *)
(***************************************************************************)
DecisionIsFinal ==
  [][\A r \in Request :
       rstat[r] \in {"rejected", "withdrawn"} \/ refundId[r]
         => /\ rstat'[r] = rstat[r]
            /\ decider'[r] = decider[r]
            /\ refundId'[r] = refundId[r]]_vars

-----------------------------------------------------------------------------
(* Liveness *)

(***************************************************************************)
(* Money that moved through an approval reaches the ledger, whatever       *)
(* became of the handler that asked for it.                                *)
(***************************************************************************)
MoneyReachesLedger ==
  \A p \in Payment : \A n \in 1 .. Price[p] :
     returned[p] = n ~> \E i \in DOMAIN log : log[i].pay = p /\ log[i].amount >= n

-----------------------------------------------------------------------------
(* Refinement *)

RefundFor(r) == CHOOSE f \in refunds : f.req = r
HasRefund(r) == \E f \in refunds : f.req = r

Paid  == [r \in Request |-> IF HasRefund(r) THEN RefundFor(r).amount ELSE 0]
Payer == [r \in Request |-> IF HasRefund(r) THEN RefundFor(r).by ELSE NoUser]

Contract == INSTANCE RefundContract WITH
  paid <- Paid, payer <- Payer, closed <- {p \in Payment : status[p] = "refunded"}

(***************************************************************************)
(* The handlers, Stripe's idempotency keys and the webhook together keep   *)
(* the promise of RefundContract.                                          *)
(***************************************************************************)
KeepsContract == Contract!Spec

-----------------------------------------------------------------------------
(* What the code and its documents say, and the run refutes *)

(***************************************************************************)
(* "the request is pending again" (refunds.routes.ts): once an approve     *)
(* call is over, its request is either decided for good or free again.     *)
(***************************************************************************)
NoStuckClaim ==
  \A r \in Request : rstat[r] = "approved" /\ ~refundId[r]
     => \E u \in User : at[u] \in Holding /\ on[u] = r
=============================================================================
