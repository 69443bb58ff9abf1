--------------------------- MODULE Refunds_proofs ---------------------------
(***************************************************************************)
(* Proofs about Refunds, for every set of accounts, payments and requests. *)
(*                                                                         *)
(* None of the safety invariants is inductive alone: that a reverted row   *)
(* is pending again with a free slot, that a call in flight was made by    *)
(* somebody other than the author, and that a stored refund id is real all *)
(* rest on who owns the row at the time.  Inductive collects them.         *)
(***************************************************************************)
EXTENDS Refunds, TLAPS

\* A request whose POST has not inserted its row yet has no row.
NotYetFiled ==
  \A r \in Request : filing[r] \in {"idle", "checked"} => rstat[r] = "absent"

\* An approval was made by an administrator.
AdminsApprove == \A r \in Request : rstat[r] = "approved" => decider[r] \in Admin

\* Every call and every refund carries the request's own idempotency key.
KeyIsRequest == \A m \in inflight \cup refunds : m.key = m.req

\* A handler that stores a refund id has been told of a refund.
StoringIsPaid ==
  \A u \in User : at[u] = "storing" => \E f \in refunds : f.req = on[u]

Inductive ==
  /\ TypeOK
  /\ OnePending
  /\ DecisionsComplete
  /\ WinnerOwnsRow
  /\ RefundIdIsReal
  /\ MoneyMovedByAnother
  /\ OneRefundPerRequest
  /\ NotYetFiled
  /\ AdminsApprove
  /\ KeyIsRequest
  /\ StoringIsPaid

-----------------------------------------------------------------------------
(* The initial state *)

LEMMA InitInductive == Init => Inductive
<1> SUFFICES ASSUME Init PROVE Inductive
  OBVIOUS
<1>1. TypeOK
  <2>1. (CHOOSE r \in Request : TRUE) \in Request
    BY RefundAssumption
  <2>2. LedgerTypeOK
    BY DEF Init, LedgerTypeOK, Statuses
  <2>3. QED
    BY <2>1, <2>2, RefundAssumption
    DEF Init, TypeOK, RequestStatuses, FilingSteps, DecisionSteps, Call, StripeRefund, AuditEntry
<1>2. QED
  BY <1>1 DEF Init, Inductive, OnePending, DecisionsComplete, WinnerOwnsRow, Holding,
     RefundIdIsReal, MoneyMovedByAnother, OneRefundPerRequest, NotYetFiled, AdminsApprove,
     KeyIsRequest, StoringIsPaid

-----------------------------------------------------------------------------
(* Types *)

LEMMA DeliverType ==
  ASSUME TypeOK, NEW e \in events, Deliver(e)
  PROVE  TypeOK'
<1>1. e \in Event
  BY DEF TypeOK
<1>2. e.pay \in Payment /\ e.full \in BOOLEAN
  BY <1>1 DEF Event
<1>3. LedgerTypeOK'
  <2>1. CASE UNCHANGED ledgerVars
    BY <2>1 DEF TypeOK, LedgerTypeOK, ledgerVars
  <2>2. CASE /\ log' = Append(log, e)
             /\ status' = [status EXCEPT ![e.pay] = AfterRefund(@, e.full)]
             /\ UNCHANGED intent
    <3>1. log' \in Seq(Event)
      BY <1>1, <2>2 DEF TypeOK, LedgerTypeOK
    <3>2. status' \in [Payment -> Statuses]
      BY <1>2, <2>2 DEF TypeOK, LedgerTypeOK, AfterRefund, Statuses
    <3>3. QED
      BY <2>2, <3>1, <3>2 DEF TypeOK, LedgerTypeOK
  <2>3. QED
    BY <2>1, <2>2 DEF Deliver, RecordRefund
<1>4. QED
  BY <1>3 DEF TypeOK, Deliver, requestVars, handlerVars, stripeVars

LEMMA StripeRefundsType ==
  ASSUME TypeOK, NEW m \in inflight, StripeRefunds(m)
  PROVE  TypeOK'
<1> DEFINE p == For[m.req]
           f == [key |-> m.key, req |-> m.req, by |-> m.by, amount |-> AmountOf(m)]
           e == [kind |-> RefundKind, pay |-> p, at |-> returned[p] + AmountOf(m),
                 amount |-> returned[p] + AmountOf(m),
                 full |-> returned[p] + AmountOf(m) = Price[p]]
<1>1. m \in Call /\ p \in Payment
  BY RefundAssumption DEF TypeOK, Call
<1>2. AmountOf(m) \in Nat \ {0} /\ returned[p] \in Nat
  <2>1. AmountOf(m) > 0
    BY DEF StripeRefunds
  <2>2. Asked[m.req] \in Nat /\ Price[p] \in Nat /\ returned[p] \in Nat
    BY <1>1, RefundAssumption, PriceAssumption DEF TypeOK, Call
  <2>3. AmountOf(m) \in Int
    BY <2>2 DEF AmountOf
  <2>4. QED
    BY <2>1, <2>2, <2>3
<1>3. f \in StripeRefund
  BY <1>1, <1>2 DEF Call, StripeRefund
<1>4. returned[p] + AmountOf(m) \in Nat
  BY <1>2
<1>5. (returned[p] + AmountOf(m) = Price[p]) \in BOOLEAN
  OBVIOUS
<1>6. e \in Event
  BY <1>1, <1>4, <1>5 DEF Event, Kinds
<1>7. /\ refunds' = refunds \cup {f}
      /\ events' = events \cup {e}
      /\ returned' = [returned EXCEPT ![p] = returned[p] + AmountOf(m)]
      /\ inflight' = inflight \ {m}
      /\ UNCHANGED <<ledgerVars, requestVars, audit, handlerVars>>
  BY DEF StripeRefunds
<1> HIDE DEF f, e
<1>8. returned' \in [Payment -> Nat]
  BY <1>1, <1>4, <1>7 DEF TypeOK
<1>9. refunds' \subseteq StripeRefund /\ events' \subseteq Event /\ inflight' \subseteq Call
  BY <1>3, <1>6, <1>7 DEF TypeOK
<1>10. QED
  BY <1>7, <1>8, <1>9 DEF TypeOK, LedgerTypeOK, ledgerVars, requestVars, handlerVars

LEMMA TypeStep ==
  ASSUME TypeOK, [Next]_vars
  PROVE  TypeOK'
<1> USE DEF TypeOK, RequestStatuses, FilingSteps, DecisionSteps, Goto, LedgerTypeOK,
            ledgerVars, requestVars, handlerVars, stripeVars
<1>1. ASSUME NEW r \in Request, Filing(r) \/ FileDies(r)
      PROVE  TypeOK'
  <2>1. CASE FileCheck(r)
    BY <2>1 DEF FileCheck
  <2>2. CASE FileInsert(r)
    BY <2>2 DEF FileInsert
  <2>3. CASE FileAudit(r)
    <3>1. By[r] \in User /\ Asked[r] \in Nat
      BY RefundAssumption
    <3>2. QED
      BY <2>3, <3>1 DEF FileAudit, Audited, AuditEntry
  <2>4. CASE FileDies(r)
    BY <2>4 DEF FileDies
  <2>5. QED
    BY <1>1, <2>1, <2>2, <2>3, <2>4 DEF Filing
<1>2. ASSUME NEW u \in User, NEW r \in Request, Claim(u, r) \/ Withdraw(u, r) \/ Reject(u, r)
      PROVE  TypeOK'
  <2>1. CASE Claim(u, r)
    BY <2>1 DEF Claim, AfterClaim
  <2>2. CASE Withdraw(u, r)
    BY <2>2 DEF Withdraw, TakenBack
  <2>3. CASE Reject(u, r)
    BY <2>3 DEF Reject
  <2>4. QED
    BY <1>2, <2>1, <2>2, <2>3
<1>3. ASSUME NEW u \in User, ApproveStep(u) \/ AuditDecision(u) \/ DecisionDies(u)
      PROVE  TypeOK'
  <2>1. CASE GiveUpNoIntent(u)
    BY <2>1 DEF GiveUpNoIntent, RevertRow
  <2>2. CASE CallStripe(u)
    BY <2>2 DEF CallStripe, Call, IdempotencyKey
  <2>3. CASE StripeAnswers(u)
    BY <2>3 DEF StripeAnswers
  <2>4. CASE StripeThrows(u)
    BY <2>4 DEF StripeThrows
  <2>5. CASE Revert(u)
    BY <2>5 DEF Revert, RevertRow
  <2>6. CASE AuditFailure(u)
    BY <2>6 DEF AuditFailure, Audited, AuditEntry
  <2>7. CASE StoreRefundId(u)
    BY <2>7 DEF StoreRefundId
  <2>8. CASE AuditApproval(u)
    <3>1. AuditedAmount(on[u]) \in Nat
      BY RefundAssumption, PriceAssumption DEF AuditedAmount
    <3>2. QED
      BY <2>8, <3>1 DEF AuditApproval, Audited, AuditEntry
  <2>9. CASE AuditDecision(u)
    BY <2>9 DEF AuditDecision, Audited, AuditEntry
  <2>10. CASE DecisionDies(u)
    BY <2>10 DEF DecisionDies
  <2>11. QED
    BY <1>3, <2>1, <2>2, <2>3, <2>4, <2>5, <2>6, <2>7, <2>8, <2>9, <2>10 DEF ApproveStep
<1>4. ASSUME NEW m \in inflight, StripeRefunds(m) \/ StripeDrops(m)
      PROVE  TypeOK'
  <2>1. CASE StripeRefunds(m)
    BY <2>1, StripeRefundsType
  <2>2. CASE StripeDrops(m)
    BY <2>2 DEF StripeDrops
  <2>3. QED
    BY <1>4, <2>1, <2>2
<1>5. ASSUME NEW e \in events, Deliver(e)
      PROVE  TypeOK'
  BY <1>5, DeliverType
<1>6. CASE UNCHANGED vars
  BY <1>6 DEF vars
<1>7. QED
  BY <1>1, <1>2, <1>3, <1>4, <1>5, <1>6 DEF Next

-----------------------------------------------------------------------------
(* The three parts of the invariant that are not about types *)

\* What the rows of refund_requests look like, whoever wrote them.
Rows == OnePending /\ DecisionsComplete /\ NotYetFiled /\ AdminsApprove

\* Who owns a row, and what its refund id stands for.
Owners == WinnerOwnsRow /\ StoringIsPaid /\ RefundIdIsReal

\* What is on its way to Stripe or already refunded.
Money == MoneyMovedByAnother /\ OneRefundPerRequest /\ KeyIsRequest

LEMMA InductiveParts == Inductive <=> TypeOK /\ Rows /\ Owners /\ Money
BY DEF Inductive, Rows, Owners, Money

\* Steps that leave the rows and the requests' own handlers alone.
LEMMA RowsFrame ==
  ASSUME Rows, UNCHANGED <<rstat, decider, filing>>
  PROVE  Rows'
BY DEF Rows, OnePending, DecisionsComplete, NotYetFiled, AdminsApprove

LEMMA RowsStep ==
  ASSUME TypeOK, Rows, Owners, [Next]_vars
  PROVE  Rows'
<1> USE RefundAssumption
    DEF TypeOK, Rows, OnePending, DecisionsComplete, NotYetFiled, AdminsApprove, RequestStatuses
<1>1. ASSUME NEW r \in Request, Filing(r) \/ FileDies(r)
      PROVE  Rows'
  <2>1. CASE FileCheck(r)
    BY <2>1 DEF FileCheck, requestVars
  <2>2. CASE FileInsert(r) /\ UNCHANGED rstat
    BY <2>2 DEF FileInsert
  <2>3. CASE FileInsert(r) /\ SlotFree(For[r], r) /\ rstat' = [rstat EXCEPT ![r] = "pending"]
    <3>1. decider[r] = NoUser
      BY <2>3 DEF FileInsert
    <3>2. /\ filing' = [filing EXCEPT ![r] = filing'[r]]
          /\ filing'[r] \in {"inserted", "done"}
      BY <2>3 DEF FileInsert, FilingSteps
    <3>3. OnePending'
      BY <2>3 DEF FileInsert, SlotFree
    <3>4. DecisionsComplete' /\ AdminsApprove'
      BY <2>3, <3>1 DEF FileInsert
    <3>5. NotYetFiled'
      BY <2>3, <3>2 DEF FileInsert
    <3>6. QED
      BY <3>3, <3>4, <3>5
  <2>4. CASE FileAudit(r)
    BY <2>4 DEF FileAudit, requestVars
  <2>5. CASE FileDies(r)
    BY <2>5 DEF FileDies, requestVars
  <2>6. QED
    BY <1>1, <2>1, <2>2, <2>3, <2>4, <2>5 DEF Filing, FileInsert
<1>2. ASSUME NEW u \in User, NEW r \in Request, Claim(u, r) \/ Withdraw(u, r) \/ Reject(u, r)
      PROVE  Rows'
  <2>1. CASE Claim(u, r)
    BY <2>1 DEF Claim, Claimable
  <2>2. CASE Withdraw(u, r)
    BY <2>2 DEF Withdraw, Withdrawable, TakenBack
  <2>3. CASE Reject(u, r)
    BY <2>3 DEF Reject, Rejectable
  <2>4. QED
    BY <1>2, <2>1, <2>2, <2>3
<1>3. ASSUME NEW u \in User, ApproveStep(u) \/ AuditDecision(u) \/ DecisionDies(u)
      PROVE  Rows'
  <2>1. CASE /\ Revertible(on[u]) /\ SlotFree(For[on[u]], on[u])
             /\ RevertRow(on[u])
             /\ UNCHANGED filing
    <3>1. PICK r \in Request : r = on[u]
      OBVIOUS
    <3>2. /\ rstat[r] = "approved"
          /\ rstat' = [rstat EXCEPT ![r] = "pending"]
          /\ decider' = [decider EXCEPT ![r] = NoUser]
      BY <2>1, <3>1 DEF Revertible, RevertRow
    <3>3. OnePending'
      BY <2>1, <3>1, <3>2 DEF SlotFree
    <3>4. DecisionsComplete' /\ AdminsApprove' /\ NotYetFiled'
      BY <2>1, <3>2
    <3>5. QED
      BY <3>3, <3>4
  <2>2. CASE UNCHANGED <<rstat, decider, filing>>
    BY <2>2, RowsFrame
  <2>3. CASE GiveUpNoIntent(u) \/ Revert(u)
    BY <2>1, <2>2, <2>3 DEF GiveUpNoIntent, Revert, RevertRefused, RevertRow
  <2>4. CASE CallStripe(u) \/ StripeAnswers(u) \/ StripeThrows(u) \/ StoreRefundId(u)
    BY <2>2, <2>4 DEF CallStripe, StripeAnswers, StripeThrows, StoreRefundId, requestVars
  <2>5. CASE AuditFailure(u) \/ AuditApproval(u) \/ AuditDecision(u) \/ DecisionDies(u)
    BY <2>2, <2>5 DEF AuditFailure, AuditApproval, AuditDecision, DecisionDies, requestVars
  <2>6. QED
    BY <1>3, <2>3, <2>4, <2>5 DEF ApproveStep
<1>4. ASSUME NEW m \in inflight, StripeRefunds(m) \/ StripeDrops(m)
      PROVE  Rows'
  BY <1>4, RowsFrame DEF StripeRefunds, StripeDrops, requestVars, handlerVars
<1>5. ASSUME NEW e \in events, Deliver(e)
      PROVE  Rows'
  BY <1>5, RowsFrame DEF Deliver, requestVars, handlerVars
<1>6. CASE UNCHANGED vars
  BY <1>6, RowsFrame DEF vars, requestVars, handlerVars
<1>7. QED
  BY <1>1, <1>2, <1>3, <1>4, <1>5, <1>6 DEF Next

-----------------------------------------------------------------------------
(* Ownership *)

\* Steps that leave the rows, the decision calls and the refunds alone.
LEMMA OwnersFrame ==
  ASSUME Owners, UNCHANGED <<rstat, decider, refundId, at, on, refunds>>
  PROVE  Owners'
BY DEF Owners, WinnerOwnsRow, StoringIsPaid, RefundIdIsReal, Holding

LEMMA OwnersStep ==
  ASSUME TypeOK, Rows, Owners, Money, [Next]_vars
  PROVE  Owners'
<1> USE DEF TypeOK, Owners, WinnerOwnsRow, StoringIsPaid, RefundIdIsReal, Holding, Goto,
            DecisionSteps
<1>1. ASSUME NEW r \in Request, Filing(r) \/ FileDies(r)
      PROVE  Owners'
  <2>1. CASE FileInsert(r)
    <3>1. rstat[r] = "absent"
      BY <2>1 DEF FileInsert, Rows, NotYetFiled
    <3>2. QED
      BY <2>1, <3>1 DEF FileInsert, stripeVars
  <2>2. CASE FileCheck(r) \/ FileAudit(r) \/ FileDies(r)
    BY <2>2, OwnersFrame DEF FileCheck, FileAudit, FileDies, requestVars, stripeVars
  <2>3. QED
    BY <1>1, <2>1, <2>2 DEF Filing
<1>2. ASSUME NEW u \in User, NEW r \in Request, Claim(u, r) \/ Withdraw(u, r) \/ Reject(u, r)
      PROVE  Owners'
  <2>1. rstat[r] = "pending" /\ ~refundId[r] /\ at[u] = "idle"
    BY <1>2 DEF Claim, Withdraw, Reject, Claimable, Withdrawable, Rejectable
  <2>2. CASE Claim(u, r)
    <3>1. /\ at' = [at EXCEPT ![u] = AfterClaim(r)]
          /\ on' = [on EXCEPT ![u] = r]
          /\ rstat' = [rstat EXCEPT ![r] = "approved"]
          /\ decider' = [decider EXCEPT ![r] = u]
          /\ UNCHANGED <<refundId, refunds>>
      BY <2>2 DEF Claim, stripeVars
    <3>2. AfterClaim(r) \in {"calling", "noIntent"}
      BY DEF AfterClaim
    <3>3. QED
      BY <2>1, <3>1, <3>2
  <2>3. CASE Withdraw(u, r)
    BY <2>1, <2>3 DEF Withdraw, stripeVars
  <2>4. CASE Reject(u, r)
    BY <2>1, <2>4 DEF Reject, stripeVars
  <2>5. QED
    BY <1>2, <2>2, <2>3, <2>4
<1>3. ASSUME NEW u \in User, ApproveStep(u) \/ AuditDecision(u) \/ DecisionDies(u)
      PROVE  Owners'
  <2>1. CASE GiveUpNoIntent(u)
    <3>1. \A v \in User \ {u} : at[v] \in Holding => on[v] # on[u]
      BY <2>1 DEF GiveUpNoIntent
    <3>2. QED
      BY <2>1, <3>1 DEF GiveUpNoIntent, RevertRow, Revertible, stripeVars
  <2>2. CASE Revert(u)
    <3>1. \A v \in User \ {u} : at[v] \in Holding => on[v] # on[u]
      BY <2>2 DEF Revert
    <3>2. QED
      BY <2>2, <3>1 DEF Revert, RevertRow, Revertible, stripeVars
  <2>3. CASE StoreRefundId(u)
    <3>1. \A v \in User \ {u} : at[v] \in Holding => on[v] # on[u]
      BY <2>3 DEF StoreRefundId
    <3>2. rstat[on[u]] = "approved" /\ \E f \in refunds : f.req = on[u]
      BY <2>3 DEF StoreRefundId
    <3>3. QED
      BY <2>3, <3>1, <3>2 DEF StoreRefundId, stripeVars
  <2>4. CASE StripeAnswers(u)
    <3>1. \E f \in refunds : f.req = on[u]
      BY <2>4 DEF StripeAnswers, IdempotencyKey, Money, KeyIsRequest
    <3>2. QED
      BY <2>4, <3>1 DEF StripeAnswers, requestVars, stripeVars
  <2>5. CASE CallStripe(u)
    BY <2>5 DEF CallStripe, requestVars
  <2>6. CASE StripeThrows(u)
    BY <2>6 DEF StripeThrows, requestVars, stripeVars
  <2>7. CASE AuditFailure(u) \/ AuditApproval(u) \/ AuditDecision(u) \/ DecisionDies(u)
    BY <2>7 DEF AuditFailure, AuditApproval, AuditDecision, DecisionDies, requestVars, stripeVars
  <2>8. QED
    BY <1>3, <2>1, <2>2, <2>3, <2>4, <2>5, <2>6, <2>7 DEF ApproveStep
<1>4. ASSUME NEW m \in inflight, StripeRefunds(m) \/ StripeDrops(m)
      PROVE  Owners'
  <2>1. refunds \subseteq refunds'
    BY <1>4 DEF StripeRefunds, StripeDrops
  <2>2. UNCHANGED <<rstat, decider, refundId, at, on>>
    BY <1>4 DEF StripeRefunds, StripeDrops, requestVars, handlerVars
  <2>3. QED
    BY <2>1, <2>2
<1>5. ASSUME NEW e \in events, Deliver(e)
      PROVE  Owners'
  BY <1>5, OwnersFrame DEF Deliver, requestVars, handlerVars, stripeVars
<1>6. CASE UNCHANGED vars
  BY <1>6, OwnersFrame DEF vars, requestVars, handlerVars, stripeVars
<1>7. QED
  BY <1>1, <1>2, <1>3, <1>4, <1>5, <1>6 DEF Next

-----------------------------------------------------------------------------
(* Money *)

LEMMA MoneyFrame ==
  ASSUME Money, inflight' \subseteq inflight, UNCHANGED refunds
  PROVE  Money'
BY DEF Money, MoneyMovedByAnother, OneRefundPerRequest, KeyIsRequest

LEMMA MoneyStep ==
  ASSUME TypeOK, Rows, Owners, Money, [Next]_vars
  PROVE  Money'
<1> USE DEF stripeVars
<1>1. ASSUME NEW u \in User, CallStripe(u)
      PROVE  Money'
  <2>1. decider[on[u]] = u /\ rstat[on[u]] = "approved" /\ on[u] \in Request
    BY <1>1 DEF TypeOK, Owners, WinnerOwnsRow, Holding, CallStripe
  <2>2. u # By[on[u]] /\ u \in Admin
    BY <2>1 DEF Rows, DecisionsComplete, AdminsApprove
  <2>3. /\ inflight' = inflight \cup {[key |-> on[u], req |-> on[u], by |-> u]}
        /\ UNCHANGED refunds
    BY <1>1 DEF CallStripe, IdempotencyKey
  <2>4. QED
    BY <2>2, <2>3 DEF Money, MoneyMovedByAnother, OneRefundPerRequest, KeyIsRequest
<1>2. ASSUME NEW m \in inflight, StripeRefunds(m)
      PROVE  Money'
  <2>1. PICK n : /\ refunds' = refunds \cup {[key |-> m.key, req |-> m.req, by |-> m.by, amount |-> n]}
                 /\ inflight' = inflight \ {m}
    BY <1>2 DEF StripeRefunds
  <2>2. \A f \in refunds : f.req # m.req
    BY <1>2 DEF StripeRefunds, Money, KeyIsRequest
  <2>3. QED
    BY <2>1, <2>2 DEF Money, MoneyMovedByAnother, OneRefundPerRequest, KeyIsRequest
<1>3. ASSUME NEW m \in inflight, StripeDrops(m)
      PROVE  Money'
  BY <1>3, MoneyFrame DEF StripeDrops
<1>4. ASSUME NEW r \in Request, Filing(r) \/ FileDies(r)
      PROVE  Money'
  BY <1>4, MoneyFrame DEF Filing, FileCheck, FileInsert, FileAudit, FileDies
<1>5. ASSUME NEW u \in User, NEW r \in Request, Claim(u, r) \/ Withdraw(u, r) \/ Reject(u, r)
      PROVE  Money'
  BY <1>5, MoneyFrame DEF Claim, Withdraw, Reject
<1>6. ASSUME NEW u \in User, ApproveStep(u) \/ AuditDecision(u) \/ DecisionDies(u)
      PROVE  Money'
  <2>1. CASE CallStripe(u)
    BY <1>1, <2>1
  <2>2. CASE GiveUpNoIntent(u) \/ StripeAnswers(u) \/ StripeThrows(u) \/ Revert(u)
    BY <2>2, MoneyFrame DEF GiveUpNoIntent, StripeAnswers, StripeThrows, Revert
  <2>3. CASE AuditFailure(u) \/ StoreRefundId(u) \/ AuditApproval(u)
    BY <2>3, MoneyFrame DEF AuditFailure, StoreRefundId, AuditApproval
  <2>4. CASE AuditDecision(u) \/ DecisionDies(u)
    BY <2>4, MoneyFrame DEF AuditDecision, DecisionDies
  <2>5. QED
    BY <1>6, <2>1, <2>2, <2>3, <2>4 DEF ApproveStep
<1>7. ASSUME NEW e \in events, Deliver(e)
      PROVE  Money'
  BY <1>7, MoneyFrame DEF Deliver
<1>8. CASE UNCHANGED vars
  BY <1>8, MoneyFrame DEF vars
<1>9. QED
  BY <1>2, <1>3, <1>4, <1>5, <1>6, <1>7, <1>8 DEF Next

-----------------------------------------------------------------------------
(* Theorems *)

LEMMA InductiveStep == Inductive /\ [Next]_vars => Inductive'
<1> SUFFICES ASSUME Inductive, [Next]_vars PROVE Inductive'
  OBVIOUS
<1>1. TypeOK /\ Rows /\ Owners /\ Money
  BY InductiveParts
<1>2. TypeOK' /\ Rows' /\ Owners' /\ Money'
  BY <1>1, TypeStep, RowsStep, OwnersStep, MoneyStep
<1>3. QED
  BY <1>2 DEF Inductive, Rows, Owners, Money

(***************************************************************************)
(* The inductive invariant holds of every behaviour of the handlers.       *)
(***************************************************************************)
THEOREM InductiveHolds == Spec => []Inductive
BY InitInductive, InductiveStep, PTL DEF Spec

(***************************************************************************)
(* Type correctness.                                                       *)
(***************************************************************************)
THEOREM TypeCorrect == Spec => []TypeOK
<1>1. Inductive => TypeOK
  BY DEF Inductive
<1>2. QED
  BY <1>1, InductiveHolds, PTL

(***************************************************************************)
(* No payment ever has two requests awaiting a decision, whatever the      *)
(* number of operators filing and of failed approvals reverting.           *)
(***************************************************************************)
THEOREM OnePendingHolds == Spec => []OnePending
<1>1. Inductive => OnePending
  BY DEF Inductive
<1>2. QED
  BY <1>1, InductiveHolds, PTL

(***************************************************************************)
(* The rows always satisfy the CHECK constraints of the schema, so no      *)
(* handler is ever refused by them.                                        *)
(***************************************************************************)
THEOREM DecisionsCompleteHolds == Spec => []DecisionsComplete
<1>1. Inductive => DecisionsComplete
  BY DEF Inductive
<1>2. QED
  BY <1>1, InductiveHolds, PTL

(***************************************************************************)
(* An approve call between its claim and its outcome owns its row.         *)
(***************************************************************************)
THEOREM WinnerOwnsRowHolds == Spec => []WinnerOwnsRow
<1>1. Inductive => WinnerOwnsRow
  BY DEF Inductive
<1>2. QED
  BY <1>1, InductiveHolds, PTL

(***************************************************************************)
(* A stored refund id stands for a refund made for that very request.      *)
(***************************************************************************)
THEOREM RefundIdIsRealHolds == Spec => []RefundIdIsReal
<1>1. Inductive => RefundIdIsReal
  BY DEF Inductive
<1>2. QED
  BY <1>1, InductiveHolds, PTL

(***************************************************************************)
(* Four eyes: no call to Stripe and no refund is on its author's word.     *)
(***************************************************************************)
THEOREM FourEyes == Spec => []MoneyMovedByAnother
<1>1. Inductive => MoneyMovedByAnother
  BY DEF Inductive
<1>2. QED
  BY <1>1, InductiveHolds, PTL

(***************************************************************************)
(* At most one refund is made for a request, however often it is tried.    *)
(***************************************************************************)
THEOREM NoDoubleRefund == Spec => []OneRefundPerRequest
<1>1. Inductive => OneRefundPerRequest
  BY DEF Inductive
<1>2. QED
  BY <1>1, InductiveHolds, PTL

-----------------------------------------------------------------------------
(* Action properties *)

\* A decided row is not touched by any step but those of the call that owns it.
LEMMA FinalStep ==
  ASSUME Inductive, [Next]_vars, NEW r \in Request,
         rstat[r] \in {"rejected", "withdrawn"} \/ refundId[r]
  PROVE  rstat'[r] = rstat[r] /\ decider'[r] = decider[r] /\ refundId'[r] = refundId[r]
<1> USE DEF requestVars
<1>1. /\ rstat \in [Request -> RequestStatuses]
      /\ decider \in [Request -> User \cup {NoUser}]
      /\ refundId \in [Request -> BOOLEAN]
      /\ on \in [User -> Request]
  BY DEF Inductive, TypeOK
<1>2. rstat[r] \notin {"absent", "pending"}
  BY DEF Inductive, RefundIdIsReal
<1>3. \A u \in User : at[u] \in Holding => on[u] # r
  BY DEF Inductive, WinnerOwnsRow
<1>4. ASSUME NEW q \in Request, Filing(q) \/ FileDies(q)
      PROVE  UNCHANGED <<rstat[r], decider[r], refundId[r]>>
  <2>1. CASE FileInsert(q)
    <3>1. q # r
      BY <1>2, <2>1 DEF FileInsert, Inductive, NotYetFiled
    <3>2. QED
      BY <1>1, <2>1, <3>1 DEF FileInsert
  <2>2. QED
    BY <1>4, <2>1 DEF Filing, FileCheck, FileAudit, FileDies
<1>5. ASSUME NEW u \in User, NEW q \in Request, Claim(u, q) \/ Withdraw(u, q) \/ Reject(u, q)
      PROVE  UNCHANGED <<rstat[r], decider[r], refundId[r]>>
  <2>1. q # r
    BY <1>2, <1>5 DEF Claim, Withdraw, Reject, Claimable, Withdrawable, Rejectable
  <2>2. QED
    BY <1>1, <1>5, <2>1 DEF Claim, Withdraw, Reject
<1>6. ASSUME NEW u \in User, ApproveStep(u) \/ AuditDecision(u) \/ DecisionDies(u)
      PROVE  UNCHANGED <<rstat[r], decider[r], refundId[r]>>
  <2>1. CASE GiveUpNoIntent(u) \/ Revert(u)
    <3>1. on[u] # r
      BY <1>3, <2>1 DEF GiveUpNoIntent, Revert, Holding
    <3>2. QED
      BY <1>1, <2>1, <3>1 DEF GiveUpNoIntent, Revert, RevertRow
  <2>2. CASE StoreRefundId(u)
    <3>1. on[u] # r
      BY <1>3, <2>2 DEF StoreRefundId, Holding
    <3>2. QED
      BY <1>1, <2>2, <3>1 DEF StoreRefundId
  <2>3. CASE CallStripe(u) \/ StripeAnswers(u) \/ StripeThrows(u)
    BY <2>3 DEF CallStripe, StripeAnswers, StripeThrows
  <2>4. CASE AuditFailure(u) \/ AuditApproval(u) \/ AuditDecision(u) \/ DecisionDies(u)
    BY <2>4 DEF AuditFailure, AuditApproval, AuditDecision, DecisionDies
  <2>5. QED
    BY <1>6, <2>1, <2>2, <2>3, <2>4 DEF ApproveStep
<1>7. ASSUME NEW m \in inflight, StripeRefunds(m) \/ StripeDrops(m)
      PROVE  UNCHANGED <<rstat[r], decider[r], refundId[r]>>
  BY <1>7 DEF StripeRefunds, StripeDrops
<1>8. ASSUME NEW e \in events, Deliver(e)
      PROVE  UNCHANGED <<rstat[r], decider[r], refundId[r]>>
  BY <1>8 DEF Deliver
<1>9. CASE UNCHANGED vars
  BY <1>9 DEF vars
<1>10. QED
  BY <1>4, <1>5, <1>6, <1>7, <1>8, <1>9 DEF Next

(***************************************************************************)
(* Rejections, withdrawals and approvals with a refund id are final.       *)
(***************************************************************************)
THEOREM DecisionIsFinalHolds == Spec => DecisionIsFinal
<1> DEFINE Final == \A r \in Request :
              rstat[r] \in {"rejected", "withdrawn"} \/ refundId[r]
                => /\ rstat'[r] = rstat[r]
                   /\ decider'[r] = decider[r]
                   /\ refundId'[r] = refundId[r]
<1>1. Inductive /\ [Next]_vars => [Final]_vars
  BY FinalStep
<1>2. QED
  BY <1>1, InductiveHolds, PTL DEF Spec, DecisionIsFinal

-----------------------------------------------------------------------------
(* The audit log *)

Auditing == {"auditingApproval", "auditingRejection", "auditingWithdrawal"}

\* Row r is what an audit entry says of it, decided by u.
Reports(action, r, u) ==
  /\ rstat[r] = action
  /\ decider[r] = u
  /\ action = "approved" => refundId[r]

\* A handler about to write its entry is about to tell the truth.
AuditorKnows ==
  \A u \in User :
     /\ at[u] = "auditingApproval"   => Reports("approved", on[u], u)
     /\ at[u] = "auditingRejection"  => Reports("rejected", on[u], u)
     /\ at[u] = "auditingWithdrawal" => Reports("withdrawn", on[u], u)

Truthful == AuditorKnows /\ AuditIsTrue

\* What an entry reports is final, so a report that is true stays true.
LEMMA ReportStays ==
  ASSUME Inductive, [Next]_vars, NEW r \in Request, NEW u,
         NEW action \in {"approved", "rejected", "withdrawn"}, Reports(action, r, u)
  PROVE  Reports(action, r, u)'
BY FinalStep DEF Reports

\* Steps that write no entry and bring nobody to the point of writing one.
LEMMA AuditFrame ==
  ASSUME Inductive, Truthful, [Next]_vars, UNCHANGED audit,
         \A u \in User : at'[u] \in Auditing => at'[u] = at[u] /\ on'[u] = on[u]
  PROVE  Truthful'
<1>1. on \in [User -> Request] /\ audit \subseteq AuditEntry
  BY DEF Inductive, TypeOK
<1>2. AuditIsTrue'
  BY <1>1, ReportStays DEF Truthful, AuditIsTrue, Reports, AuditEntry
<1>3. AuditorKnows'
  <2>1. ASSUME NEW u \in User, at'[u] \in Auditing
        PROVE  at[u] = at'[u] /\ on'[u] = on[u] /\ on[u] \in Request
    BY <1>1, <2>1
  <2>2. QED
    BY <2>1, ReportStays DEF Truthful, AuditorKnows, Auditing, Reports
<1>4. QED
  BY <1>2, <1>3 DEF Truthful

\* The steps that write an entry.
LEMMA AuditWrites ==
  ASSUME Inductive, Truthful, [Next]_vars, NEW u \in User, NEW r \in Request,
         NEW action, NEW n, Audited(action, r, u, n),
         action \in {"approved", "rejected", "withdrawn"} => Reports(action, r, u),
         \A v \in User : at'[v] \in Auditing => at'[v] = at[v] /\ on'[v] = on[v]
  PROVE  Truthful'
<1> DEFINE entry == [action |-> action, req |-> r, by |-> u, amount |-> n]
<1>1. on \in [User -> Request] /\ audit \subseteq AuditEntry
  BY DEF Inductive, TypeOK
<1>2. audit' = audit \cup {entry}
  BY DEF Audited
<1>3. AuditIsTrue'
  <2>1. ASSUME NEW a \in audit, a.action \in {"approved", "rejected", "withdrawn"}
        PROVE  Reports(a.action, a.req, a.by)'
    <3>1. a.req \in Request
      BY <1>1 DEF AuditEntry
    <3>2. Reports(a.action, a.req, a.by)
      BY <2>1 DEF Truthful, AuditIsTrue, Reports
    <3>3. QED
      BY <2>1, <3>1, <3>2, ReportStays
  <2>2. action \in {"approved", "rejected", "withdrawn"} => Reports(action, r, u)'
    BY ReportStays
  <2>3. /\ entry.action = action
        /\ entry.req = r
        /\ entry.by = u
    OBVIOUS
  <2>4. QED
    BY <1>2, <2>1, <2>2, <2>3 DEF AuditIsTrue, Reports
<1>4. AuditorKnows'
  <2>1. ASSUME NEW v \in User, at'[v] \in Auditing
        PROVE  at[v] = at'[v] /\ on'[v] = on[v] /\ on[v] \in Request
    BY <1>1, <2>1
  <2>2. QED
    BY <2>1, ReportStays DEF Truthful, AuditorKnows, Auditing, Reports
<1>5. QED
  BY <1>3, <1>4 DEF Truthful

\* The steps that bring u to the point of writing one.
LEMMA AuditComes ==
  ASSUME Inductive, Truthful, [Next]_vars, UNCHANGED audit, NEW u \in User,
         at'[u] = "auditingApproval"   => Reports("approved", on[u], u)',
         at'[u] = "auditingRejection"  => Reports("rejected", on[u], u)',
         at'[u] = "auditingWithdrawal" => Reports("withdrawn", on[u], u)',
         \A v \in User \ {u} : at'[v] = at[v] /\ on'[v] = on[v]
  PROVE  Truthful'
<1>1. on \in [User -> Request] /\ audit \subseteq AuditEntry
  BY DEF Inductive, TypeOK
<1>2. AuditIsTrue'
  BY <1>1, ReportStays DEF Truthful, AuditIsTrue, Reports, AuditEntry
<1>3. AuditorKnows'
  <2>1. ASSUME NEW v \in User \ {u}
        PROVE  at[v] = at'[v] /\ on'[v] = on[v] /\ on[v] \in Request
    BY <1>1
  <2>2. QED
    BY <2>1, ReportStays DEF Truthful, AuditorKnows, Reports
<1>4. QED
  BY <1>2, <1>3 DEF Truthful

LEMMA TruthfulStep ==
  ASSUME Inductive, Truthful, [Next]_vars
  PROVE  Truthful'
<1> USE DEF requestVars, handlerVars, stripeVars, Auditing
<1>1. /\ at \in [User -> DecisionSteps]
      /\ on \in [User -> Request]
      /\ rstat \in [Request -> RequestStatuses]
      /\ decider \in [Request -> User \cup {NoUser}]
      /\ refundId \in [Request -> BOOLEAN]
  BY DEF Inductive, TypeOK
<1>2. ASSUME NEW r \in Request, Filing(r) \/ FileDies(r)
      PROVE  Truthful'
  <2>1. CASE FileAudit(r)
    <3>1. By[r] \in User
      BY RefundAssumption
    <3>2. Audited("requested", r, By[r], Asked[r]) /\ UNCHANGED <<at, on>>
      BY <2>1 DEF FileAudit
    <3>3. QED
      BY <3>1, <3>2, AuditWrites
  <2>2. CASE FileCheck(r) \/ FileInsert(r) \/ FileDies(r)
    BY <2>2, AuditFrame DEF FileCheck, FileInsert, FileDies
  <2>3. QED
    BY <1>2, <2>1, <2>2 DEF Filing
<1>3. ASSUME NEW u \in User, NEW r \in Request, Claim(u, r)
      PROVE  Truthful'
  <2>1. at' = [at EXCEPT ![u] = AfterClaim(r)] /\ on' = [on EXCEPT ![u] = r] /\ UNCHANGED audit
    BY <1>3 DEF Claim, Goto
  <2>2. \A v \in User : at'[v] \in Auditing => at'[v] = at[v] /\ on'[v] = on[v]
    BY <1>1, <2>1 DEF AfterClaim
  <2>3. QED
    BY <2>1, <2>2, AuditFrame
<1>4. ASSUME NEW u \in User, NEW r \in Request, Withdraw(u, r) \/ Reject(u, r)
      PROVE  Truthful'
  <2>1. UNCHANGED audit /\ on' = [on EXCEPT ![u] = r] /\ decider' = [decider EXCEPT ![r] = u]
    BY <1>4 DEF Withdraw, Reject
  <2>2. CASE Withdraw(u, r)
    <3>1. at' = [at EXCEPT ![u] = "auditingWithdrawal"] /\ rstat' = [rstat EXCEPT ![r] = "withdrawn"]
      BY <2>2 DEF Withdraw, Goto, TakenBack
    <3>2. Reports("withdrawn", on[u], u)'
      BY <1>1, <2>1, <3>1 DEF Reports
    <3>3. QED
      BY <1>1, <2>1, <3>1, <3>2, AuditComes
  <2>3. CASE Reject(u, r)
    <3>1. at' = [at EXCEPT ![u] = "auditingRejection"] /\ rstat' = [rstat EXCEPT ![r] = "rejected"]
      BY <2>3 DEF Reject, Goto
    <3>2. Reports("rejected", on[u], u)'
      BY <1>1, <2>1, <3>1 DEF Reports
    <3>3. QED
      BY <1>1, <2>1, <3>1, <3>2, AuditComes
  <2>4. QED
    BY <1>4, <2>2, <2>3
<1>5. ASSUME NEW u \in User, ApproveStep(u) \/ AuditDecision(u) \/ DecisionDies(u)
      PROVE  Truthful'
  <2>1. CASE StoreRefundId(u)
    <3>1. rstat[on[u]] = "approved" /\ decider[on[u]] = u /\ on[u] \in Request
      BY <1>1, <2>1 DEF StoreRefundId, Inductive, WinnerOwnsRow, Holding
    <3>2. /\ at' = [at EXCEPT ![u] = "auditingApproval"]
          /\ refundId' = [refundId EXCEPT ![on[u]] = TRUE]
          /\ UNCHANGED <<rstat, decider, on, audit>>
      BY <2>1 DEF StoreRefundId, Goto
    <3>3. Reports("approved", on[u], u)'
      BY <1>1, <3>1, <3>2 DEF Reports
    <3>4. QED
      BY <1>1, <3>2, <3>3, AuditComes
  <2>2. CASE AuditApproval(u)
    <3>1. /\ Audited("approved", on[u], u, AuditedAmount(on[u]))
          /\ at' = [at EXCEPT ![u] = "idle"]
          /\ UNCHANGED on
      BY <2>2 DEF AuditApproval, Goto
    <3>2. Reports("approved", on[u], u)
      BY <2>2 DEF AuditApproval, Truthful, AuditorKnows
    <3>3. \A v \in User : at'[v] \in Auditing => at'[v] = at[v] /\ on'[v] = on[v]
      BY <1>1, <3>1
    <3>4. on[u] \in Request
      BY <1>1
    <3>5. QED
      BY <3>1, <3>2, <3>3, <3>4, AuditWrites
  <2>3. CASE AuditDecision(u)
    <3>1. at' = [at EXCEPT ![u] = "idle"] /\ UNCHANGED on
      BY <2>3 DEF AuditDecision, Goto
    <3>2. \A v \in User : at'[v] \in Auditing => at'[v] = at[v] /\ on'[v] = on[v]
      BY <1>1, <3>1
    <3>3. on[u] \in Request
      BY <1>1
    <3>4. CASE at[u] = "auditingWithdrawal" /\ Audited("withdrawn", on[u], u, 0)
      <4>1. Reports("withdrawn", on[u], u)
        BY <3>4 DEF Truthful, AuditorKnows
      <4>2. QED
        BY <3>2, <3>3, <3>4, <4>1, AuditWrites
    <3>5. CASE at[u] = "auditingRejection" /\ Audited("rejected", on[u], u, 0)
      <4>1. Reports("rejected", on[u], u)
        BY <3>5 DEF Truthful, AuditorKnows
      <4>2. QED
        BY <3>2, <3>3, <3>5, <4>1, AuditWrites
    <3>6. QED
      BY <2>3, <3>4, <3>5 DEF AuditDecision
  <2>4. CASE AuditFailure(u)
    <3>1. at' = [at EXCEPT ![u] = "idle"] /\ UNCHANGED on
      BY <2>4 DEF AuditFailure, Goto
    <3>2. \A v \in User : at'[v] \in Auditing => at'[v] = at[v] /\ on'[v] = on[v]
      BY <1>1, <3>1
    <3>3. CASE Audited("approve_failed", on[u], u, 0)
      BY <1>1, <3>2, <3>3, AuditWrites
    <3>4. CASE UNCHANGED audit
      BY <3>2, <3>4, AuditFrame
    <3>5. QED
      BY <2>4, <3>3, <3>4 DEF AuditFailure
  <2>5. CASE \/ GiveUpNoIntent(u) \/ CallStripe(u) \/ StripeAnswers(u) \/ StripeThrows(u)
             \/ Revert(u) \/ DecisionDies(u)
    <3>1. \E s \in DecisionSteps \ Auditing : at' = [at EXCEPT ![u] = s]
      BY <2>5 DEF GiveUpNoIntent, CallStripe, StripeAnswers, StripeThrows, Revert, DecisionDies,
         Goto, DecisionSteps
    <3>2. UNCHANGED <<on, audit>>
      BY <2>5 DEF GiveUpNoIntent, CallStripe, StripeAnswers, StripeThrows, Revert, DecisionDies
    <3>3. \A v \in User : at'[v] \in Auditing => at'[v] = at[v] /\ on'[v] = on[v]
      BY <1>1, <3>1, <3>2
    <3>4. QED
      BY <3>2, <3>3, AuditFrame
  <2>6. QED
    BY <1>5, <2>1, <2>2, <2>3, <2>4, <2>5 DEF ApproveStep
<1>6. ASSUME NEW m \in inflight, StripeRefunds(m) \/ StripeDrops(m)
      PROVE  Truthful'
  BY <1>6, AuditFrame DEF StripeRefunds, StripeDrops
<1>7. ASSUME NEW e \in events, Deliver(e)
      PROVE  Truthful'
  BY <1>7, AuditFrame DEF Deliver
<1>8. CASE UNCHANGED vars
  BY <1>8, AuditFrame DEF vars
<1>9. QED
  BY <1>2, <1>3, <1>4, <1>5, <1>6, <1>7, <1>8 DEF Next

(***************************************************************************)
(* The audit log never says of a decision what is not so: its entries      *)
(* stay true of their rows, however late they were written.                *)
(***************************************************************************)
THEOREM AuditIsTrueHolds == Spec => []AuditIsTrue
<1>1. Init => Truthful
  BY DEF Init, Truthful, AuditorKnows, AuditIsTrue
<1>2. Inductive /\ Truthful /\ [Next]_vars => Truthful'
  BY TruthfulStep
<1>3. Truthful => AuditIsTrue
  BY DEF Truthful
<1>4. QED
  BY <1>1, <1>2, <1>3, InductiveHolds, PTL DEF Spec

-----------------------------------------------------------------------------
(* The ledger *)

LEMMA RangeAppend ==
  ASSUME NEW S, NEW s \in Seq(S), NEW e \in S
  PROVE  Range(Append(s, e)) = Range(s) \cup {e}
<1>1. /\ Len(s) \in Nat /\ DOMAIN s = 1 .. Len(s)
      /\ DOMAIN Append(s, e) = 1 .. Len(s) + 1
      /\ \A i \in 1 .. Len(s) : Append(s, e)[i] = s[i]
      /\ Append(s, e)[Len(s) + 1] = e
  OBVIOUS
<1>2. QED
  BY <1>1 DEF Range

(***************************************************************************)
(* What an event says stays true: a charge gives back more and more, and   *)
(* no more than its price.  So it does not matter when a row is written,   *)
(* only that it comes from an event.                                       *)
(***************************************************************************)
EventsStayTrue ==
  /\ \A p \in Payment : returned[p] <= Price[p]
  /\ \A e \in events :
       /\ e.amount <= returned[e.pay]
       /\ e.full => returned[e.pay] = Price[e.pay]
  /\ Range(log) \subseteq events

Booked == EventsStayTrue /\ LedgerBehindStripe

\* All that does not happen at Stripe or in the webhook leaves the money and
\* the ledger alone.
LEMMA HandlersMoveNoMoney ==
  ASSUME [Next]_vars,
         \A m \in inflight : ~StripeRefunds(m),
         \A e \in events : ~Deliver(e)
  PROVE  UNCHANGED <<status, intent, log, refunds, returned, events>>
<1> USE DEF ledgerVars, stripeVars
<1>1. ASSUME NEW r \in Request, Filing(r) \/ FileDies(r)
      PROVE  UNCHANGED <<ledgerVars, stripeVars>>
  BY <1>1 DEF Filing, FileCheck, FileInsert, FileAudit, FileDies
<1>2. ASSUME NEW u \in User, NEW r \in Request, Claim(u, r) \/ Withdraw(u, r) \/ Reject(u, r)
      PROVE  UNCHANGED <<ledgerVars, stripeVars>>
  BY <1>2 DEF Claim, Withdraw, Reject
<1>3. ASSUME NEW u \in User, ApproveStep(u) \/ AuditDecision(u) \/ DecisionDies(u)
      PROVE  UNCHANGED <<ledgerVars, refunds, returned, events>>
  <2>1. CASE GiveUpNoIntent(u) \/ CallStripe(u) \/ StripeAnswers(u) \/ StripeThrows(u)
    BY <2>1 DEF GiveUpNoIntent, CallStripe, StripeAnswers, StripeThrows
  <2>2. CASE Revert(u) \/ AuditFailure(u) \/ StoreRefundId(u) \/ AuditApproval(u)
    BY <2>2 DEF Revert, AuditFailure, StoreRefundId, AuditApproval
  <2>3. CASE AuditDecision(u) \/ DecisionDies(u)
    BY <2>3 DEF AuditDecision, DecisionDies
  <2>4. QED
    BY <1>3, <2>1, <2>2, <2>3 DEF ApproveStep
<1>4. ASSUME NEW m \in inflight, StripeDrops(m)
      PROVE  UNCHANGED <<ledgerVars, refunds, returned, events>>
  BY <1>4 DEF StripeDrops
<1>5. CASE UNCHANGED vars
  BY <1>5 DEF vars
<1>6. QED
  BY <1>1, <1>2, <1>3, <1>4, <1>5 DEF Next

\* What a refund at Stripe writes, with its amount for a name.
LEMMA RefundWrites ==
  ASSUME TypeOK, NEW m \in inflight, StripeRefunds(m)
  PROVE  \E n \in Nat \ {0} :
           LET p == For[m.req]
           IN /\ p \in Payment /\ returned[p] \in Nat /\ returned[p] + n <= Price[p]
              /\ returned' = [returned EXCEPT ![p] = returned[p] + n]
              /\ refunds' = refunds \cup
                   {[key |-> m.key, req |-> m.req, by |-> m.by, amount |-> n]}
              /\ events' = events \cup
                   {[kind |-> RefundKind, pay |-> p, at |-> returned[p] + n,
                     amount |-> returned[p] + n, full |-> returned[p] + n = Price[p]]}
              /\ UNCHANGED <<status, log>>
<1> DEFINE p == For[m.req]
<1>1. m \in Call /\ p \in Payment
  BY RefundAssumption DEF TypeOK, Call
<1>2. Asked[m.req] \in Nat /\ Price[p] \in Nat /\ returned[p] \in Nat
  BY <1>1, RefundAssumption, PriceAssumption DEF TypeOK, Call
<1>3. AmountOf(m) \in Nat \ {0}
  <2>1. AmountOf(m) \in Int /\ AmountOf(m) > 0
    BY <1>2 DEF AmountOf, StripeRefunds
  <2>2. QED
    BY <2>1
<1>4. QED
  BY <1>1, <1>2, <1>3 DEF StripeRefunds, ledgerVars

LEMMA RefundBooked ==
  ASSUME TypeOK, Booked, NEW m \in inflight, StripeRefunds(m)
  PROVE  Booked'
<1> USE DEF Booked
<1> DEFINE p == For[m.req]
<1>1. PICK n \in Nat \ {0} :
        /\ p \in Payment /\ returned[p] \in Nat /\ returned[p] + n <= Price[p]
        /\ returned' = [returned EXCEPT ![p] = returned[p] + n]
        /\ events' = events \cup
             {[kind |-> RefundKind, pay |-> p, at |-> returned[p] + n,
               amount |-> returned[p] + n, full |-> returned[p] + n = Price[p]]}
        /\ UNCHANGED <<status, log>>
  BY RefundWrites
<1>2. returned \in [Payment -> Nat] /\ events \subseteq Event /\ Price \in [Payment -> Nat \ {0}]
  BY PriceAssumption DEF TypeOK
<1>3. \A q \in Payment :
        /\ returned'[q] \in Nat /\ returned[q] <= returned'[q] /\ returned'[q] <= Price[q]
        /\ returned[q] = Price[q] => returned'[q] = Price[q]
  BY <1>1, <1>2 DEF EventsStayTrue
<1>4. ASSUME NEW e \in events'
      PROVE  /\ e.amount <= returned'[e.pay]
             /\ e.full => returned'[e.pay] = Price[e.pay]
  <2>1. CASE e \in events
    <3>1. e.amount \in Nat /\ e.pay \in Payment
      BY <1>2, <2>1 DEF Event
    <3>2. e.amount <= returned[e.pay] /\ (e.full => returned[e.pay] = Price[e.pay])
      BY <2>1 DEF EventsStayTrue
    <3>3. returned[e.pay] \in Nat
      BY <1>2, <3>1
    <3>4. QED
      BY <1>3, <3>1, <3>2, <3>3
  <2>2. CASE e.pay = p /\ e.amount = returned[p] + n /\ e.full = (returned[p] + n = Price[p])
    <3>1. returned'[p] = returned[p] + n /\ returned[p] + n \in Nat
      BY <1>1, <1>2
    <3>2. e.amount <= returned'[e.pay]
      BY <2>2, <3>1
    <3>3. e.full => returned[p] + n = Price[p]
      BY <2>2, Zenon
    <3>4. QED
      BY <2>2, <3>1, <3>2, <3>3
  <2>3. QED
    BY <1>1, <2>1, <2>2
<1>5. Range(log') = Range(log) /\ Range(log) \subseteq events'
  BY <1>1 DEF EventsStayTrue
<1>6. EventsStayTrue'
  BY <1>3, <1>4, <1>5 DEF EventsStayTrue
<1>7. LedgerBehindStripe'
  BY <1>1, <1>3, <1>4, <1>5 DEF LedgerBehindStripe
<1>8. QED
  BY <1>6, <1>7

LEMMA DeliverBooked ==
  ASSUME TypeOK, Booked, NEW e \in events, Deliver(e)
  PROVE  /\ Booked'
         /\ UNCHANGED <<refunds, returned>>
         /\ \/ status' = status
            \/ /\ returned[e.pay] = Price[e.pay]
               /\ e.pay \in Payment
               /\ status' = [status EXCEPT ![e.pay] = "refunded"]
<1>1. e \in Event /\ e.pay \in Payment /\ log \in Seq(Event) /\ status \in [Payment -> Statuses]
  BY DEF TypeOK, LedgerTypeOK, Event
<1>2. UNCHANGED <<refunds, returned, events>>
  BY DEF Deliver, stripeVars
<1>3. \/ UNCHANGED <<status, log>>
      \/ /\ log' = Append(log, e)
         /\ status' = [status EXCEPT ![e.pay] = AfterRefund(@, e.full)]
  BY DEF Deliver, RecordRefund, ledgerVars
<1>4. \/ status' = status
      \/ e.full /\ status' = [status EXCEPT ![e.pay] = "refunded"]
  BY <1>1, <1>3 DEF AfterRefund
<1>5. e.full => returned[e.pay] = Price[e.pay]
  BY DEF Booked, EventsStayTrue
<1>6. Range(log') \subseteq events
  <2>1. Range(log) \subseteq events
    BY DEF Booked, EventsStayTrue
  <2>2. CASE log' = log
    BY <2>1, <2>2
  <2>3. CASE log' = Append(log, e)
    BY <1>1, <2>1, <2>3, RangeAppend
  <2>4. QED
    BY <1>3, <2>2, <2>3
<1>7. EventsStayTrue'
  BY <1>2, <1>6 DEF Booked, EventsStayTrue
<1>8. LedgerBehindStripe'
  <2>1. \A p \in Payment : status'[p] = "refunded" => returned[p] = Price[p]
    BY <1>1, <1>4, <1>5 DEF Booked, LedgerBehindStripe
  <2>2. \A d \in Range(log') : d.amount <= returned[d.pay]
    BY <1>6 DEF Booked, EventsStayTrue
  <2>3. QED
    BY <1>2, <2>1, <2>2 DEF LedgerBehindStripe
<1>9. QED
  BY <1>1, <1>2, <1>4, <1>5, <1>7, <1>8 DEF Booked

LEMMA InitBooked == Init => Booked
<1> SUFFICES ASSUME Init PROVE Booked
  OBVIOUS
<1>1. Range(log) = {}
  BY DEF Init, Range
<1>2. \A p \in Payment : returned[p] = 0 /\ Price[p] \in Nat /\ status[p] = "succeeded"
  BY PriceAssumption DEF Init
<1>3. QED
  BY <1>1, <1>2 DEF Init, Booked, EventsStayTrue, LedgerBehindStripe

LEMMA BookedStep ==
  ASSUME TypeOK, Booked, [Next]_vars
  PROVE  Booked'
<1>1. CASE \E m \in inflight : StripeRefunds(m)
  BY <1>1, RefundBooked
<1>2. CASE \E e \in events : Deliver(e)
  BY <1>2, DeliverBooked
<1>3. CASE (\A m \in inflight : ~StripeRefunds(m)) /\ (\A e \in events : ~Deliver(e))
  <2>1. UNCHANGED <<status, intent, log, refunds, returned, events>>
    BY <1>3, HandlersMoveNoMoney
  <2>2. QED
    BY <2>1 DEF Booked, EventsStayTrue, LedgerBehindStripe, Range
<1>4. QED
  BY <1>1, <1>2, <1>3

LEMMA BookedHolds == Spec => []Booked
<1>1. Init => Booked
  BY InitBooked
<1>2. Inductive /\ Booked /\ [Next]_vars => Booked'
  BY BookedStep DEF Inductive
<1>3. QED
  BY <1>1, <1>2, InductiveHolds, PTL DEF Spec

(***************************************************************************)
(* The ledger never runs ahead of Stripe, whatever the prices, with any    *)
(* number of partial refunds and deliveries in any order.                  *)
(***************************************************************************)
THEOREM LedgerBehindStripeHolds == Spec => []LedgerBehindStripe
<1>1. Booked => LedgerBehindStripe
  BY DEF Booked
<1>2. QED
  BY <1>1, BookedHolds, PTL

-----------------------------------------------------------------------------
(* The handlers, Stripe and the webhook implement RefundContract *)

\* What a request has paid out, and on whose word, is read off its only refund.
LEMMA OnlyRefund ==
  ASSUME NEW R, \A f, g \in R : f.req = g.req => f = g, NEW f \in R
  PROVE  (CHOOSE g \in R : g.req = f.req) = f
<1>1. \E g \in R : g.req = f.req
  OBVIOUS
<1>2. (CHOOSE g \in R : g.req = f.req) \in R /\ (CHOOSE g \in R : g.req = f.req).req = f.req
  BY <1>1
<1>3. QED
  BY <1>2

\* A refund at Stripe is a payout of the request it was made for.
LEMMA RefundPaysOut ==
  ASSUME Inductive, Inductive', NEW m \in inflight, StripeRefunds(m)
  PROVE  Contract!Next
<1> DEFINE p == For[m.req]
<1>1. PICK n \in Nat \ {0} :
        /\ p \in Payment /\ returned[p] \in Nat /\ returned[p] + n <= Price[p]
        /\ returned' = [returned EXCEPT ![p] = returned[p] + n]
        /\ refunds' = refunds \cup {[key |-> m.key, req |-> m.req, by |-> m.by, amount |-> n]}
        /\ status' = status
  BY RefundWrites DEF Inductive
<1> DEFINE f == [key |-> m.key, req |-> m.req, by |-> m.by, amount |-> n]
<1>2. /\ m.req \in Request /\ m.by \in User /\ m.by # By[m.req] /\ Price[p] \in Nat
      /\ refunds \subseteq StripeRefund
  BY <1>1, PriceAssumption DEF Inductive, TypeOK, Call, MoneyMovedByAnother
<1>3. \A g \in refunds : g.req # m.req
  BY DEF StripeRefunds, Inductive, KeyIsRequest
<1>4. f.req = m.req /\ f.by = m.by /\ f.amount = n /\ refunds' = refunds \cup {f}
  BY <1>1
<1> HIDE DEF f
<1>5. /\ \A g, h \in refunds : g.req = h.req => g = h
      /\ \A g, h \in refunds' : g.req = h.req => g = h
  BY DEF Inductive, OneRefundPerRequest
<1>6. ~HasRefund(m.req) /\ HasRefund(m.req)' /\ RefundFor(m.req)' = f
  <2>1. (CHOOSE g \in refunds' : g.req = m.req) = f
    BY <1>4, <1>5, OnlyRefund
  <2>2. QED
    BY <1>3, <1>4, <2>1 DEF HasRefund, RefundFor
<1>7. ASSUME NEW r \in Request, r # m.req
      PROVE  Paid'[r] = Paid[r] /\ Payer'[r] = Payer[r]
  <2>1. CASE HasRefund(r)
    <3>1. PICK g \in refunds : g.req = r
      BY <2>1 DEF HasRefund
    <3>2. (CHOOSE h \in refunds : h.req = r) = g /\ (CHOOSE h \in refunds' : h.req = r) = g
      BY <1>4, <1>5, <3>1, OnlyRefund
    <3>3. HasRefund(r)' /\ RefundFor(r)' = RefundFor(r)
      BY <1>4, <3>1, <3>2 DEF HasRefund, RefundFor
    <3>4. QED
      BY <2>1, <3>3 DEF Paid, Payer
  <2>2. CASE ~HasRefund(r)
    <3>1. ~HasRefund(r)'
      BY <1>4, <1>7, <2>2 DEF HasRefund
    <3>2. QED
      BY <2>2, <3>1 DEF Paid, Payer
  <2>3. QED
    BY <2>1, <2>2
<1>8. Paid[m.req] = 0 /\ Paid' = [Paid EXCEPT ![m.req] = n]
  BY <1>2, <1>4, <1>6, <1>7 DEF Paid
<1>9. Payer' = [Payer EXCEPT ![m.req] = m.by]
  BY <1>2, <1>4, <1>6, <1>7 DEF Payer
<1>10. Contract!PayOut(m.req, m.by, n)
  BY <1>1, <1>2, <1>8, <1>9 DEF Contract!PayOut
<1>11. n \in 1 .. Price[For[m.req]]
  BY <1>1, <1>2
<1>12. QED
  BY <1>2, <1>10, <1>11 DEF Contract!Next

\* The webhook closes a payment that has gone back, or changes nothing the
\* contract speaks of.
LEMMA DeliveryCloses ==
  ASSUME TypeOK, Booked, NEW e \in events, Deliver(e)
  PROVE  [Contract!Next]_Contract!contractVars
<1>1. UNCHANGED <<refunds, returned>> /\ status \in [Payment -> Statuses]
  BY DeliverBooked DEF TypeOK, LedgerTypeOK
<1>2. Paid' = Paid /\ Payer' = Payer
  BY <1>1 DEF Paid, Payer, HasRefund, RefundFor
<1>3. CASE status' = status
  BY <1>1, <1>2, <1>3 DEF Contract!contractVars
<1>4. CASE /\ returned[e.pay] = Price[e.pay]
           /\ e.pay \in Payment
           /\ status' = [status EXCEPT ![e.pay] = "refunded"]
  <2>1. {p \in Payment : status'[p] = "refunded"} = {p \in Payment : status[p] = "refunded"} \cup {e.pay}
    BY <1>1, <1>4
  <2>2. Contract!Close(e.pay)
    BY <1>1, <1>2, <1>4, <2>1 DEF Contract!Close
  <2>3. QED
    BY <1>4, <2>2 DEF Contract!Next
<1>5. QED
  BY <1>3, <1>4, DeliverBooked

LEMMA InitContract == Init => Contract!Init
<1> SUFFICES ASSUME Init PROVE Contract!Init
  OBVIOUS
<1>1. \A r \in Request : ~HasRefund(r)
  BY DEF Init, HasRefund
<1>2. {p \in Payment : status[p] = "refunded"} = {}
  BY DEF Init
<1>3. QED
  BY <1>1, <1>2 DEF Init, Contract!Init, Paid, Payer

LEMMA ContractStep ==
  ASSUME Inductive, Inductive', Booked, [Next]_vars
  PROVE  [Contract!Next]_Contract!contractVars
<1>1. CASE \E m \in inflight : StripeRefunds(m)
  BY <1>1, RefundPaysOut
<1>2. CASE \E e \in events : Deliver(e)
  BY <1>2, DeliveryCloses DEF Inductive
<1>3. CASE (\A m \in inflight : ~StripeRefunds(m)) /\ (\A e \in events : ~Deliver(e))
  <2>1. UNCHANGED <<status, refunds, returned>>
    BY <1>3, HandlersMoveNoMoney
  <2>2. Paid' = Paid /\ Payer' = Payer
    BY <2>1 DEF Paid, Payer, HasRefund, RefundFor
  <2>3. QED
    BY <2>1, <2>2 DEF Contract!contractVars
<1>4. QED
  BY <1>1, <1>2, <1>3

(***************************************************************************)
(* The route handlers, Stripe's idempotency keys and the webhook implement *)
(* RefundContract: each request pays out at most once, on the word of      *)
(* another than its author, within what its payment still holds, and only  *)
(* a payment that has gone back is closed.                                 *)
(***************************************************************************)
THEOREM KeepsContractHolds == Spec => KeepsContract
<1>1. Init => Contract!Init
  BY InitContract
<1>2. Inductive /\ Inductive' /\ Booked /\ [Next]_vars => [Contract!Next]_Contract!contractVars
  BY ContractStep
<1>3. QED
  BY <1>1, <1>2, InductiveHolds, BookedHolds, PTL DEF Spec, KeepsContract, Contract!Spec
=============================================================================
