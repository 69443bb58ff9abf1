--------------------------- MODULE RefundContract ---------------------------
(***************************************************************************)
(* What the refund feature promises, with no handlers, calls or retries in *)
(* sight: a request pays out at most once, on the word of someone other    *)
(* than its author, never beyond what the payment still holds; and the     *)
(* ledger closes a payment only after all of it has gone back.             *)
(***************************************************************************)
EXTENDS Integers

CONSTANTS Payment, Price, Request, For, By, User, NoUser

VARIABLES paid,     \* paid[r]: what request r has paid out, 0 while nothing
          payer,    \* payer[r]: on whose word
          returned, \* returned[p]: what payment p has given back
          closed    \* the payments the ledger shows as refunded

contractVars == <<paid, payer, returned, closed>>

Init ==
  /\ paid = [r \in Request |-> 0]
  /\ payer = [r \in Request |-> NoUser]
  /\ returned = [p \in Payment |-> 0]
  /\ closed = {}

PayOut(r, u, n) ==
  /\ paid[r] = 0
  /\ u # By[r]
  /\ n > 0
  /\ returned[For[r]] + n <= Price[For[r]]
  /\ paid' = [paid EXCEPT ![r] = n]
  /\ payer' = [payer EXCEPT ![r] = u]
  /\ returned' = [returned EXCEPT ![For[r]] = @ + n]
  /\ UNCHANGED closed

Close(p) ==
  /\ returned[p] = Price[p]
  /\ closed' = closed \cup {p}
  /\ UNCHANGED <<paid, payer, returned>>

Next ==
  \/ \E r \in Request, u \in User : \E n \in 1 .. Price[For[r]] : PayOut(r, u, n)
  \/ \E p \in Payment : Close(p)

Spec == Init /\ [][Next]_contractVars
=============================================================================
