SPECIFICATION Spec
CONSTANTS
  p1 = p1
  u1 = u1  u2 = u2  u3 = u3
  r1 = r1  r2 = r2
  NoUser = NoUser
  Payment = {p1}
  Price <- MCPrice
  User = {u1, u2}
  Admin = {u1, u2}
  Request = {r1, r2}
  For <- MCFor
  Asked <- MCAsked
  By <- MCBy
  Failures = TRUE
CHECK_DEADLOCK FALSE
INVARIANTS
  OnePending
  LedgerBehindStripe
PROPERTIES
  KeepsContract
