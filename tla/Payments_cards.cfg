SPECIFICATION FairSpec
CONSTANTS
  p1 = p1  f1 = f1
  Payment = {p1, f1}
  Foreign = {f1}
  Price <- MCPrice
  Delayed = {f1}
  Refunding = TRUE
  Failures = TRUE
CHECK_DEADLOCK FALSE
INVARIANTS
  NoInventedMoney
  SettledShows
  StatusIsLastLearned
PROPERTIES
  CheckoutKeepsVerdict
  KeepsLifecycle
  OutcomeShows
  CreatedIsLeft
