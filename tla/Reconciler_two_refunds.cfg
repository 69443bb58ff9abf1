SPECIFICATION RSpec
CONSTANTS
  p1 = p1
  Payment = {p1}
  Foreign = {}
  Price <- MCPrice
  Delayed = {}
  Refunding = TRUE
  Failures = FALSE
  Edits = FALSE
CHECK_DEADLOCK FALSE
INVARIANTS
  RefundsAddUp
