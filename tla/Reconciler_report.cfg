SPECIFICATION RSpec
CONSTANTS
  p1 = p1
  Payment = {p1}
  Foreign = {}
  Price <- MCPrice
  Delayed = {p1}
  Refunding = TRUE
  Failures = TRUE
  Edits = TRUE
CHECK_DEADLOCK FALSE
INVARIANTS
  DerivesTheTruth
  ReportIsRight
