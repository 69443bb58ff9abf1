SPECIFICATION Spec
CONSTANTS
  j1 = j1  m1 = m1
  Job = {m1}
  Own = {}
  Delays = {0, 4}
  Idle = 3
  Lease = 2
  Errors = FALSE
CHECK_DEADLOCK FALSE
INVARIANTS
  EveryEnqueueWakes
