SPECIFICATION FairChain
CONSTANTS
  w1 = w1  w2 = w2
  NoOne = NoOne
  Horizon = 2
  DayLength = 3
  Margin = 1
  Skew <- MCSkew
  Job = {1, 2}
  Worker = {w1, w2}
  Handles <- MCHandles
  MaxAttempts = 2
  Lease = 2
  Delays = {0}
  Cap = 2
  Prompt = {1}
  Lossy = TRUE
  MaxFaults = 1
CHECK_DEADLOCK FALSE
INVARIANTS
  ChainUnbroken
  OneRunner
  SucceededWasDone
  AttemptsWithinFaults
PROPERTIES
  LeaseHonoured
  EveryJobEnds
  DeadNeverRetried
