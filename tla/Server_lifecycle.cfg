SPECIFICATION FairServer
CONSTANTS
  j1 = j1  m1 = m1
  Job = {j1, m1}
  Own = {j1}
  Delays = {0, 4}
  Idle = 3
  Lease = 2
  Errors = TRUE
  Signal = {1, 2}
CHECK_DEADLOCK FALSE
INVARIANTS
  NoOversleep
  StopIsPrompt
  NothingCutOff
PROPERTIES
  EveryJobTaken
  SignalEnds
