SPECIFICATION FairSpec
CONSTANTS
  ann = ann  bob = bob  s1 = s1  s2 = s2
  nobody = nobody
  User = {ann, bob}
  Session = {s1, s2}
  Task = {1, 2}
  MaxLoads = 2
  Nobody = nobody
CHECK_DEADLOCK FALSE
INVARIANTS
  ActsAsShown
PROPERTIES
  LeavesForCause
  NeverHangs
  LeavesWhenAsked
