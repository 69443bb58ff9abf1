SPECIFICATION Spec
CONSTANTS
  ann = ann  bob = bob
  d1 = d1  d2 = d2  l1 = l1  nobody = nobody
  User = {ann, bob}
  Founder = {ann}
  Door = {d1, d2}
  Link = {l1}
  Failures = TRUE
  Nobody = nobody
SYMMETRY DoorSymmetry
CHECK_DEADLOCK FALSE
INVARIANTS
  OneSessionPerLink
  OnlyOvertaken
  DisabledHasNoSession
  SomeAdmin
