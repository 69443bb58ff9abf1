SPECIFICATION Spec
CONSTANTS
  r1 = r1  r2 = r2  r3 = r3
  c1 = c1  c2 = c2
  ann = ann  bob = bob  x1 = x1  x2 = x2
  noconn = noconn  nobody = nobody
  Call = {r1, r2, r3}
  Asks <- MCAsks
  Conn = {c1, c2}
  User = {ann, bob}
  Row = {x1, x2}
  Owner <- MCOwner
  Attempts = 2
  NoConn = noconn
  Nobody = nobody
CHECK_DEADLOCK FALSE
INVARIANTS
  CleanPool
  ReadsItsOwn
