SPECIFICATION Spec
CONSTANTS
  admin = admin
  seed = seed
  alice = alice
  m1 = m1
  r1 = r1
  r2 = r2
  t1 = t1
  t2 = t2
  p1 = p1
  p2 = p2
  Admin = admin
  Seed = seed
  Members = {alice}
  Msgs = {m1}
  Author <- ByAdmin
  Rotators = {r1}
  Fetchers = {t1}
  Paths = {p1,p2}
  PeerDials <- MemberDials
  SeedDials <- RelayDials
  SeedKey = 0
  MaxKey = 2
  MaxConnects = 1
  MaxFaults = 2
SYMMETRY Symmetry
INVARIANTS TypeOK NoDuplicateDelivery  
PROPERTY BufferedNotLost
CHECK_DEADLOCK FALSE
