SPECIFICATION FairSpec
CONSTANTS
  admin = admin
  seed = seed
  alice = alice
  m1 = m1
  r1 = r1
  r2 = r2
  t1 = t1
  t2 = t2
  p1 = p1
  p2 = p2
  Admin = admin
  Seed = seed
  Members = {alice}
  Msgs = {}
  Author <- Silent
  Rotators = {r1}
  Fetchers = {t1,t2}
  Paths = {p1}
  PeerDials <- UserDials
  SeedDials <- RelayDials
  SeedKey = 0
  MaxKey = 2
  MaxConnects = 2
  MaxFaults = 0
 
PROPERTY RotationReachesMembers
CHECK_DEADLOCK FALSE
