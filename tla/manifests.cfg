SPECIFICATION Spec
CONSTANTS
  admin = admin
  seed = seed
  alice = alice
  Admin = admin
  Seed = seed
  Members = {alice}
  Chans = {c1}
  PeerDials <- UserDials
  None = none
  MaxCalls = 2
  MaxConnects = 1
  MaxFaults = 1
INVARIANTS TypeOK  DiskHoldsManifest
 
CHECK_DEADLOCK FALSE
