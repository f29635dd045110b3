SPECIFICATION FairSpec
CONSTANTS
  alice = alice
  bob = bob
  Users = {alice, bob}
  Seed = Seed
  None = None
  MaxSends = 1
  MaxStops = 2
  MaxSets = 1
INVARIANTS TypeOK FiledWithPeer SendAccounted
PROPERTIES SendSettles DirectDelivered
CHECK_DEADLOCK FALSE
