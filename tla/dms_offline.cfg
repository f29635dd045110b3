SPECIFICATION FairSpec
CONSTANTS
  alice = alice
  bob = bob
  Users = {alice, bob}
  Seed = Seed
  None = None
  MaxSends = 1
  MaxStops = 1
  MaxSets = 1
PROPERTY OfflineDelivered
CHECK_DEADLOCK FALSE
