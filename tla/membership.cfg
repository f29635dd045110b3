SPECIFICATION FairSpec
CONSTANTS
  creator = creator
  seed = seed
  alice = alice
  Creator = creator
  Seed = seed
  Members = {alice}
  None = None
  MaxCalls = 2
  MaxPeers = 1
  MaxFaults = 1
INVARIANTS TypeOK RolesGranted SeedNeverListed
PROPERTY JoinerReachesSeed
CHECK_DEADLOCK FALSE
