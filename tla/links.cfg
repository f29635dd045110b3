SPECIFICATION FairSpec
CONSTANTS
  a1 = a1
  a2 = a2
  a3 = a3
  h1 = h1
  h2 = h2
  me = me
  c1 = c1
  c2 = c2
  Addrs = {a1, a2, a3}
  Hosts = {h1, h2, me}
  HostOf <- Listeners
  Communities = {c1, c2}
  SeedDials <- OwnSeeds
  PeerDials = {a2}
  SelfAddrs = {a3}
  Tasks = {1, 2, 3}
  MaxDials = 2
  MaxDrops = 2
INVARIANTS TypeOK SeedPursued StatusTruthful
PROPERTY SeedReconnects
CHECK_DEADLOCK FALSE
