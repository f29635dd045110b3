SPECIFICATION Spec
CONSTANTS
  alice = alice
  bob = bob
  Nodes = {alice, bob}
  None = None
  MaxEntries = 3
  MaxChanges = 1
  MaxFetches = 1
  MaxFaults = 1
SYMMETRY Symmetry
INVARIANTS TypeOK  
PROPERTY LogKept
CHECK_DEADLOCK FALSE
