SPECIFICATION Spec
CONSTANTS
  Nodes <- Ids3
  Bits = 2
  Bootstraps <- Seeds
  Target <- Targets
  K = 1
  Count = 2
  Alpha = 1
  MaxRounds = 3
  CommunityTtl = 1
  SlotTtl = 1
  None = None
  MaxDials = 2
  MaxOps = 3
  MaxTime = 1
INVARIANTS TypeOK WalkComplete 
CHECK_DEADLOCK FALSE
