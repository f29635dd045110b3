SPECIFICATION Spec
CONSTANTS
  own = own
  far = far
  near = near
  big = near
  Msgs = {own, far}
  Own = {own}
  Inbound = {}
  Size <- Sizes
  MaxBytes = 8
  MaxPushes = 1
  MaxRelayRows = 2
  MaxFetches = 1
  MaxSweeps = 0
  MaxRestarts = 0
PROPERTY CatchUpComplete
CHECK_DEADLOCK FALSE
