SPECIFICATION Spec
CONSTANTS
  own = own
  far = far
  near = near
  big = near
  Msgs = {own, far, near}
  Own = {own}
  Inbound = {near}
  Size <- Sizes
  MaxBytes = 2
  MaxPushes = 2
  MaxRelayRows = 2
  MaxFetches = 1
  MaxSweeps = 2
  MaxRestarts = 1
INVARIANTS TypeOK Contiguous RelayedOnce 
PROPERTIES RowsKept RetentionExact StoreIsLog
CHECK_DEADLOCK FALSE
