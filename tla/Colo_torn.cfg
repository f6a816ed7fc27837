SPECIFICATION Spec
CONSTANTS
  SyncTypes = {"CHECK_IDLE_SYNC"}
  MaxEpoch = 1
  MaxFaults = 0
INVARIANT TakeoverConsistent
CHECK_DEADLOCK FALSE
