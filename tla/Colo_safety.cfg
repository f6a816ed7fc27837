SPECIFICATION Spec
CONSTANTS
  SyncTypes = {"CHECK_IDLE_SYNC", "STATIC_TIME_SYNC"}
  MaxEpoch = 2
  MaxFaults = 1
INVARIANTS TypeOK CtrlInStep OutputCommit RunsConsistent NoRequestLost
CHECK_DEADLOCK FALSE
