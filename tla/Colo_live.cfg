SPECIFICATION FairSpec
CONSTANTS
  SyncTypes = {"CHECK_IDLE_SYNC"}
  MaxEpoch = 2
  MaxFaults = 0
PROPERTIES CheckpointsComplete FailoverHandled
CHECK_DEADLOCK FALSE
