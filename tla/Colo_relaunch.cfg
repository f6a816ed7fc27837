SPECIFICATION FairSpec
CONSTANTS
  SyncTypes = {"CHECK_IDLE_SYNC"}
  MaxEpoch = 1
  MaxFaults = 1
PROPERTY RelaunchHappens
CHECK_DEADLOCK FALSE
