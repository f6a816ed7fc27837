SPECIFICATION Spec
CONSTANTS
  N = 3
  Leader = 0
  T = 1
  Lap = 3
  OldLogs <- MCEmptyLogs
  MaxEntries = 5
  Faulty = {1}
  MaxFails = 0
INVARIANTS CommittedOnMajority
CHECK_DEADLOCK FALSE
