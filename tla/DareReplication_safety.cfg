SPECIFICATION Spec
CONSTANTS
  N = 3
  Leader = 0
  T = 2
  Lap = 4
  OldLogs <- MCLogs
  MaxEntries = 3
  Faulty = {1}
  MaxFails = 1
INVARIANTS TypeOK CommittedOnMajority ValidUpToEnd SameCommitted
PROPERTIES CommitMonotone
CONSTRAINT FirstCommitted
CHECK_DEADLOCK FALSE
