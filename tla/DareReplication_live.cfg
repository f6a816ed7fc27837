SPECIFICATION FairSpec
CONSTANTS
  N = 3
  Leader = 0
  T = 1
  Lap = 3
  OldLogs <- MCEmptyLogs
  MaxEntries = 4
  Faulty = {1}
  MaxFails = 1
INVARIANTS ValidUpToEnd SameCommitted OneStepAtATime
PROPERTIES EntriesCommitted
CHECK_DEADLOCK FALSE
