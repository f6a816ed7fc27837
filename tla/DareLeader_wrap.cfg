CONSTANTS
  LogLen = 97
  HdrLen = 2
  N = 2
  Self = 0
  CmdLens = {6}
  Submitters = 1
  MaxEntries = 17
  MaxTerm = 2
  MaxPrunes = 1
SPECIFICATION Spec
INVARIANTS TypeOK AppliedInOrder NeverFull RetainedForFollowers
PROPERTY ImplementsSlidingLog
CHECK_DEADLOCK FALSE
