CONSTANTS
  N = 3
  Lossy = {0}
  MaxElections = 3
  MaxWire = 1
SPECIFICATION Spec
INVARIANT ElectionSafety
CHECK_DEADLOCK FALSE
