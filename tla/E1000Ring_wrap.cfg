SPECIFICATION FairSpec
CONSTANTS
  RingLen = 4
  RxBufs = 2
  ReadMax = 1
  PipeMax = 2
  BatchMax = 2
  Modes = {TRUE, FALSE}
  MaxPackets = 9
  MaxCheckpoints = 1
  MaxRequests = 10
  MaxVoid = 4
  MaxForeign = 0
INVARIANTS TypeOK NoLostWakeup
PROPERTIES ImplementsAgreedQueue AllDelivered
CHECK_DEADLOCK FALSE
