SPECIFICATION FairSpec
CONSTANTS
  Parts = {p1, p2, p3}
  MaxBuffers = 2
  MaxFrames = 2
  OpenTries = 1
  IdleLimit = 2
INVARIANTS NearlyWhole
PROPERTIES ImplementsExchange FindsLiveBuffer
CHECK_DEADLOCK FALSE
