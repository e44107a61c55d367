SPECIFICATION FairSpec
CONSTANTS
  RingSize = 4
  MaxSetups = 2
  Faults = {"resize", "lost", "shm", "refuse"}
INVARIANTS OneOwner InUseIsThere
PROPERTIES FrameComes StopReturns
CHECK_DEADLOCK FALSE
