SPECIFICATION StreamSpec
CONSTANTS
  Chunk = 2
  Window = 1
  Settle = 1
  Hard = 2
  SlewPer = 2
  MaxBacklog = 3
  MaxStall = 2
  PerFeed = 2
  Au = 3
  Priming = 3
  MaxInside = 6
  Wrap = 5
  VideoUnits = {170, 1000, 1911}
  AudioUnits = {169, 171}
  Slice = 4
  PatLimit = 4
  ClockLimit = 3
  Poll = 1
  LockWait = 1
INVARIANTS NeverEarly ComesBack StampedAsFed NoGap ClockInTime
