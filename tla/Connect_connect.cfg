SPECIFICATION FairSpec
CONSTANTS
  tv = tv
  phone = phone
  Sinks = {tv}
  Sources = {phone}
  Picky = {tv}
  Anyone = Anyone
  Max = 4
  FindTries = 2
  WaitTries = 2
  Half = 4
  NetSizes = {4}
  Faults = {"leave", "fail", "flaky", "slow", "drop"}
INVARIANTS GroupIsThere AddressIsSinks AbortSoon
PROPERTIES SinkReached
CHECK_DEADLOCK FALSE
