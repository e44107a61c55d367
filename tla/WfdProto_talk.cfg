SPECIFICATION FairSpec
CONSTANTS
  Offer = {"aac"}
  Pref = "auto"
  CanEncode = TRUE
  KeepAfter = 3
  SinkTimeout = 12
  GiveUp = 18
  SinkFaults = {"rude", "errors", "split", "term"}
INVARIANTS KeepaliveInTime
PROPERTIES AnswersMatch ImplementsLife HandshakeEnds
CHECK_DEADLOCK FALSE
