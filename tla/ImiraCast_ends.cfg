SPECIFICATION FairSpec
CONSTANTS
  UserOps = {}
  Faults = {"appcrash"}
  Gifs = {g0}
  NoGif = NoGif
  UsesAlfa = TRUE
  MaxBlank = 0
PROPERTIES StopEndsCast GoneAppEndsService
