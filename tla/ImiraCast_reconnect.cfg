SPECIFICATION Spec
CONSTANTS
  UserOps = {}
  Faults = {}
  Gifs = {g0}
  NoGif = NoGif
  UsesAlfa = FALSE
  MaxBlank = 4
INVARIANTS NoEndlessReconnect
