SPECIFICATION Spec
CONSTANTS
  UserOps = {"report","scan","debug"}
  Faults = {"supplicant","kill","radio"}
  Gifs = {g0}
  NoGif = NoGif
  UsesAlfa = FALSE
  MaxBlank = 0
CONSTRAINT OneComplication
INVARIANTS IdleIsQuiet HoleAccounted FramesAreOfThisAttempt RestIsTold SupplicantTracked NoOrphanUnderSupplicant
PROPERTIES AttemptOnlyOnPress
