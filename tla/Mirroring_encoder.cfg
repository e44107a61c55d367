SPECIFICATION MirrorSpec
CONSTANTS
  Interval = 2
  Nap = 1
  LockWait = 0
  Answer = 1
  Sizes = {720, 1080}
  MaxChanges = 2
  MaxIdr = 1
  EncMayFail = TRUE
  Cores = 8
  Screens <- PhoneScreens
  Turns = {0, 270}
INVARIANTS KeepsRate PictureMoves
PROPERTIES Settles PictureFits
