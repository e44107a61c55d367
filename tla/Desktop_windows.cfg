SPECIFICATION DesktopSpec
CONSTANTS
  notes = notes
  mail = mail
  c1 = c1
  c2 = c2
  s1 = s1
  s2 = s2
  s3 = s3
  Apps = {notes, mail}
  Optional = {notes}
  Clients = {c1, c2}
  AppOf <- MCAppOf
  Surfaces = {s1, s2, s3}
  Owner <- MCOwner
  Addresses = {1, 2, 3}
  MaxHooks = 2
  MaxHeld = 1
  NoSurface = NoSurface
INVARIANTS ChromeHasSurface StackIsDrawn
SYMMETRY TwoOfNotes
CHECK_DEADLOCK FALSE
PROPERTIES MinimizedComesNearer
