SPECIFICATION RegistrySpec
CONSTANTS
  Ids = {r1, r2, r3}
  Requests = {q1, q2}
  Boot = boot
  Definitions <- MCDefinitions
  Files <- MCFiles
  NoFile = 0
  NoRoom = none
  MaxRooms = 1
  MaxAsked = 3
  MaxCrashes = 2
INVARIANTS
  RegistryTypeOK
  OverrunBounded
  NothingForgotten
  DiskAgrees
SYMMETRY MCSymmetry
CHECK_DEADLOCK FALSE
