SPECIFICATION RegistrySpec
CONSTANTS
  Ids = {r1, r2, r3}
  Requests = {q1, q2}
  Boot = boot
  Definitions <- MCDefinitions
  Files <- MCFiles
  NoFile = 0
  NoRoom = none
  MaxRooms = 1
  MaxAsked = 2
  MaxCrashes = 0
INVARIANT NeverPartial
SYMMETRY MCSymmetry
CHECK_DEADLOCK FALSE
