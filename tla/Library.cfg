CONSTANTS
  MaxSource = 2
  MaxKey = 1
  Watched = {1}
  MaxRevision = 3
  MaxTicket = 2
  MaxHeld = 1
  MaxFault = 1
SPECIFICATION FairSpec
CHECK_DEADLOCK FALSE
INVARIANTS
  LibraryInv
PROPERTIES
  NeverResurrected
  OverwritesAsShown
  ViewNeverBack
  PositionSettles
