CONSTANTS
  Who <- WithPeer
  MaxText = 2
  Legacy = FALSE
  MaxClock = 2
  MaxFail = 0
  MaxEdit = 0
  MaxGen = 2
  MaxViews = 1
  MaxQueue = 1
  MaxCrash = 1
SPECIFICATION Spec
CHECK_DEADLOCK FALSE
INVARIANTS
  NoteInv
  StoreInv
PROPERTIES
  SeenButByDrafts
  PromiseKept
