CONSTANTS
  Who <- WithPeer
  MaxText = 2
  Legacy = FALSE
  MaxClock = 3
  MaxFail = 0
  MaxEdit = 0
  MaxGen = 1
  MaxViews = 1
  MaxQueue = 2
  MaxCrash = 1
SPECIFICATION Spec
CHECK_DEADLOCK FALSE
PROPERTIES
  NothingUnseen
