CONSTANTS
  Who <- Alone
  MaxText = 2
  Legacy = TRUE
  MaxClock = 2
  MaxFail = 1
  MaxEdit = 1
  MaxGen = 2
  MaxViews = 0
  MaxQueue = 1
  MaxCrash = 0
SPECIFICATION FairSpec
CHECK_DEADLOCK FALSE
PROPERTIES
  TypedIsSaved
