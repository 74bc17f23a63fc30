CONSTANTS
  Device = {a, b}
  Kinds = {"plain", "sealed", "union", "library"}
  Carriers = {"folder", "git"}
  MaxClock = 4
  MaxEdit = 2
  MaxFault = 1
SPECIFICATION FairSpec
CHECK_DEADLOCK FALSE
PROPERTIES
  NothingLost
  NeverOlder
  NewestStands
