CONSTANTS
  a = a
  b = b
  Devices <- Two
  Verbs <- OneOffers
  MaxKey = 3
  MaxJob = 3
  MaxFault = 1
SPECIFICATION FairSpec
CHECK_DEADLOCK FALSE
INVARIANTS
  PairInv
  OneTry
  NoKeyStranded
PROPERTIES
  JobsEnd
  Republished
