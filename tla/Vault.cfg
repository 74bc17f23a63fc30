CONSTANTS
  mine = mine
  other = other
  main = main
  worker = worker
  Profiles <- TwoProfiles
  Doomed <- Leaving
  Threads <- TwoThreads
  Main = main
  MaxId = 2
  MaxText = 2
  MaxFault = 1
SPECIFICATION Spec
CHECK_DEADLOCK FALSE
INVARIANTS
  VaultInv
  NoKeyLeft
PROPERTIES
  LastWriteStands
