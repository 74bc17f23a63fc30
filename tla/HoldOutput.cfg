CONSTANTS
  c1 = c1
  c2 = c2
  Conns <- TwoConns
  NoConn = NoConn
  Asks <- LastAsk
  RingCap = 1
  TakeMax = 2
  QueueCap = 2
  WireCap = 2
  MaxOut = 3
  MaxSay = 0
SPECIFICATION FairSpec
CHECK_DEADLOCK FALSE
INVARIANTS
  IInv
  NoGap
  UpToDate
PROPERTIES
  HolderLeaves
  EveryoneHears
