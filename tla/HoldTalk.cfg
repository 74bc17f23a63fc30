CONSTANTS
  c1 = c1
  c2 = c2
  Conns <- TwoConns
  NoConn = NoConn
  Asks <- NoAsks
  RingCap = 1
  TakeMax = 1
  QueueCap = 1
  WireCap = 2
  MaxOut = 0
  MaxSay = 2
SPECIFICATION Spec
CHECK_DEADLOCK FALSE
SYMMETRY ConnSymmetry
INVARIANTS
  FramesWhole
PROPERTIES
  ShellKept
