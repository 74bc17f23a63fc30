CONSTANTS
  a = a
  b = b
  x = x
  y = y
  Buffers = {a, b}
  Servers = {x}
  ServerOf <- OneServer
  NoBuffer = NoBuffer
  QueueCap = 2
  MaxText = 1
  MaxSpawn = 2
  MaxRequest = 2
SPECIFICATION FairLspSpec
CHECK_DEADLOCK FALSE
INVARIANTS
  ServerInv
  ServerSees
PROPERTIES
  ReleasedA
