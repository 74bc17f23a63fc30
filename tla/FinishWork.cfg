CONSTANTS
  a = a
  b = b
  Panes = {a}
  Fresh = 1
  Poll = 1
  MaxWork = 2
  MaxAsk = 2
  MaxTyped = 1
SPECIFICATION FairSpec
INVARIANTS
  Honest
  OneEach
PROPERTIES
  OnlyByClick
  SafetyWins
  LetsGo
