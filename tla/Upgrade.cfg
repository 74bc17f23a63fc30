CONSTANTS
  Format <- Formats
  Helper = {h, i}
  MaxGen = 2
  MaxSave = 1
  MaxInstall = 3
  MaxFault = 2
SPECIFICATION Spec
CHECK_DEADLOCK FALSE
SYMMETRY Symmetry
INVARIANTS
  UpgradeInv
  Resumable
  Installed
PROPERTIES
  Kept
