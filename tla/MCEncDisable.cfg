CONSTANTS
  BLOCKS = 2
  BATCH = 2
  SLOTS = 2
  Pins = {"p"}
  Values = {"x", "y"}
  Disks <- CleanDisks
  MaxKeys = 1
  MaxFails = 0
  MaxResets = 0
SPECIFICATION Spec
INVARIANTS
  DisableKeepsData
CHECK_DEADLOCK FALSE
