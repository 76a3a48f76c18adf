CONSTANTS
  BLOCKS = 3
  BATCH = 2
  SLOTS = 2
  Pins = {"p", "q"}
  Values = {"x", "y"}
  Disks <- StartDisks
  MaxKeys = 2
  MaxFails = 3
  MaxResets = 2
SPECIFICATION Spec
INVARIANTS
  ReadBack
  KeyIsOnDisk
  LeakNeedsFailure
PROPERTIES
  FormatsOnlyBlank
CHECK_DEADLOCK FALSE
