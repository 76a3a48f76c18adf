CONSTANTS
  MIN_HART = 0
  MAX_HART = 2
  SLOT_CNT = 3
  PROC_CNT = 2
  MaxUpdates = 2
  NONE = NONE
SPECIFICATION FairSpec
INVARIANTS
  SlicesWhole
  RunsInOwnSlot
PROPERTIES
  OwnersRun
