CONSTANTS
  PROC_CNT = 2
  CAP_CNT = 3
  CHAN_CNT = 0
  SLOT_CNT = 2
  PMP_CNT = 1
  TAG_BLOCKS = 4
  Harts = {0}
  NULL = NULL
  Platforms <- Boots
  Requests <- Reqs
VIEW Observed
SPECIFICATION Spec
INVARIANTS
  OneRing
  Exclusive
  RevokesTree
  ScheduleMatches
CHECK_DEADLOCK FALSE
