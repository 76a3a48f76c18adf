CONSTANTS
  PROC_CNT = 2
  CAP_CNT = 3
  CHAN_CNT = 2
  SLOT_CNT = 2
  PMP_CNT = 1
  TAG_BLOCKS = 4
  Harts = {0}
  NULL = NULL
  Platforms <- Boots
  Requests <- Reqs
VIEW Observed
SPECIFICATION Spec
INVARIANTS
  TypeOK
  RevokesTree
  PmpMatches
  MemoryPrivate
  ReceiverHasBuffer
PROPERTIES
  LibraryForesees
  SocketLossUnregisters
CHECK_DEADLOCK FALSE
