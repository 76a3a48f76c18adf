CONSTANTS
  h0 = h0
  h1 = h1
  PROC_CNT = 2
  CAP_CNT = 15
  CHAN_CNT = 1
  SLOT_CNT = 2
  PMP_CNT = 3
  TAG_BLOCKS = 4
  Harts = {h0, h1}
  NULL = NULL
  HartSeq <- TwoHarts
  Platforms <- Boots
  Requests = {}
  Code <- BASE
  NUM = 4
  IDX = 8
  SECTORS = 3
  Data = {0, 1}
  Tuts <- AllTuts
SPECIFICATION TutSpec
INVARIANTS
  RunsClean
  DiskAnswers
PROPERTY
  SwapsSafely
CHECK_DEADLOCK FALSE
