CONSTANTS
  h0 = h0
  h1 = h1
  PROC_CNT = 2
  CAP_CNT = 9
  CHAN_CNT = 1
  SLOT_CNT = 1
  PMP_CNT = 2
  TAG_BLOCKS = 4
  Harts = {h0, h1}
  NULL = NULL
  Platforms <- Boots
  Requests <- Descriptors
  Program <- Programs
  Code <- Codes
SPECIFICATION SysSpec
INVARIANTS
  RegistersKept
  AnsweredOnce
  MessageIntact
PROPERTIES
  CapsArrive
  CallsReturn
  RevokedGoes
CHECK_DEADLOCK FALSE
