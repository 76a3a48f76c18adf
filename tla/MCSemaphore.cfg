CONSTANTS
  Harts = {h1, h2, h3}
  HART_CNT = 3
  MaxTicket = 9
SPECIFICATION FairSpec
PROPERTIES
  ImplementsLock
  NoStarvation
CHECK_DEADLOCK FALSE
