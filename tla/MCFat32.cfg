CONSTANTS
  UPC = 3
  CLUSTERS = 6
  NameOrder <- TwoNames
  Buffers <- TwoBuffers
  Lengths = {2}
  Offsets <- Seeks
  MaxDepth = 3
  MaxSize = 7
  MaxFds = 2
  MaxOps = 5
  MaxCrashes = 1
SPECIFICATION Spec
INVARIANTS
  VolumeSound
  NoForeignData
  Durable
  ListsAll
CHECK_DEADLOCK FALSE
