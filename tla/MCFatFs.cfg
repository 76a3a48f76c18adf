CONSTANTS
  SS = 2
  CSIZE = 2
  CLUSTERS = 8
  EPS = 3
  ROOTDIR = 4
  Paths <- ThePaths
  Fils = {f1, f2}
  Reads = {3, 4}
  Writes = {3, 4}
  Offsets = {0, 2, 5}
  MaxOps = 3
  MaxCalls = 2
  MaxCrashes = 1
  MaxSize = 9
SPECIFICATION Spec
SYMMETRY FilSymmetry
INVARIANTS
  VolumeSound
  ReadBack
  Durable
  ListsAll
CHECK_DEADLOCK FALSE
