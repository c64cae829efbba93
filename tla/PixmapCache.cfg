SPECIFICATION Spec
CONSTANTS
  x1 = x1
  x2 = x2
  x3 = x3
  x4 = x4
  Channels = {1, 2}
  OpenChoices = {{1}, {1, 2}}
  Images = {x1, x2, x3, x4}
  SizeOf <- MCSizeOf
  CacheSize = 2
  MiniChoices = {{}, {1, 2}}
  Migration = TRUE
  MaxSerial <- MCSerials
  Nobody = Nobody
SYMMETRY MCSymmetry
INVARIANTS
  TypeOK
  WaitsAreReal
  UsesBeforeRemoval
  NothingForgotten
  Mirror
  CacheSound
CHECK_DEADLOCK FALSE
