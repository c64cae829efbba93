SPECIFICATION Spec
CONSTANTS
  x1 = x1
  x2 = x2
  x3 = x3
  x4 = x4
  Channels = {1, 2}
  OpenChoices = {{1, 2}}
  Images = {x1, x2, x3}
  SizeOf <- MCSizeOf
  CacheSize = 2
  MiniChoices = {{}}
  Migration = FALSE
  MaxSerial <- MCSerials
  Nobody = Nobody
INVARIANT
  NeverStuck
CHECK_DEADLOCK FALSE
