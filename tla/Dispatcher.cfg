SPECIFICATION FairSpec
CONSTANTS
  Senders = {s1, s2}
  Types <- MCTypes
  Size <- MCSize
  AckOf <- MCAckOf
  Capacity = 2
  MaxPosts = 4
  None = None
INVARIANTS
  TypeOK
  Framed
  AckForHolder
PROPERTIES
  ImplementsRpc
  HolderReturns
CHECK_DEADLOCK FALSE
