SPECIFICATION MultiSpec
CONSTANTS
    Clients = {c1, c2}
    Bufs = {b1, b2}
    None = None
    MaxQueue = 2
    Window = 1
    Interval = 1
    SelfTokens = 1
    FlowControl = TRUE
    MultiClient = TRUE
    ConnectedTokens = TRUE
    NotifyWritable = FALSE
    MaxMsgs = 3
    MaxSend = 1
    MaxPending = 0
SYMMETRY ClientsAndBufs
INVARIANTS NoGap QueueWatched QueueMeansNoTokens NoLostWakeup RefsMatch
CHECK_DEADLOCK FALSE
