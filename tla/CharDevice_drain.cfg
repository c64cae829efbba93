SPECIFICATION LiveMultiSpec
CONSTANTS
    Clients = {c1, c2}
    Bufs = {b1}
    None = None
    MaxQueue = 1
    Window = 1
    Interval = 1
    SelfTokens = 1
    FlowControl = TRUE
    MultiClient = TRUE
    ConnectedTokens = TRUE
    NotifyWritable = FALSE
    MaxMsgs = 2
    MaxSend = 1
    MaxPending = 0
PROPERTY QueuesDrain
CHECK_DEADLOCK FALSE
