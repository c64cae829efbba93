SPECIFICATION LiveWriteSpec
CONSTANTS
    Clients = {c1}
    Bufs = {b1}
    None = None
    MaxQueue = 1
    Window = 2
    Interval = 2
    SelfTokens = 1
    FlowControl = TRUE
    MultiClient = FALSE
    ConnectedTokens = FALSE
    NotifyWritable = FALSE
    MaxMsgs = 0
    MaxSend = 1
    MaxPending = 0
INVARIANTS BuffersHaveOwners ClientTokensConserved SelfTokensConserved
PROPERTIES WritesFinish MouseReported
CHECK_DEADLOCK FALSE
