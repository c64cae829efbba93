SPECIFICATION LiveSendSpec
CONSTANTS
    Clients = {c1}
    Bufs = {b1}
    None = None
    MaxQueue = 1
    Window = 1
    Interval = 1
    SelfTokens = 1
    FlowControl = TRUE
    MultiClient = FALSE
    ConnectedTokens = TRUE
    NotifyWritable = FALSE
    MaxMsgs = 2
    MaxSend = 1
    MaxPending = 0
INVARIANTS TypeOK OneReader SingleClientNoQueue
PROPERTIES GuestDataRead
CHECK_DEADLOCK FALSE
