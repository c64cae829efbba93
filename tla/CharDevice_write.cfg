SPECIFICATION WriteSpec
CONSTANTS
    Clients = {c1}
    Bufs = {b1}
    None = None
    MaxQueue = 1
    Window = 2
    Interval = 2
    SelfTokens = 1
    FlowControl = TRUE
    MultiClient = FALSE
    ConnectedTokens = TRUE
    NotifyWritable = FALSE
    MaxMsgs = 0
    MaxSend = 1
    MaxPending = 0
INVARIANTS OneWriter WriteScheduled WaitsForOneClient ClientTokensConserved TokensAgree SelfTokensConserved
CHECK_DEADLOCK FALSE
