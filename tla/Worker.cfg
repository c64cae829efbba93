\* The worker, the guest, the machine and a client, in every order.
SPECIFICATION Spec
CONSTANTS
    v1 = v1
    v2 = v2
    Vcpus = {v1, v2}
    RingSize <- Both
    Retries = 1
    PipeMax = 2
    Window = 1
    SocketSize = 1
    QueueSize = 1
    Starts <- Clients
INVARIANTS
    TypeOK
    PendingMeansMessage
    StateAsserted
    StopFlushes
PROPERTIES
    NoLostCommand
    FlushSeesAll
CHECK_DEADLOCK FALSE
