\* The client of a full pipe fails while the worker writes.
SPECIFICATION Spec
CONSTANTS
    v1 = v1
    v2 = v2
    Vcpus = {v1}
    RingSize <- DisplayOnly
    Retries = 1
    PipeMax = 2
    Window = 1
    SocketSize = 1
    QueueSize = 1
    Starts <- OneClient
INVARIANTS
    WakeEnsured
CHECK_DEADLOCK FALSE
