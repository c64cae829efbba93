\* Every command is processed and every stop is answered.
SPECIFICATION Spec
CONSTANTS
    v1 = v1
    v2 = v2
    Vcpus = {v1}
    RingSize <- DisplayOnly
    Retries = 1
    PipeMax = 2
    Window = 1
    SocketSize = 1
    QueueSize = 1
    Starts <- OneClient
PROPERTIES
    RingsDrain
    StopAnswered
CHECK_DEADLOCK FALSE
