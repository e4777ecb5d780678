SPECIFICATION Spec
CONSTANTS
    a = a
    b = b
    Op <- MCOp
    Batches <- MCBatches
    Callers = {ui}
    Drain = drain
    Ports = {"synchronous", "asynchronous"}
    MaxOps = 4
INVARIANTS
    Accounted
PROPERTIES
    FlushIsHonest
    ImplementsLog
    DrainTerminates
