SPECIFICATION Spec
CONSTANTS
    Windows = {w1}
    None = None
    MaxRecordings = 2
    MaxChunks = 1
    QueueLimit = 1
    MaxReloads = 1
INVARIANTS
    SlotIsClaimable
    EndedTruly
    TailIsKept
PROPERTIES
    EndingIsHeard
CHECK_DEADLOCK FALSE
