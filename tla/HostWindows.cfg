SPECIFICATION Spec
CONSTANTS
    Windows = {w1, w2}
    None = None
    MaxRecordings = 2
    MaxChunks = 0
    QueueLimit = 1
    MaxReloads = 0

    
PROPERTIES
    CommandsReturn
CHECK_DEADLOCK FALSE
