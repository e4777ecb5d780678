SPECIFICATION CapturesSpec
CONSTANTS
    None = None
    MaxStarts = 2
    Gate = TRUE
    Impatient = FALSE
    MaxSessions = 2
    MaxUtterances = 3
    Overlap = FALSE
    PlaybackLag = 3
INVARIANTS
    NoOrphan
    NoHotMicrophone
    
    
CHECK_DEADLOCK FALSE
