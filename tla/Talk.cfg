SPECIFICATION TalkSpec
CONSTANTS
    None = None
    MaxStarts = 2
    Gate = TRUE
    Impatient = TRUE
INVARIANTS
    NeverStuckOn
    StopsWhatItMeant
PROPERTIES
    ReleaseIsHonored
CHECK_DEADLOCK FALSE
