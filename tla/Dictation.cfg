SPECIFICATION FairSpec
CONSTANTS
    None = None
    Unknown = Unknown
    Apps = {Editor, Chat}
    MaxUtterances = 2
    MaxRepeats = 1
    MaxRecipes = 1
    Hurried = FALSE
    Steady = TRUE
    Overlap = FALSE
INVARIANTS
    
    
    PillIsHonest
PROPERTIES
    EveryRunEnds
CHECK_DEADLOCK FALSE
