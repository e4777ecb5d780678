SPECIFICATION Spec
CONSTANTS
    Budget = 1
    MaxPushes = 2
    MaxTurns = 1
    Repushes = FALSE
    Brisk = TRUE
    Platforms = {"macos", "windows", "linux"}
    Deliveries = {1, 2}
    Words = {"hello", "bye"}
    MaxCopies = 1
    Terms = {"kafka"}
    MaxRows = 2
    MaxTerms = 2
    ReadBudget = 3
    MaxStrays = 1
    Timely = TRUE
    Crowded = FALSE
    Overlap = FALSE
    Simultaneous = FALSE
INVARIANTS
    BorrowIsHonest
    LessonsAreSound
PROPERTIES
    BorrowEnds
    StaleIsCaught
CHECK_DEADLOCK FALSE
