SPECIFICATION LocalSpec
CONSTANTS
    Models = {small, large}
    Calls = {c1}
    Policies = {"timed", "immediately"}
    MaxVersions = 2
    Nothing = Nothing
    MaxAttempts = 2
    Prompt = TRUE
INVARIANTS
    NamesWhatRan
    OneTransferPerModel
PROPERTIES
    CancelIsHeard
CHECK_DEADLOCK FALSE
