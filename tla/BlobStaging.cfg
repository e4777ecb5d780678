SPECIFICATION Spec
CONSTANTS
    None = None
    Hosts = {app, dev}
    Pids = {p1, p2}
    Captures = {c1}
    Puts = {u1, u2}
    MaxLosses = 1
    DirectorySyncs = TRUE
SYMMETRY Symmetry
INVARIANTS
    WholeWhenVisible
    AnswersAreTrue
    SweepSparesTheLiving
CHECK_DEADLOCK FALSE
