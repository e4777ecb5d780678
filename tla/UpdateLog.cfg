SPECIFICATION LogSpec
CONSTANTS
    Update = {u1, u2, u3, u4, u5}
    Threshold = 3
SYMMETRY Symmetry
INVARIANTS
    ReplayIsComplete
CHECK_DEADLOCK FALSE
