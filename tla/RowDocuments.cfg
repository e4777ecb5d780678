SPECIFICATION Spec
CONSTANTS
    Rows = {r1}
    Openers = {o1, o2}
    Mine = {m1, m2}
    Theirs = {t1}
    None = None
INVARIANTS
    HydratedIsComplete
    
    NothingAfterRetirement
PROPERTIES
    StoredSectionsAreComplete
CHECK_DEADLOCK FALSE
