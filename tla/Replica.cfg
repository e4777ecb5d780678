SPECIFICATION Spec
CONSTANTS
    App = App
    Rows = {r1}
    Identities = {doc}
    None = None
    MaxEdits = 2
    MaxOwed = 2
    MaxLog = 2
    MaxRestarts = 1
INVARIANTS
    NothingUnowed
    CursorBehindBytes
    OnlyDurableLeaves
    DeletionRetires
CHECK_DEADLOCK FALSE
