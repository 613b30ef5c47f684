SPECIFICATION Spec
CONSTANTS
    Pids = {p1, p2}
    MaxVersion = 2
    MaxStarts = 2
    None = None
INVARIANTS
    TypeOK
    UpdateIsNewer
    NothingLeftBehind
CHECK_DEADLOCK FALSE
