SPECIFICATION Spec
CONSTANTS
    Ids = {a, b}
    Threads = {t1, t2}
    Paths = {f}
    MaxReq = 2
    MaxGen = 2
    MaxCode = 2
    None = None
SYMMETRY Symmetry
INVARIANTS
    TypeOK
    OwnerDecides
    DecidesWhatWasShown
    PathsOfThisTurn
CHECK_DEADLOCK FALSE
