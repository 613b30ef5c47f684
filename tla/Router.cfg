SPECIFICATION Spec
CONSTANTS
    home = home
    Ids = {a, b}
    Projects = {home}
    Threads = {t1, t2}
    Handlers = {h1, h2}
    MaxTurns = 2
    MaxEvents = 1
    MaxAsked = 5
    None = None
    Lists <- OneProject
SYMMETRY Symmetry
INVARIANTS
    TypeOK
    OwnSessionsOnly
    QuotaExact
    PickerArmed
CHECK_DEADLOCK FALSE
