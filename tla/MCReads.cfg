SPECIFICATION Spec
CONSTANTS
    PassportId = {1, 2, 3}
    Request = {r1, r2}
    Window <- MCWindow
    Limit = {0, 3}
    PageCap = 2
    LogCap = 2
    MaxTime = 2
    MaxLog = 3
SYMMETRY Symmetry
CHECK_DEADLOCK FALSE
INVARIANTS
    TypeOK
    AnswersStand
    ReadsOwnWrite
    WalkMissesNothing
    EveryPageBringsSomething
    LogPagesExact
