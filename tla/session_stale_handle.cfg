SPECIFICATION Spec
CONSTANTS
    Threads = {t1}
    Conns = {c1}
    NoName = none
    Shares = {none}
    NULL = NULL
    PathNamesShare = FALSE
    EaSupport = FALSE
    MayRefuse = FALSE
    MayDrop = TRUE
    MaxDepth = 3
INVARIANTS
    HandleOnItsSession
CHECK_DEADLOCK FALSE
