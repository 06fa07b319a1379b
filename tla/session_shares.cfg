SPECIFICATION Spec
CONSTANTS
    Threads = {t1, t2}
    Conns = {c1}
    NoName = none
    Shares = {none, a, b}
    NULL = NULL
    PathNamesShare = TRUE
    EaSupport = TRUE
    MayRefuse = TRUE
    MayDrop = TRUE
    MaxDepth = 4
INVARIANTS
    RightShare
CHECK_DEADLOCK FALSE
