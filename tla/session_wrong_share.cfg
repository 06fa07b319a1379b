SPECIFICATION Spec
CONSTANTS
    Threads = {t1, t2}
    Conns = {c1, c2}
    NoName = none
    Shares = {none, a}
    NULL = NULL
    PathNamesShare = TRUE
    EaSupport = FALSE
    MayRefuse = FALSE
    MayDrop = FALSE
    MaxDepth = 4
INVARIANTS
    RightShare
CHECK_DEADLOCK FALSE
