SPECIFICATION FairSpec
CONSTANTS
    Threads = {t1, t2}
    Conns = {c1}
    NoName = none
    Shares = {none}
    NULL = NULL
    PathNamesShare = FALSE
    EaSupport = FALSE
    MayRefuse = TRUE
    MayDrop = TRUE
    MaxDepth = 4
PROPERTIES
    CallReturns
CHECK_DEADLOCK FALSE
