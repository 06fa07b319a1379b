SPECIFICATION FairSpec
CONSTANTS
    Threads = {t1, t2}
    Conns = {c1, c2}
    NoName = none
    Shares = {none}
    NULL = NULL
    PathNamesShare = FALSE
    EaSupport = TRUE
    MayRefuse = FALSE
    MayDrop = TRUE
    MaxDepth = 3
INVARIANTS
    LibsmbSerialized
    MutexMatchesHandlers
    NoUseAfterDisconnect
PROPERTIES
    CallReturns
