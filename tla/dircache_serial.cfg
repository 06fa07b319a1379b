\* The shipped build: the plugin mutex serialises whole requests.
SPECIFICATION Spec
CONSTANTS
    Threads = {t1, t2}
    Dirs = {d1, d2, d3}
    ulHash <- OwnHash
    folded <- OneDirectory
    Names = {n1, n2}
    Attrs = {a1}
    Entries = {e1, e2, e3, e4}
    NULL = NULL
    CacheListings = {0, 1, 2, 3}
    ulExpirationTime = 1
    QueryAge = 2
    Serialized = TRUE
    MayFail = FALSE
SYMMETRY Symmetry
INVARIANTS
    UniquePaths
    NewestFirst
    AnswersFresh
    TrapsExplained
PROPERTIES
    ImplementsListingCache
CHECK_DEADLOCK FALSE
