\* Only single cache calls exclude each other; memory may run out.
SPECIFICATION Spec
CONSTANTS
    Threads = {t1, t2}
    Dirs = {d1, d2}
    ulHash <- OneHash
    folded <- OwnDirectory
    Names = {n1}
    Attrs = {a1}
    Entries = {e1, e2, e3, e4}
    NULL = NULL
    CacheListings = {0, 1, 2}
    ulExpirationTime = 1
    QueryAge = 1
    Serialized = FALSE
    MayFail = TRUE
SYMMETRY Symmetry
INVARIANTS
    TypeOK
    EntryOwnership
    CapacityBound
PROPERTIES
    InvalidateRemovesAll
    ListedImmutable
CHECK_DEADLOCK FALSE
