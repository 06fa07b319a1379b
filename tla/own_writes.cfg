\* Every handler, one at a time.
SPECIFICATION Spec
CONSTANTS
    docs = docs
    DOCS = DOCS
    tmp = tmp
    f1 = f1
    f2 = f2
    Root = root
    Dirs = {root, docs, DOCS, tmp}
    Folders = {root, f1, f2}
    folder <- MCfolder
    Listings <- AllListings
    None = None
    Capacity = 2
    Threads = {t1, t2}
    Names = {n1}
    Attrs = {a1, a2}
    NULL = NULL
    Absent = Absent
    Handlers <- AllOps
    Serialized = TRUE
SYMMETRY Symmetry
INVARIANTS
    CoherentButUncovered
PROPERTIES
    UsesListingCache
