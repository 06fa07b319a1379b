\* Two directories behind a cache for one listing, both protocols, every failure.
SPECIFICATION Spec
CONSTANTS
    Dirs = {d1, d2}
    Names = {n1, n2}
    Dots = dots
    Stripped = {n2}
    Protocols = {"smb1", "smb2"}
    None = None
    Capacity = 1
    Listings <- MCListings
INVARIANTS
    CachedComplete
    DeliversExpected
    FailuresAccounted
PROPERTIES
    FindReturns
