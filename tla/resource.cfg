\* Two resources at every level, with one connection each.
SPECIFICATION ResSpec
CONSTANTS
    Slots = {s1, s2}
    Letters <- MCLetters
    Sep = "/"
    Upper <- MCUpper
    Asked <- MCAsked
    Paths <- MCPaths
    Disks <- MCDisks
    Passwords <- MCPasswords
    K = 2
    SectorWord = 8
    UnitWord = 16
    MaxRefused = 1
SYMMETRY Renamings
INVARIANTS
    SettingsInRange
    ResourceMatchesSession
    ParsedShare
    MoveWithinShare
    CachesAccounted
    EqualOnlyByParsing
    DiskSizeTold
    PasswordKept
