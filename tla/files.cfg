\* One open file on two files; every EA list of one or two attributes; a name
\* and its parent on a server that is lost up to three times in a query; buffers
\* that start with room for 4 files and directories of up to 12, in both builds.
SPECIFICATION Spec
CONSTANTS
    Files = {f1, f2}
    Handles = {0, 1}
    Attrs = {0, 1}
    NoFile = NoFile
    MaxSize = 1
    Reach = 1
    Word = 8
    EaNames <- MCEaNames
    Values = {0, 1, 3, 5}
    MaxValue = 3
    SetLists <- MCSetLists
    GetLists <- MCGetLists
    Rooms = {0, 4, 10, 13, 22, 40}
    Behind = {5, 7, 40}
    MaxLosses = 3
    Smb2Size = 4
    MaxFiles = 12
SYMMETRY Renamings
INVARIANTS
    HostAgreesOnOffset
    NothingLeftBehind
    QueryAnswered
    AnswerAsDocumented
    BufferInBounds
    CompleteOrInvalid
PROPERTIES
    DeferredReachTheFile
    HiddenFailuresNamed
    SetInOrder
