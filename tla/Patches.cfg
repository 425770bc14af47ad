SPECIFICATION PatcherSpec
CONSTANTS
    A = A
    B = B
    C = C
    Self = Self
    Plugins = {1, 2}
    Strings <- MCStrings
    Messages <- MCMessages
    Documents <- MCDocuments
    Rejected <- MCRejected
    NameLength = 3
    ArenaSize = 360
    Word = 4096
    MapCapacity = 1
    ListCapacity = 1
    MaxChildren = 2
    MaxStarts = 3
    MaxFileSize = 5
INVARIANTS BlocksDisjoint OffsetsValid HoldsWhatWasSent PatchedAsSent
PROPERTIES ImplementsRegistry
