CONSTANTS
    NumPages = 2
    PageWords = 2
    Frames = {1, 2}
    Window = {1, 2}
    GlobalPages = {0}
    MapsTo <- MCMapsTo
    Asids = {a1, a2}
    Runs <- MCRuns
    Slots = 2
    JumpCacheSize = 2
    StoreWords = 2
SPECIFICATION Spec
SYMMETRY Symmetry
INVARIANTS
    TypeOK
    NoJumpToRemoved
    JumpCacheFresh
    ChainsSound
    BlocksListed
    StoredCodeIsDirty
