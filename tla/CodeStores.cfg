CONSTANTS
    NumPages = 1
    PageWords = 2
    Frames = {1}
    Window = {1}
    GlobalPages = {}
    MapsTo <- WideMapsTo
    Asids = {a1}
    Runs <- WideRuns
    Slots = 2
    JumpCacheSize = 2
    StoreWords = 2
SPECIFICATION StaleSpec
INVARIANTS
    StaleCodeIsDirty
