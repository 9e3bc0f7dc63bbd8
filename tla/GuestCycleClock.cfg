SPECIFICATION Spec
CONSTANTS
    Device = 2
    Wrap = 7
    MaxSlice = 2
    MaxBlock = 1
    Rates <- MCRates
    ResetRate <- MCResetRate
    SliceNs = 3
    MaxCatchUpNs = 2
    Delays = {0, 3}
    Pauses = {4}
    Saved = {5}
    MaxCycles = 7
    MaxWall = 2
    MaxRequests = 2
INVARIANTS
    TypeOK
    FoldExact
    EventsOnTime
    LastRequestWins
    ThrottleAhead
    GuestNotAhead
PROPERTIES
    GuestTimeMonotone
    RunInOrder
