SPECIFICATION FairSpec
CONSTANTS
    Host = {"h1", "h2"}
    UI = "h1"
    Arch = "mips"
    WakeByReset = TRUE
    MaxResets = 1
    MaxSleeps = 2
INVARIANTS
    NoSleeperAfterStop
PROPERTIES
    PauseReturnsParked
    StopEnds
    CancelWakes
