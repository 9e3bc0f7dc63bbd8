SPECIFICATION FairSSpec
CONSTANTS
    Host = {"ui", "worker", "main"}
    UI = "ui"
    Arch = "arm"
    WakeByReset = TRUE
    MaxResets = 1
    MaxSleeps = 0
    Periph = {"p1"}
    BootModes = {"cold"}
    MenuBeforeStart = FALSE
    MaxOps = 1
PROPERTIES
    OperationEnds
    GuestRunsAgain
    CloseSettles
