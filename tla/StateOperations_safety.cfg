SPECIFICATION SSpec
CONSTANTS
    Host = {"ui", "worker", "main"}
    UI = "ui"
    Arch = "arm"
    WakeByReset = FALSE
    MaxResets = 0
    MaxSleeps = 1
    Periph = {"p1"}
    BootModes = {"warm", "resume"}
    MenuBeforeStart = FALSE
    MaxOps = 1
INVARIANTS
    PauserIsHeard
    SnapshotQuietUnlessReset
    PauseRequestAgrees
