SPECIFICATION Spec
CONSTANTS
    Source = {s1, s2}
    Device = {"d1"}
SYMMETRY Symmetric
INVARIANTS
    LinesFollow
    IrqNotMissed
    NoSleepThroughWakeup
    WorkAnnounced
