SPECIFICATION FairSpec
CONSTANTS
    Host = {"ui"}
    Ui = "ui"
    Engines = {"arm", "mips"}
    MaxEvents = 4
INVARIANTS
    ArmedUnlessDropped
    WipeIsCold
    ResumeHasCause
PROPERTIES
    HardResetHappens
    ClaimedSleepEnds
