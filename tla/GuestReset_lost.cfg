SPECIFICATION FairSpec
CONSTANTS
    Host = {"ui"}
    Ui = "ui"
    Engines = {"arm"}
    MaxEvents = 3
INVARIANTS
    ArmedMeansComing
