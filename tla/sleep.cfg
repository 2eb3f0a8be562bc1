SPECIFICATION Spec
CONSTANTS
    Keys = {"k1", "k2"}
    Kinds = {"plain", "tuned", "stable"}
    Fading = {"plain", "tuned"}
    Tuned = {"tuned"}
    Plain = "plain"
    Capacity = 3
    SampleSize = 2
    Threshold = 80
    MaxMemories = 4
    MaxCycles = 3
    MaxRestarts = 1
    MaxFaults = 1
INVARIANTS
    ArchivedStays
    LossAccounted
CHECK_DEADLOCK FALSE
