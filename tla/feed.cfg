SPECIFICATION FairSpec
CONSTANTS
    Values = {"vitals"}
    LineBytes = 2
    ReplayCapacity = 1
    MaxTrackedLinks = 1
    MaxLines = 5
    MaxOther = 1
    MaxTasks = 2
    MaxLosses = 1
INVARIANTS
    LinesOnceInOrder
    StampedRight
PROPERTIES
    NoLineSkipped
    EveryLineShown
CHECK_DEADLOCK FALSE
