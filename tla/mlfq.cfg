SPECIFICATION FairSpec
CONSTANTS
    Tasks = {t1, t2, t3, t4}
    Levels = {0, 1, 2, 3}
    BoostInterval = 3
    Backlog = 4
INVARIANTS
    WaitBounded
    NoOvertaking
PROPERTY
    NoStarvation
