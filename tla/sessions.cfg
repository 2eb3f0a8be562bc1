SPECIFICATION Spec
CONSTANTS
    Clis = {"cli"}
    MaxSessions = 2
    MaxTurns = 3
    MaxStarts = 2
    MaxFaults = 1
INVARIANTS
    WholeUnlessRaced
    AckedKept
    ConversationContinues
CHECK_DEADLOCK FALSE
