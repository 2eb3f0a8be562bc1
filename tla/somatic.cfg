SPECIFICATION FairSpec
CONSTANTS
    MaxPackets = 2
    NumIntentions = 1
    OfferedPackets <- MixedPackets
    SignalSamples <- Readings
    Moods <- BothGates
    BoostInterval = 2
    GateOperatorInput = TRUE
    MaxTracked = 1
    MaxRestarts = 2
    NoTask = NoTask
INVARIANTS
    TypeOK
    AuditOrder
    ConversationFollows
    OperatorHeard
    OperatorTasksPending
    GateKeepsUrgent
    GivesUpOnStreak
    ShutdownPrompt
PROPERTY
    ImplementsLifecycle
    PacketsSettle
    ShutdownCompletes
