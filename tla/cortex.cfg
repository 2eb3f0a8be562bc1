SPECIFICATION FairSpec
CONSTANTS
    Tasks = {t1, t2}
    MaxTurns = 3
    MaxToolCalls = 4
    MaxFanout = 3
    MaxFrames = 4
    MaxInvocations = 4
INVARIANTS
    TranscriptAnswered
    OutcomeAudited
    NothingLeft
PROPERTY
    InvokeReturns
CHECK_DEADLOCK FALSE
