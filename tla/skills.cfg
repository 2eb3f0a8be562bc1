SPECIFICATION FairSpec
CONSTANTS
    Tools = {1, 2, 3}
    Flagged = {{2, 3}}
    MinEpisodes = 2
    Threshold = 1
    MaxPatterns = 2
    AutoPromote = FALSE
    Deciders = {"console", "library"}
    MaxEpisodes = 2
    Locks = {"registry", "queue"}
INVARIANTS
    ActiveOnlyApproved
    WithdrawnStaysOut
PROPERTY
    ProposedReachesOperator
CHECK_DEADLOCK FALSE
