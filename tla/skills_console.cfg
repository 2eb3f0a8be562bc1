SPECIFICATION FairSpec
CONSTANTS
    Tools = {1, 2}
    Flagged = {}
    MinEpisodes = 2
    Threshold = 2
    MaxPatterns = 1
    AutoPromote = FALSE
    Deciders = {"console"}
    MaxEpisodes = 2
    Locks = {}
PROPERTY
    ApprovedBecomesActive
CHECK_DEADLOCK FALSE
