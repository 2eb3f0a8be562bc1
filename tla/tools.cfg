SPECIFICATION Spec
SYMMETRY AnyCaller
CONSTANTS
    Callers = {c1, c2}
    Tools = {"echo", "clock"}
    Bypass = {"clock"}
    Payloads = {1, 2, 3}
    Hash <- Collide
    Threshold = 2
    Cooldown = 0
    Ttl = 1
    MaxEntries = 1
    MaxDrivers = 2
    MaxTime = 1
INVARIANTS
    CacheSound
    HitAnswersRequest
    FailuresContained
