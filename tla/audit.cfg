SPECIFICATION Spec
CONSTANTS
    Handles = {loop}
    MaxInMemory = 2
    MaxPushes = 5
    MaxRestarts = 2
    MaxFaults = 2
INVARIANTS
    QuietLogVerifies
    SidecarWithinLog
    OneLostPerRestart
    RecentRecoverable
CHECK_DEADLOCK FALSE
