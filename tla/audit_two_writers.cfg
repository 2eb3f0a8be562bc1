SPECIFICATION Spec
CONSTANTS
    Handles = {loop, drainer}
    MaxInMemory = 2
    MaxPushes = 3
    MaxRestarts = 0
    MaxFaults = 0
INVARIANT
    QuietLogVerifies
CHECK_DEADLOCK FALSE
