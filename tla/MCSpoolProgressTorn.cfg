SPECIFICATION Spec
CONSTANTS
    MaxLines = 2
    MaxFaults = 0
    MaxTears = 1
    MaxCrashes = 1
INVARIANTS
    EveryAckReplayable
CHECK_DEADLOCK FALSE
