SPECIFICATION Spec
CONSTANTS
    Delivery = {1, 2, 3, 4}
    SessionOf <- MCSessionOf
    Deniable = {}
    Caller = {c1}
    Rollover = 1
    TornStaging = FALSE
    MaxFaults = 1
    MaxPasses = 0
    None = None
    c1 = c1
INVARIANT StagedNeverBlocks
CHECK_DEADLOCK FALSE
