SPECIFICATION Spec
CONSTANTS
    Session = {s1, s2}
    NSegments = 1
    MaxRetries = 1
    MaxSeq = 2
    MaxFaults = 0
    MaxCrashes = 1
INVARIANTS NoneSetAside
CHECK_DEADLOCK FALSE
