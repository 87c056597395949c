SPECIFICATION PartSpec
CONSTANTS
    MaxLines = 2
    MaxFaults = 1
    MaxTears = 1
    MaxCrashes = 2
    Session = {"s1"}
    Worker = {w1, w2}
    None = None
    MaxArrival = 2
    RingCapacity = 1
    LaneCapacity = 2
    LaneSessionCapacity = 1
    UnheldCapacity = 4
    MaxFailures = 1
    MaxCopies = 0
    MaxForgets = 0
INVARIANT SpoolSound
PROPERTIES SegmentRemoved EveryJobSettles
CHECK_DEADLOCK FALSE
