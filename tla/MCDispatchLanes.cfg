SPECIFICATION Spec
CONSTANTS
    Session = {s1, s2}
    Worker = {w1, w2}
    None = None
    MaxArrival = 3
    RingCapacity = 1
    LaneCapacity = 2
    LaneSessionCapacity = 2
    UnheldCapacity = 4
    MaxFailures = 1
    MaxCopies = 1
    MaxForgets = 1
SYMMETRY Symmetry
CONSTRAINT Scenario
INVARIANTS InArrivalOrder OneHandler NothingForgotten
