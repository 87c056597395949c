SPECIFICATION PartSpec
CONSTANTS
    Session = {s1, s2}
    NSegments = 1
    MaxRetries = 1
    MaxSeq = 2
    MaxFaults = 1
    MaxCrashes = 1
    Capture = {a, b}
    MaxGiveUps = 1
    MaxCompact = 1
    Event = {"e1"}
    MaxHooks = 4
    MaxCopies = 2
    MaxRestarts = 1
SYMMETRY Names
CONSTRAINTS BeforeSeal Disorder
INVARIANTS SealSound NeverSilentlyMissing CompactionHonest BlamedOnlyAhead
CHECK_DEADLOCK FALSE
