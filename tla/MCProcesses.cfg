SPECIFICATION PartSpec
CONSTANTS
    d1 = d1
    d2 = d2
    t1 = t1
    h1 = h1
    h2 = h2
    s1 = s1
    Daemon = {d1, d2}
    Tool = {t1}
    Hook = {h1, h2}
    Session = {s1}
    None = None
    MaxCrashes = 2
    Flush = {"f1"}
    MayDefer = TRUE
    MaxStarts = 3
    Capture = {"h1", "h2"}
    MaxFaults = 1
    MaxFlips = 2
    Declared = 1
    Batch = 1
    Id = {"b1"}
    MaxMoves = 1
    MaxMishaps = 2
SYMMETRY Symmetry
CONSTRAINTS Beside Strain
INVARIANTS OneHolder EndedForReal EventKept MigrationSound
PROPERTY TurnedAwayByOwner
CHECK_DEADLOCK FALSE
