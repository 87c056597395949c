SPECIFICATION PartSpec
CONSTANTS
    Delivery = {1, 2}
    SessionOf <- OneSession
    Deniable = {1}
    Caller = {c1, c2}
    Rollover = 1
    TornStaging = TRUE
    MaxFaults = 2
    MaxPasses = 1
    None = None
    c1 = c1
    c2 = c2
    Nonce = {1, 2, 3}
    Owner = {1, 2}
    MaxEntries = 3
    MaxBatch = 2
    Key = {"k1", "k2", "k3", "k4"}
    Value = {"a", "b"}
    Width = 3
    MaxPacks = 2
SYMMETRY Symmetry
CONSTRAINT Scenario
INVARIANTS StoreKeeps HarvestNamesOpen RotationRecovers SegmentSound IndexSound
PROPERTY ImplementsLedger
CHECK_DEADLOCK FALSE
