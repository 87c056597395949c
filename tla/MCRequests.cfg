SPECIFICATION PartSpec
CONSTANTS
    Worker = {"redrain"}
    Client = {"c1"}
    MaxRequests = 2
    MaxWedged = 1
    MayBreak = TRUE
    Prompt = {"p1", "p2"}
    Rule = {"r1", "r2"}
    MaxUses = 2
    PromptTool = "prompt"
    NoPath = "none"
    MaxFaults = 3
    Root <- PairedRoot
    NChunks = 2
    Chunks <- PairedChunks
    Side <- PairedSide
    Capture = {p, q}
    Ephemeral = {FALSE, TRUE}
    Quota = FALSE
    Holdable = {"a"}
    MaxPuts = 2
    MaxPasses = 2
    MaxCrashes = 1
    None = "none"
SYMMETRY Captures
CONSTRAINT Overlapped
INVARIANTS OrderlyShutdown NotSilenced PublicationSound StoreReadable
PROPERTY CompleteSweepCollects
CHECK_DEADLOCK FALSE
