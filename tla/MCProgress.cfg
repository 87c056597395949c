SPECIFICATION PartSpec
CONSTANTS
    r1 = r1
    r2 = r2
    r3 = r3
    Req <- Requests
    SizeOf <- Sizes
    MaxN = 2
    MaxBytes = 3
    short = short
    long = long
    idle = idle
    Call <- Calls
    kind <- Kinds
    deadline <- Deadlines
    Delivery = {1, 2}
    Deniable = {}
    Caller = {"c1", "c2"}
    Rollover = 1
    TornStaging = FALSE
    MaxErrors = 1
    MaxPasses = 0
    None = None
    Worker = {"laneDrain"}
    Client = {"c1"}
    MaxRequests = 1
    MaxWedged = 1
    MayBreak = FALSE
    Hook = {"h1", "h2"}
    MaxFaults = 0
    MaxFlips = 2
INVARIANTS OneLeader BatchesSound GateSound
PROPERTIES ResultFinal EveryCommitReturns HandedOnFairly EveryCollectionReturns EveryJournalCallReturns ShutdownCompletes SpooledIsTaken
CHECK_DEADLOCK FALSE
