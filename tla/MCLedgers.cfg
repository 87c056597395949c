SPECIFICATION PartSpec
CONSTANTS
    Version = {1, 2}
    OnStale = {"nextIdle", "immediate"}
    MaxCalls = 2
    MaxClock = 0
    MaxIngests = 2
    MaxFaults = 1
    Declares = {1}
    Boundary = {2}
    MaxStarts = 2
    Terminal = {"a", "b"}
    MaxInput = 6
    MaxReloads = 1
    Ceiling = 30
    MaxTokens = 36
    MinTokens = 20
    SkillTokens = 3
    Budget = {0, 2, 4, 6, 8, 10, 16, 21}
    Surplus = {0, 4}
INVARIANTS LedgerHonest AccountSound GrammarSound PayloadSound
CHECK_DEADLOCK FALSE
