SPECIFICATION Spec
CONSTANTS
    Requests <- Asked
    Ceiling = 30
    MaxTokens = 36
    MinTokens = 20
    SkillTokens = 3
    Budget = {4, 6, 8, 10, 12, 14, 16, 18, 20, 22, 24}
INVARIANT GrowsWithBudget
CHECK_DEADLOCK FALSE
