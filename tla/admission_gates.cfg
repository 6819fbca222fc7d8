SPECIFICATION Spec
CONSTANTS
    Users = {u1}
    Installation = installation
    Reviews = {r1, r2}
    WindowLimit = 2
    WindowLength = 4
    DayLength = 4
    DailyLimit = 3
    MaxTokens = 2
    MaxTime = 6
    Faults = {"redis", "database"}
SYMMETRY Symmetry
INVARIANT UsedWithinLimit
INVARIANT GrantsWithinLimit
INVARIANT UsageExplained
CHECK_DEADLOCK FALSE
