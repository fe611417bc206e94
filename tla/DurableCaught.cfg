SPECIFICATION ExecutionSpec
CONSTANTS
    Kind <- KindOf
    Handlers <- BothHandlers
    MaxAttempts = 3
    Chains <- MCChains
    MaxRetries = 1
    MaxCancels = 2
    MaxSeals = 2
INVARIANT
    RecordedIsReplayed
CHECK_DEADLOCK FALSE
