SPECIFICATION ExecutionSpec
CONSTANTS
    Kind <- KindOf
    Handlers <- BothHandlers
    MaxAttempts = 3
    Chains <- MCChains
    MaxRetries = 1
    MaxCancels = 2
    MaxSeals = 2
INVARIANTS
    SequentialAccepted
    HandlerSeesPlaintext
    OutcomeCounted
PROPERTIES
    ReplayFaithful
    CheckpointKept
    CancelPrevails
    SuccessIsKept
    TimeoutEnds
CHECK_DEADLOCK FALSE
