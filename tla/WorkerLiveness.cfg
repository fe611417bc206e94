SPECIFICATION FairSpec
CONSTANTS
    Tokens = {t1, t2}
    Concurrency = 2
    MaxAttempts = 2
    MaxSurplus = 1
    SwallowCancel = FALSE
PROPERTIES
    ShutdownCompletes
    IdleCapacityFetches
