SPECIFICATION FairSpec
CONSTANTS
    Visibility = 9
    Interval = 2
    MaxBackoff = 4
    MaxLatency = 2
    MaxRetries = 2
    BaseDelay = 3
    MaxDelay = 8
    LateWakes = TRUE
INVARIANTS
    OverrunBounded
    LeaseKept
PROPERTIES
    RetryTimely
    SleepEnds
