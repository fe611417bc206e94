SPECIFICATION Spec
CONSTANTS
    Visibility = 6
    Interval = 2
    MaxBackoff = 4
    MaxLatency = 2
    MaxRetries = 2
    BaseDelay = 3
    MaxDelay = 8
    LateWakes = FALSE
PROPERTY
    RetryWithinLease
