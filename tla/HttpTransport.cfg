SPECIFICATION Spec
CONSTANTS
    push = push
    keyed = keyed
    ack = ack
    k1 = k1
    NoKey = NoKey
    Ops = {push, keyed, ack}
    Reads = {push, keyed}
    Method <- Methods
    Key <- Keys
    MaxRetries = 2
    MinBackoff = 2
    MaxBackoff = 2
    Enabled = TRUE
    RetryServerErrors = TRUE
    RetryAfters = {2, 9}
INVARIANTS
    ExecutionsAccounted
PROPERTIES
    BackoffRespected
    OperationsEnd
CHECK_DEADLOCK FALSE
