SPECIFICATION Spec
CONSTANTS
    Messages = {m1, m2}
    MaxBatch = 2
    MaxReceive = 2
    MaxAttempts = 2
PROPERTY
    InvalidLeaves
CHECK_DEADLOCK FALSE
