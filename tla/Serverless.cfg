SPECIFICATION Spec
CONSTANTS
    Messages = {m1, m2}
    MaxBatch = 2
    MaxReceive = 2
    MaxAttempts = 2
PROPERTIES
    ImplementsDelivery
    RerunJustified
    PoisonLeaves
CHECK_DEADLOCK FALSE
