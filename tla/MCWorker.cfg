SPECIFICATION Spec
CONSTANTS
    Tokens = {t1, t2, t3}
    Concurrency = 2
    MaxAttempts = 2
    MaxSurplus = 2
    SwallowCancel = TRUE
SYMMETRY TokenSymmetry
INVARIANTS
    AdmissionAccounted
    OneOutcome
PROPERTIES
    NoSilentEnd
    ImplementsContract
