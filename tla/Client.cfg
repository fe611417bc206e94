SPECIFICATION ClientSpec
CONSTANTS
    N = 3
    Timeouts = TRUE
    Cancellable = TRUE
    Callers = {t1, t2, t3}
    NoOne = NoOne
    MaxCalls = 3
    MaxLoops = 2
    Length = 3
    MaxReconnects = 2
INVARIANTS
    AllOrNothing
    NoTaskLeft
    OneAtATime
    ClosedIsQuiet
    EventsAsSent
PROPERTIES
    Settles
    CallsEnd
    SubscriptionSettles
CHECK_DEADLOCK FALSE
