SPECIFICATION Spec
CONSTANTS
    Envelopes <- UnusualFields
    Failing <- UsualOnly
    MaxId = 4
    MaxLimit = 2
    MaxChanges = 2
    Jobs = {j1, j2}
    Idle = idle
    Visibility = 9
    Interval = 2
    RpcLatency = 1
    MaxBeatBackoff = 3
    MaxJobs = 3
INVARIANTS
    JobKept
    ErrorsAgree
    PageHonest
    OvershootBounded
    LeasesKept
    WorkflowKept
PROPERTIES
    PagingEnds
    HeartbeatHonest
CHECK_DEADLOCK FALSE
