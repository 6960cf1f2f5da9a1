SPECIFICATION HostSpec
CONSTANTS
    p = p
    q = q
    c1 = c1
    c2 = c2
    c3 = c3
    Peers = {p, q}
    Cmds = {c1, c2, c3}
    Rows = {c1, c2, c3}
    Starts = {c1, c2, c3}
    MaxStarts = 2
    MaxTears = 2
    Sids = {c1, c2, c3}
    TaskIds = {p, q}
    MaxTaskIds = 1
    MaxAge = 1
    MaxTime = 3
    MaxSends = 1
    Tools = {p, q}
    HostThreads = {c1, c2, c3}
    NobodyHolds = nobody
    MaxNodes = 2
    Operations = {p, q}
    MaxAttempts = 2
    MaxBatch = 2
SYMMETRY HostSymmetry
CHECK_DEADLOCK FALSE
INVARIANTS
    TrustListIsKept
    OneRowPerTear
    SameIdentity
    SendToAgentTellsTrue
    NodeInUseIsCurrent
    MetricsAddUp
PROPERTIES
    SessionsAreKept
