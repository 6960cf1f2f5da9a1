CONSTANTS
    Requests = {q1, q2}
    Jobs = {j1, j2}
    Pipe = 1
    Sizes = {0, 2, 3}
    N = 3
    Callers = {c1, c2}
    Followers = {c2}
    MaxFaults = 1
SPECIFICATION FairAgentsSpec
CHECK_DEADLOCK FALSE
INVARIANTS
    NothingLeftBehind
    EventTellsReply
    LoadIsExact
    ReadersSeeStream
PROPERTIES
    KeepsPromise
    StreamCompletes
    AcceptedIsReported
    ExecutionEnds
