CONSTANTS
    Requests = {q1}
    Jobs = {j1}
    Pipe = 1
    Sizes = {0}
    N = 2
    Callers = {c1}
    Followers = {}
    MaxFaults = 0
SPECIFICATION AgentsSpec
INVARIANTS
    ReassembledIsWhole
CHECK_DEADLOCK FALSE
