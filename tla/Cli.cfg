SPECIFICATION Spec
CONSTANTS
    user = user
    other = other
    Clients <- MCClients
    Invokes <- MCInvokes
    MaxDaemons = 2
CHECK_DEADLOCK FALSE
INVARIANTS
    TaskIsSentOnce
PROPERTIES
    EveryCommandEnds
