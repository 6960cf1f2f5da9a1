CONSTANTS
    t1 = t1
    t2 = t2
    r1 = r1
    p2 = p2
    d2 = d2
    Tasks = {t1, t2}
    Receivers = {r1}
    DestOf <- OneReceiver
    MaxRetries = 1
    MaxAttempts = 2
    BaseDelay = 1
    MaxDelay = 1
    Jitter = TRUE
    MaxErrors = 2
    MaxLostData = 2
    MaxLostAcks = 1
    Me = Me
    Peers = {p1, p2}
    Calls = {d1, d2}
    Broadcasts = {d1}
    Capable = {p1}
    MaxConcurrent = 1
    MaxHops = 1
SPECIFICATION FairExchangeSpec
CHECK_DEADLOCK FALSE
INVARIANTS
    SendResultIsTrue
    DelegationIsRight
PROPERTIES
    TimeoutIsJustified
    EverySendReturns
    EveryCallReturns
