CONSTANTS
    Peers = {a, b}
    Payloads = {x, y}
    Ephemerals = {}
    InitialClocks = {0}
    HistorySize = 1
    AcksThreshold = 2
    IncomingMax = 2
    OutgoingMax = 1
    PossibleAcksMax = 1
    SelfDelivery = FALSE
    MaxStamped = 2
    MaxTs = 6
    MaxMessages = 3
    MaxFaults = 1
    Capacity = 100
    Bits <- ExactBits
    BitsOf <- ExactBitsOf
SPECIFICATION Spec
SYMMETRY Symmetry
CHECK_DEADLOCK FALSE
INVARIANTS
    LamportCondition
    CausalDelivery
    AckedIsSeenElsewhere
    BuffersBounded
