CONSTANTS
    Peers = {a, b}
    Payloads = {1, 2}
    Ephemerals = {3}
    InitialClocks = {0}
    HistorySize = 1
    AcksThreshold = 2
    IncomingMax = 1
    OutgoingMax = 1
    PossibleAcksMax = 1
    SelfDelivery = TRUE
    MaxStamped = 1
    MaxTs = 3
    MaxMessages = 2
    MaxFaults = 2
    Capacity = 3
    Bits <- SharedBits
    BitsOf <- SharedBitsOf
SPECIFICATION Spec
INVARIANTS
    DirectDeliveryIsFresh
SYMMETRY PeerSymmetry
CHECK_DEADLOCK FALSE
