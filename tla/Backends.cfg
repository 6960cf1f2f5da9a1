SPECIFICATION Spec
SYMMETRY Symmetry
CONSTANTS
    Callers = {c1, c2}
    Topics = {t, u}
    NoTopic = NoTopic
    Payloads = {1, 2}
    Capacity = 1
    MaxPublish = 2
    StorageKinds = {"rest", "libstorage", "module", "core"}
    Workers = {w1, w2}
    Blobs = {b1, b2}
    Chunks = 2
    Threads = {h1, h2}
    NoThread = NoThread
    MaxCalls = 2
    MaxEvents = 1
    Payee = "payee"
    Other = "other"
    Width = 2
    Bytes = {0, 1, 63, 64, 170, 255}
    MaxBytes = 5
    Wide = {3, 4, 6}
    Fees = {0, 1, 3}
    Spellings = {"abc", "0xabc"}
    MaxLogs = 2
    MaxVerified = 2
    MaxPaid = 3
    Agents = {a1, a2}
    Lengths = {2}
    Threshold = 2
    Limits = {0, 2}
    MaxKeys = 9
    MaxTasks = 1
    MaxRestarts = 1
    MaxLoad = 2
    MaxAnnounced = 1
CHECK_DEADLOCK FALSE
INVARIANTS
    StorageIsFaithful
    LateCallsAreHarmless
    ChainIsReadRight
    Base64IsStandard
    EnvelopeIsTransparent
    SealedLoadIsTrue
PROPERTIES
    KeepsTransportPromise
