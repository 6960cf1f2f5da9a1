CONSTANTS
    a = a
    b = b
    c = c
    d = d
    e = e
    f = f
    g = g
    bare = bare
    prefixed = prefixed
    low = low
    NoTx = NoTx
    Callers = {p1, p2}
    Tasks = {a, b, c, d, e}
    Senders = {f, g}
    Txs = {bare, prefixed, low}
    Transactions = {prefixed, low}
    From <- MCFrom
    Wrap <- MCWrap
    Body <- MCBody
    Tx <- MCTx
    Claimed <- MCClaimed
    Requirements = {0, 2}
    Normalised <- MCNormalised
    OnChain <- MCOnChain
    MaxCopies = 3
    MaxResets = 1
    MaxTrustChanges = 1
    Ttls = {0, 3, 4}
    Every = 2
    MaxDelay = 1
    PollEvery = 1
    MaxTime = 7
    MaxFaults = 1
    Self = me
    Others = {p}
    Askers = {a1, a2}
    MaxVersion = 2
    MaxAnnounced = 2
SPECIFICATION InboxSpec
SYMMETRY Symmetry
CHECK_DEADLOCK FALSE
INVARIANTS
    SurfacedOnce
    PaidInFull
    NothingVanishes
    PresenceIsTrue
    DiscoveryKeepsUp
PROPERTIES
    AdmissionRespectsTrust
