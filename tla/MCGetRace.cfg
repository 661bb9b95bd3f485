SPECIFICATION Spec
CONSTANTS
    k1 = k1
    k2 = k2
    v1 = v1
    v2 = v2
    None = None
    Keys = {k1, k2}
    Values = {v1, v2}
    Digests = {k1, k2}
    DigestOf <- OwnDigest
    KVSize <- AllSmall
    NrSlabClass = 1
    SlotSize <- OneClass
    SlabBytes = 1
    MSlabs = {m1}
    gc_buffer = gcb
    DSlabs = {d1, d2, d3, d4}
    NrChannels = 1
    ChannelOf <- OneChannel
    OpsPerChannel = 1
    NrIndexEntry = 2
    LowInit = 1
    HighInit = 3
    LowMin = 1
    HighMax = 11
    Readers = {r}
    MaxCalls = 4
    NDEBUG = TRUE
    QueueFactor = 3
    OpsFloor = 1
    MarkStep = 1
    AllowShutdown = FALSE
SYMMETRY SlabSymmetry
INVARIANTS GetReturnsFound
CHECK_DEADLOCK FALSE
