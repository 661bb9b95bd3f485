SPECIFICATION FixedFairSpec
CONSTANTS
    k1 = k1
    k2 = k2
    v1 = v1
    v2 = v2
    None = None
    Keys = {k1}
    Values = {v1}
    Digests = {k1}
    DigestOf <- OwnDigest
    KVSize <- AllSmall
    NrSlabClass = 1
    SlotSize <- OneClass
    SlabBytes = 1
    MSlabs = {m1}
    gc_buffer = gcb
    DSlabs = {d1, d2, d3, d4, d5, d6}
    NrChannels = 2
    ChannelOf <- TwoChannels
    OpsPerChannel = 1
    NrIndexEntry = 1
    LowInit = 2
    HighInit = 2
    LowMin = 2
    HighMax = 12
    Readers = {}
    MaxCalls = 6
    NDEBUG = FALSE
    QueueFactor = 3
    OpsFloor = 1
    MarkStep = 1
    AllowShutdown = FALSE
INVARIANTS OneHand IndexSound CountersExact MarksInOrder SelectionCovered
PROPERTIES RoundEnds
CHECK_DEADLOCK FALSE
