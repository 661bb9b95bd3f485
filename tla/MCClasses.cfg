SPECIFICATION Spec
CONSTANTS
    k1 = k1
    k2 = k2
    v1 = v1
    v2 = v2
    None = None
    Keys = {k1, k2}
    Values = {v1}
    Digests = {g}
    DigestOf <- SameDigest
    KVSize <- SizeByKey
    NrSlabClass = 2
    SlotSize <- TwoClasses
    SlabBytes = 4
    MSlabs = {m1, m2}
    gc_buffer = gcb
    DSlabs = {d1, d2, d3, d4}
    NrChannels = 1
    ChannelOf <- OneChannel
    OpsPerChannel = 1
    NrIndexEntry = 3
    LowInit = 1
    HighInit = 3
    LowMin = 1
    HighMax = 11
    Readers = {}
    MaxCalls = 5
    NDEBUG = FALSE
    QueueFactor = 4
    OpsFloor = 1
    MarkStep = 1
    AllowShutdown = FALSE
SYMMETRY SlabSymmetry
INVARIANTS ObjectsFitSlots FlushWaitHasHelper
PROPERTIES ImplementsLossyMap
CHECK_DEADLOCK FALSE
