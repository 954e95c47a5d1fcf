SPECIFICATION EngineSpec
CONSTANTS
    p1 = p1  epos = epos  shop = shop
    NoChannel = NoChannel  NoProduct = NoProduct  NoStock = NoStock
    Channels <- Till
    ChannelType <- TillTypes
    Products = {p1}
    Known = {p1}
    Mapping <- Everywhere
    Buffer <- Buffered
    MaxStock = 2
    InitStock = 2
    Threshold = 2
    Workers = {1}
    MaxJobs = 1
    Ops = {"stock_change"}
    MaxAttempts = 2
    MaxStalls = 1
    MaxDbErrors = 0
    MaxLostReplies = 0
    MaxChannelFaults = 1
    MaxCrashes = 0
    MaxStops = 0
    MaxToggles = 0
    MaxGuardianFaults = 1
    MaxUnreported = 1
INVARIANTS
    TypeOK
    RepairedMeansConsistent
PROPERTIES
    LargeDriftsAreKept
    DriftIsDealtWith
