SPECIFICATION Spec
CONSTANTS
    p1 = p1  gone = gone  epos = epos  shop = shop  web = web
    NoChannel = NoChannel  NoProduct = NoProduct  NoStock = NoStock
    Channels <- ThreeChannels
    ChannelType <- ThreeTypes
    Products = {p1, gone}
    Known = {p1}
    Mapping <- MappingThree
    Buffer <- SmallBuffer
    MaxStock = 1
    InitStock = 1
    Workers = {1}
    MaxJobs = 2
    Ops = {"stock_change", "product_sync", "channel_sync", "full_sync"}
    MaxAttempts = 2
    MaxStalls = 1
    MaxDbErrors = 2
    MaxLostReplies = 1
    MaxChannelFaults = 2
    MaxCrashes = 1
    MaxStops = 0
    MaxToggles = 2
SYMMETRY Shops
CONSTRAINT FewFaults
INVARIANTS
    TypeOK
    AuditTellsStock
    ErrorsAccountForDivergence
    NoOrphanRows
\* The environment asks for MaxJobs jobs and no more.
CHECK_DEADLOCK FALSE
