SPECIFICATION FairSpec
CONSTANTS
    p1 = p1  gone = gone  epos = epos  shop = shop  web = web
    NoChannel = NoChannel  NoProduct = NoProduct  NoStock = NoStock
    Channels <- TwoChannels
    ChannelType <- TwoTypes
    Products = {p1, gone}
    Known = {p1}
    Mapping <- MappingTwo
    Buffer <- SmallBuffer
    MaxStock = 0
    InitStock = 0
    Workers = {1, 2}
    MaxJobs = 2
    Ops = {"product_sync"}
    MaxAttempts = 2
    MaxStalls = 1
    MaxDbErrors = 1
    MaxLostReplies = 0
    MaxChannelFaults = 0
    MaxCrashes = 1
    MaxStops = 1
    MaxToggles = 0
PROPERTIES
    EveryJobSettles
\* The environment asks for MaxJobs jobs and no more.
CHECK_DEADLOCK FALSE
