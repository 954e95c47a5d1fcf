SPECIFICATION Spec
CONSTANTS
    p1 = p1  epos = epos  shop = shop
    Products <- One
    Channels <- Pair
    ChannelType <- PairTypes
    Mapping <- OnBoth
    Buffer <- OneBuffer
    Sealed <- Pair
    MaxStock = 2
    InitStock = 2
    Orders <- TwoItems
    ReportSlots = {1}
    PushSlots = {1}
    Runs = {1}
    RepairLimit = 1
    ReportAttempts = 1
    PushAttempts = 2
    MaxEvents = 1
PROPERTIES
    ChannelsConverge
