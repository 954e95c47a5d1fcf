SPECIFICATION FairSpec
CONSTANTS
    i1 = i1  i2 = i2  whole = whole  d1 = d1  d2 = d2  r1 = r1  r2 = r2  t1 = t1  t2 = t2
    nobody = nobody  q1 = q1  q2 = q2  noid = noid  j1 = j1  k1 = k1  k2 = k2
    Items = {i1, i2}
    ShopIds = {q1, q2}
    NoId = noid
    Namings <- MCNamings
    Whole = whole
    Retries = 1
    Concurrency = 2
    Cap = 1
    Products = {1, 2, 3, 4}
    Shelf <- MCShelf
    PageSize = 2
    Deliveries = {d1, d2}
    Notices <- MCNotices
    RowIds = {r1, r2}
    Tenants = {t1, t2}
    Nobody = nobody
    WebhookTries = 2
    WatchJobs = {j1}
    Webhooks <- MCWebhooks
    Mappings = {"x", "y"}
    Stocks = {0, 1, 2}
    WatchTries = 2
    RegistryKeys = {"eposnow", "wix"}
    Providers = {o1, o2}
    Removals = {v1, v2}
    NoKey = NoKey
    NoProvider = NoProvider
    Listings <- MCListings
    Threshold = 60
    ChannelPairs = {"till to web", "web to till"}
    Nothing = Nothing
    Pipe = 2
    Jobs = {k1, k2}
    Mixes <- MCMixes
    MaxShops = 2
CHECK_DEADLOCK FALSE
INVARIANTS
    TypeOK
    SteadyProductsRead
PROPERTIES
    AnswersKept
    NoticesFollowChannels
