SPECIFICATION Spec
CONSTANTS
    t1 = t1  t2 = t2  e1 = e1  e2 = e2  p1 = p1  p2 = p2  s1 = s1  s2 = s2
    NoTenant = NoTenant  NoPassword = NoPassword  NoLink = NoLink  NoInstance = NoInstance
    NoFlow = NoFlow  NoChannel = NoChannel  NoSubscription = NoSubscription  NoCustomer = NoCustomer
    Tenants = {t1, t2}
    Emails = {e1, e2}
    Lower <- Lowered
    Passwords = {p1, p2}
    Links = {l1, l2}
    Calls = {c1, c2}
    Channels = {x1, x2, x3}
    Instances = {i1, i2}
    Flows = {f1, f2}
    Handlers = {h1, h2}
    Plans = {"starter", "growth"}
    Limit <- Limits
    Subscriptions = {s1, s2}
    Customers = {k1, k2}
    Checkouts = {o1, o2}
    Products = {a1, a2}
    Mappings = {m1, m2}
    Skus = {"tea", "mug"}
    ExternalIds = {"e"}
    Requests = {q1, q2}
    NoSku = NoSku
    Budgets <- Allowed
CHECK_DEADLOCK FALSE
INVARIANTS
    TypeOK
    DeadLinksStayDead
    FlowsStayApart
    RemovedAppIsQuiet
    
    CatalogueHolds
