SPECIFICATION FairSpec
CONSTANTS
    t1 = t1  t2 = t2  p1 = p1  c1 = c1  a1 = a1  a2 = a2  b1 = b1  h1 = h1  NoTenant = NoTenant  NoSubject = NoSubject  NoThreshold = NoThreshold
    Owner <- Owners
    Tenants = {t1, t2}
    Products = {p1}
    Channels = {c1}
    Levels = {1, 3}
    LowStockThreshold = 1
    BackendThreshold = 1
    RuleThresholds = {3}
    AgentSlots = {a1}
    BackendSlots = {b1}
    Handlers = {h1}
    Flaky = {t1}
    Attempts = 2
    MaxPeriodic = 1
    MaxJobs = 1
    MaxEvents = 3
    MaxAgentFaults = 1
    MaxCalls = 4
CHECK_DEADLOCK FALSE
INVARIANTS
    TypeOK
    DuplicatesAreRaces
    AllOrNothing
PROPERTIES
    LowStockAlerted
