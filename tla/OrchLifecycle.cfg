SPECIFICATION FairSpec
CONSTANTS
    t1 = t1  c1 = c1  c2 = c2  c3 = c3
    NoProc = NoProc  NoTenant = NoTenant  NoWorker = NoWorker
    Tenants = {t1}
    Procs = {c1, c2}
    Polls = {1, 2}
    MaxRestarts = 2
    CheckEvery = 3
    PongWindow = 2
    Clocks = {TRUE, FALSE}
    MaxFaults = 2
    MaxCrashes = 1
    MaxHangs = 1
    MaxTimeouts = 1
    MaxToggles = 2
    MaxStops = 1
    MaxPollErrors = 1
INVARIANTS
    TypeOK
    NoStrayProcess
PROPERTIES
    ActiveServed
    InactiveStopped
    HungIsKilled
