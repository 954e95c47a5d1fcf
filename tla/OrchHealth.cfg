SPECIFICATION Spec
CONSTANTS
    t1 = t1  c1 = c1  c2 = c2  c3 = c3
    NoProc = NoProc  NoTenant = NoTenant  NoWorker = NoWorker
    Tenants = {t1}
    Procs = {c1, c2}
    Polls = {1}
    MaxRestarts = 2
    CheckEvery = 3
    PongWindow = 2
    Clocks = {TRUE}
    MaxFaults = 1
    MaxCrashes = 1
    MaxHangs = 1
    MaxTimeouts = 0
    MaxToggles = 0
    MaxStops = 0
    MaxPollErrors = 0
PROPERTIES
    ResponsiveNotKilled
