SPECIFICATION FairSpec
CONSTANTS
    tab = tab  ann = ann  bob = bob  n1 = n1  n2 = n2  NoUser = NoUser  NoSocket = NoSocket
    Tenant <- Tenants
    Tabs = {tab}
    Users = {ann, bob}
    Sockets = {1, 2}
    MaxAttempts = 2
    MaxEvents = 3
CHECK_DEADLOCK FALSE
INVARIANTS
    TypeOK
    OpenIsListed
PROPERTIES
    DeadEntriesLeave
    GivesUp
    ImportEnds
