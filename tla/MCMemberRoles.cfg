\* Two members, two requests at a time, no tenant owner behind the guard.
SPECIFICATION FairSpec
CONSTANTS
    Members = {m1, m2}
    Clients = {c1, c2}
    Nobody = nobody
    OwnerPath = FALSE
    BatchSize = 1
    MaxRetries = 2
    MaxRequests = 2
    MaxFaults = 2
INVARIANTS
    ManagementPathKept
    FailClosed
PROPERTIES
    SyncSettledInAgreement
    RowsSettle
