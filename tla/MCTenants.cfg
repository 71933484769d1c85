\* One tenant, workspace and document; one failing call or crash.
SPECIFICATION FairSpec
CONSTANTS
    t1 = t1
    w1 = w1
    d1 = d1
    Tenant = {t1}
    Workspace = {w1}
    Document = {d1}
    TenantOf <- MCTenantOf
    WorkspaceOf <- MCWorkspaceOf
    BatchSize = 2
    MaxFaults = 1
INVARIANTS
    MissingRelationIsKnown
    
PROPERTIES
    DeletionTakesRelations
    
CHECK_DEADLOCK FALSE
