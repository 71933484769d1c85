\* Two users, two requests at a time, three in all, two failing calls.
SPECIFICATION Spec
CONSTANTS
    Users = {u1, u2}
    Workspace = workspace
    Clients = {c1, c2}
    Nobody = nobody
    MaxRequests = 3
    MaxFaults = 2
SYMMETRY DocumentSymmetry
INVARIANTS
    NoTupleWithoutRow
    AcceptedHasObject
    DeletedObjectIsKnown
PROPERTY
    SuccessMeansTarget
