\* No pause: no worker outlives its lease.  One disturbance: a worker that is told
\* to drain was not killed before.  Two rounds of two attempts and one
\* claim lost to the disturbance: MaxClaims never stops a worker.
CONSTANTS
    d1 = d1
    d2 = d2
    w1 = w1
    w2 = w2
    Doc <- MCOneDoc
    Worker <- MCTwoWorkers
    RunningStages <- AllStages
    MaxRounds = 2
    RowMax = {2}
    ConfigMax = 2
    BatchSize = 1
    MaxClaims = 5
    NoClaim = NoClaim
    Disturbances = {"crash", "lost_write", "signal", "delete"}
    MaxDisturbances = 1
SPECIFICATION FairWSpec
INVARIANT SearchableWhenCompleted
INVARIANT DrainedHoldsNothing
PROPERTY EveryDocumentSettles
CHECK_DEADLOCK FALSE
