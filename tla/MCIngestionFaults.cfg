\* One document in the hands of two workers under every disturbance.
CONSTANTS
    d1 = d1
    d2 = d2
    w1 = w1
    w2 = w2
    Doc <- MCOneDoc
    Worker <- MCTwoWorkers
    RunningStages <- AllStages
    MaxRounds = 2
    RowMax = {2}
    ConfigMax = 2
    BatchSize = 1
    MaxClaims = 4
    NoClaim = NoClaim
    Disturbances = {"crash", "pause", "lost_write", "signal", "delete", "rollback"}
    MaxDisturbances = 2
SPECIFICATION WSpec
INVARIANT CompletedHasChunks
CHECK_DEADLOCK FALSE
