\* A deletable row and a poison row, two processors, one crash, two overruns.
CONSTANTS
    e1 = e1
    e2 = e2
    p1 = p1
    p2 = p2
    Event <- MCEvents
    Poison <- MCPoison
    Piece = {"first", "rest"}
    Processor <- MCProcessors
    MaxRetries = 2
    BatchSize = 2
    MaxCrashes = 1
    MaxOverruns = 2
SPECIFICATION FairOutboxSpec
PROPERTY SettledIsFinal
PROPERTY ImplementsOwedDeletion
PROPERTY EveryRowSettles
CHECK_DEADLOCK FALSE
