\* Two documents sharing claim rounds, two job rows each, two workers; one of
\* the five running stages is enough, the queue never compares them.
CONSTANTS
    d1 = d1
    d2 = d2
    w1 = w1
    w2 = w2
    Doc <- MCDoc
    Worker <- MCWorker
    RunningStages = {"INDEXING"}
    MaxRounds = 2
    RowMax = {2}
    ConfigMax = 2
    BatchSize = 2
    MaxClaims = 3
SPECIFICATION Spec
SYMMETRY Symmetry
INVARIANT ActiveJobMatchesDocument
INVARIANT SettledByLastClaim
PROPERTY ImplementsDocumentIngestion
CHECK_DEADLOCK FALSE
