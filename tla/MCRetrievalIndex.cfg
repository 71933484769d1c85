\* One document of at most two chunks, two rounds of ingestion, one chat request.
CONSTANTS
    d1 = d1
    r1 = r1
    Doc <- MCOneDoc
    Whole = Whole
    Request <- MCRequest
    ChunkIndex <- MCIndex
    MaxRounds = 2
    MaxCommands = 1
SPECIFICATION Spec
INVARIANT AlarmMeansNobodyOwes
PROPERTY SearchReachesCompleted
INVARIANT AnswerFromLatestRound
CHECK_DEADLOCK FALSE
