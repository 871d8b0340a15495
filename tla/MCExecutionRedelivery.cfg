CONSTANTS
    q1 = q1
    q2 = q2
    w1 = w1
    w2 = w2
    cached = cached
    Query = {q1}
    Worker = {w1, w2}
    File <- MCFile
    Cached = cached
    NoFile = NoFile
    NoQuery = NoQuery
    Targets = {"warehouse", "duckdb", "external_source", "pre_aggregate_duckdb", "pre_aggregate_warehouse"}
    NatsEnabled = TRUE
    MaxDeliver = 2
SPECIFICATION MCSpec
INVARIANTS
    AnswerIsUploaded
    OneOwner
    ExpiredIsNotRun
PROPERTIES
    PromiseKept
    AnswerTakenBack
    StoppedBeforeTaken
    EndsUnlessLost
CHECK_DEADLOCK FALSE
