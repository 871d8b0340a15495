CONSTANTS
    q1 = q1
    q2 = q2
    w1 = w1
    w2 = w2
    cached = cached
    Query = {q1}
    Worker = {w1}
    File <- MCFile
    Cached = cached
    NoFile = NoFile
    NoQuery = NoQuery
    Targets = {"duckdb", "pre_aggregate_warehouse"}
    NatsEnabled = FALSE
    MaxDeliver = 1
SPECIFICATION LossySpec
PROPERTY
    FallbackStartsLive
CHECK_DEADLOCK FALSE
