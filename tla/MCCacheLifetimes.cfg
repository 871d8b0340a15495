SPECIFICATION Spec
CONSTANTS
    q1 = q1
    q2 = q2
    q3 = q3
    k1 = k1
    chart = chart
    explore = explore
    None = None
    Key = {k1}
    Content = {chart, explore}
    KeyOf <- MCKeyOf
    Derived = {q2}
    Duckdb = {}
    ContentOf <- PairContentOf
    Query = {q1, q2}
    Ttl = {2, 5}
    Window = 5
    Buffer = 1
    MaxTime = 6
    MaxGeneration = 0
    MaxWait = 1
    MaxRun = 2
CHECK_DEADLOCK FALSE
INVARIANTS
    ContentClearHolds
    ServedWithinTtl
