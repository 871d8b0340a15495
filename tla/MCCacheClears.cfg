SPECIFICATION Spec
CONSTANTS
    q1 = q1
    q2 = q2
    q3 = q3
    k1 = k1
    chart = chart
    explore = explore
    None = None
    Key = {k1}
    Content = {chart, explore}
    KeyOf <- MCKeyOf
    Derived = {q3}
    Duckdb = {q3}
    ContentOf <- MCContentOf
    Query = {q1, q2, q3}
    Ttl = {2}
    Window = 2
    Buffer = 0
    MaxTime = 0
    MaxGeneration = 1
    MaxWait = 1
    MaxRun = 1
CHECK_DEADLOCK FALSE
INVARIANTS
    ProjectClearHolds
    ContentClearHolds
