SPECIFICATION FairSpec
CONSTANTS
    c1 = c1
    c2 = c2
    c3 = c3
    c4 = c4
    s1 = s1
    s2 = s2
    r1 = r1
    r2 = r2
    shareA = shareA
    shareB = shareB
    Nobody = Nobody
    Call = {c1, c2, c3, c4}
    Server = {s1}
    Row = {r1, r2}
    Edited = {}
    ServerOf <- QueueServer
    RowOf <- QueueRow
    ShareOf <- QueueShare
    MaxConcurrent = 1
    MaxSignIns = 0
    MaxTurns = 0
CHECK_DEADLOCK FALSE
INVARIANTS
    SlotsAddUp
    NoCallIsStranded
PROPERTIES
    EventuallySettled
