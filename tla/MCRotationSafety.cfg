SPECIFICATION Spec
CONSTANTS
    c1 = c1
    c2 = c2
    c3 = c3
    c4 = c4
    s1 = s1
    s2 = s2
    r1 = r1
    r2 = r2
    shareA = shareA
    shareB = shareB
    Nobody = Nobody
    Call = {c1, c2, c3}
    Server = {s1, s2}
    Row = {r1}
    Edited = {r1}
    ServerOf <- ContendServer
    RowOf <- ContendRow
    ShareOf <- ContendShare
    MaxConcurrent = 1
    MaxSignIns = 1
    MaxTurns = 1
CHECK_DEADLOCK FALSE
INVARIANTS
    SentTokenIsLatest
    NewestSignInIsStored
    AnsweredIsStored
