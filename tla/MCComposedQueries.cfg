CONSTANTS
    leg = leg
    merge = merge
    compose = compose
    s1 = s1
    c1 = c1
    Query = {leg, merge, compose}
    File = {leg, merge, compose}
    NoFile = NoFile
    Join = {merge, compose}
    Legs <- MCLegs
    Before <- MCBefore
    Slot = {s1}
    Canceller = {c1}
    NoQuery = NoQuery
    MaxLosses = 1
SPECIFICATION FairSpec
INVARIANTS
    ReadsAnswers
    StoppedNeverRuns
    NoCollateral
    AnsweredCancelIsWhole
    NoStandstill
PROPERTIES
    EveryPromiseKept
    EveryQueryEnds
CHECK_DEADLOCK FALSE
