CONSTANTS
    r1 = r1
    r2 = r2
    r3 = r3
    Runner = {r1, r2, r3}
    Concurrency = 2
    MaxTurns = 2
    NoRunner = NoRunner
SPECIFICATION FairSpec
INVARIANTS
    QuietUnderLease
    ResumesAlone
    PodIsHealthy
PROPERTIES
    NoResumeAfterStop
    ComesBack
CHECK_DEADLOCK FALSE
