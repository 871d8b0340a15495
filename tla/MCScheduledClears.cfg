SPECIFICATION FairSpec
CONSTANTS
    s1 = s1
    s2 = s2
    Sweep = {s1, s2}
    Never = Never
    MaxTime = 3
CHECK_DEADLOCK FALSE
INVARIANTS
    OneClearPerRun
PROPERTIES
    EditsWin
    DueIsServed
