SPECIFICATION FairSpec
CONSTANTS
    m1 = m1
    m2 = m2
    release = release
    Nobody = Nobody
    Migrator = {m1, m2}
    Version = {release}
    AppVersion <- OneRelease
    Files <- FilesOfRelease
    Jobs <- JobsOfRelease
    MaxAttempts = 2
CHECK_DEADLOCK FALSE
INVARIANTS
    OneMigrator
    LateBounded
    SucceededMeansMigrated
    ParkedIsIdle
    ParkedIsRecorded
PROPERTIES
    TakenOnlyWhenFree
    EveryCommandEnds
