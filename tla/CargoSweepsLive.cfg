SPECIFICATION FairSpec
CONSTANTS
    b1 = b1
    Profiles <- MCProfiles
    Incremental <- MCNone
    Builds <- MCOneBuild
    MaxLock = 3
    HasTimeout = FALSE
    Timeout = 0
    MaxCrashes = 1
    Cleans <- MCNone
    Missing = Missing
    Nobody = Nobody
CHECK_DEADLOCK FALSE
PROPERTIES
    BuildsGetTheirLocks
    TrashIsRecovered
